-------------------------- MODULE ConnectionProofs --------------------------
(***************************************************************************)
(* Proofs about connections.  Connection, for any set of displays: what a  *)
(* connection is subscribed to is what its permissions and options allow;  *)
(* the inductive invariant adds to the properties only that there is no    *)
(* voice call, and no sound, before the login.  Privacy, for any set of    *)
(* connections and any number of faults: who holds the privacy mode they   *)
(* share, and what it covers.                                              *)
(***************************************************************************)
EXTENDS Connection, Privacy, TLAPS

NoEarlyCalls ==
    /\ phase \in {"login", "options"} => ~voice_calling
    /\ phase = "login" => "audio" \notin subs

IInv ==
    /\ TypeOK
    /\ NothingForbidden
    /\ NothingMissing
    /\ CameraHearsCalls
    /\ NoEarlyCalls

(* Permissions and options decide everything the helpers say. *)
LEMMA HelpersAreBoolean ==
    ASSUME NEW p \in [Permissions -> BOOLEAN], NEW o \in [Options -> BOOLEAN]
    PROVE  /\ can_sub_clipboard_service(p, o) \in BOOLEAN
           /\ can_sub_file_clipboard_service(p, o) \in BOOLEAN
           /\ audio_enabled(p, o) \in BOOLEAN
           /\ SeesCursor(p, o) \in BOOLEAN
           /\ can_sub_file_clipboard_service(p, o) =>
                 file_transfer_enabled(p, o)
BY DEF can_sub_clipboard_service, can_sub_file_clipboard_service,
       audio_enabled, SeesCursor, file_transfer_enabled, clipboard_enabled,
       peer_keyboard_enabled, Permissions, Options

(* Calls of Server::subscribe: the services named are decided, the others  *)
(* stay as they are.                                                       *)
LEMMA OneCall ==
    ASSUME NEW b \in BOOLEAN, NEW s
    PROVE  /\ s \in Subscribed([clipboard |-> b]) <=>
                 \/ s = "clipboard" /\ b
                 \/ s \in subs /\ s # "clipboard"
           /\ s \in Subscribed([file_clipboard |-> b]) <=>
                 \/ s = "file_clipboard" /\ b
                 \/ s \in subs /\ s # "file_clipboard"
           /\ s \in Subscribed([focus |-> b]) <=>
                 \/ s = "focus" /\ b
                 \/ s \in subs /\ s # "focus"
           /\ s \in Subscribed([audio |-> b]) <=>
                 \/ s = "audio" /\ b
                 \/ s \in subs /\ s # "audio"
BY DEF Subscribed

LEMMA TwoCalls ==
    ASSUME NEW b \in BOOLEAN, NEW c \in BOOLEAN, NEW s
    PROVE  s \in Subscribed([cursor |-> b, pos |-> c]) <=>
           \/ s = "cursor" /\ b
           \/ s = "pos" /\ c
           \/ s \in subs /\ s \notin {"cursor", "pos"}
BY DEF Subscribed

LEMMA ThreeCalls ==
    ASSUME NEW a \in BOOLEAN, NEW b \in BOOLEAN, NEW c \in BOOLEAN, NEW s
    PROVE  s \in Subscribed([clipboard |-> a, file_clipboard |-> b,
                             cursor |-> c]) <=>
           \/ s = "clipboard" /\ a
           \/ s = "file_clipboard" /\ b
           \/ s = "cursor" /\ c
           \/ s \in subs /\ s \notin {"clipboard", "file_clipboard", "cursor"}
BY DEF Subscribed

(* Both forms of the call for audio. *)
LEMMA AudioCall ==
    ASSUME NEW p \in [Permissions -> BOOLEAN],
           NEW o \in [Options -> BOOLEAN], NEW s
    PROVE  s \in Subscribed(Audio(p, o)) <=>
           \/ s \in subs /\ s # "audio"
           \/ /\ s = "audio"
              /\ IF kind = "camera" /\ ~voice_calling /\ audio_enabled(p, o)
                 THEN "audio" \in subs ELSE audio_enabled(p, o)
<1>1. audio_enabled(p, o) \in BOOLEAN
    BY HelpersAreBoolean
<1> DEFINE quiet == kind = "camera" /\ ~voice_calling /\ audio_enabled(p, o)
<1>2. CASE quiet
  <2>1. CASE "audio" \in subs
    <3>1. Audio(p, o) = [audio |-> TRUE]
        BY <1>2, <2>1 DEF Audio
    <3>2. s \in Subscribed([audio |-> TRUE]) <=> s \in subs
        BY <2>1, OneCall
    <3> QED BY <1>2, <2>1, <3>1, <3>2
  <2>2. CASE "audio" \notin subs
    <3>1. Audio(p, o) = [audio |-> FALSE]
      <4>1. ("audio" \in subs) = FALSE
          BY <2>2
      <4>2. Audio(p, o) = [audio |-> "audio" \in subs]
          BY <1>2 DEF Audio
      <4> QED BY <4>1, <4>2, Zenon
    <3>2. s \in Subscribed([audio |-> FALSE]) <=> s \in subs
        BY <2>2, OneCall
    <3> QED BY <1>2, <2>2, <3>1, <3>2
  <2> QED BY <2>1, <2>2
<1>3. CASE ~quiet
  <2>1. Audio(p, o) = [audio |-> audio_enabled(p, o)]
      BY <1>3 DEF Audio
  <2>2. s \in Subscribed([audio |-> audio_enabled(p, o)]) <=>
           \/ s = "audio" /\ audio_enabled(p, o)
           \/ s \in subs /\ s # "audio"
      BY <1>1, OneCall
  <2> QED BY <1>3, <2>1, <2>2
<1> QED BY <1>2, <1>3

LEMMA InitInv == Init => IInv
BY DisplaysAssumption
   DEF Init, IInv, TypeOK, NothingForbidden, NothingMissing,
       CameraHearsCalls, NoEarlyCalls, Services

LEMMA NextInv == IInv /\ [Next]_vars => IInv'
<1> SUFFICES ASSUME IInv, [Next]_vars PROVE IInv'
    OBVIOUS
<1> USE DEF IInv, NoEarlyCalls, Open, Services, login, voice, video
<1>1. ASSUME NEW b \in BOOLEAN, SwitchPermission(b) PROVE IInv'
  <2>0. perm' \in [Permissions -> BOOLEAN] /\ opt' = opt
      BY <1>1 DEF SwitchPermission, SwitchKeyboard, SwitchClipboard,
                  SwitchAudio, SwitchFile, Switch, TypeOK, Permissions
  <2>1. CASE SwitchKeyboard(b)
    <3>0. b \/ opt["show_remote_cursor"] \in BOOLEAN
        BY DEF TypeOK, Options
    <3>1. /\ perm' = [perm EXCEPT !["keyboard"] = b]
          /\ UNCHANGED <<login, phase, opt, voice, video>>
          /\ kind = "remote"
        BY <2>1 DEF SwitchKeyboard, Switch
    <3>2. \A s : s \in subs' <=>
             \/ s = "clipboard" /\ can_sub_clipboard_service(perm', opt)
             \/ s = "file_clipboard"
                   /\ can_sub_file_clipboard_service(perm', opt)
             \/ s = "cursor" /\ (b \/ opt["show_remote_cursor"])
             \/ s \in subs
                   /\ s \notin {"clipboard", "file_clipboard", "cursor"}
        BY <2>0, <2>1, ThreeCalls, <3>0, HelpersAreBoolean DEF SwitchKeyboard, TypeOK
    <3>3. /\ perm'["keyboard"] = b
          /\ \A n \in Permissions \ {"keyboard"} : perm'[n] = perm[n]
        BY <3>1 DEF TypeOK, Permissions
    <3>4. TypeOK'
        BY <2>0, <3>1, <3>2 DEF TypeOK
    <3>5. NothingForbidden'
        BY <2>0, <3>1, <3>2, <3>3, HelpersAreBoolean
           DEF NothingForbidden, TypeOK, can_sub_clipboard_service,
               clipboard_enabled, audio_enabled, file_transfer_enabled,
               SeesCursor, peer_keyboard_enabled, Permissions
    <3>6. NothingMissing'
        BY <3>1, <3>2, <3>3
           DEF NothingMissing, can_sub_clipboard_service, clipboard_enabled,
               audio_enabled, SeesCursor, peer_keyboard_enabled, Permissions
    <3>7. CameraHearsCalls'
        BY <2>0, <3>1, <3>2, <3>3, HelpersAreBoolean
           DEF CameraHearsCalls, TypeOK, audio_enabled, Permissions
    <3> QED BY <3>1, <3>2, <3>4, <3>5, <3>6, <3>7
  <2>2. CASE SwitchClipboard(b)
    <3>1. /\ perm' = [perm EXCEPT !["clipboard"] = b]
          /\ UNCHANGED <<login, phase, opt, voice, video>>
          /\ kind = "remote"
        BY <2>2 DEF SwitchClipboard, Switch
    <3>2. \A s : s \in subs' <=>
             \/ s = "clipboard" /\ can_sub_clipboard_service(perm', opt)
             \/ s \in subs /\ s # "clipboard"
        BY <2>0, <2>2, OneCall, HelpersAreBoolean DEF SwitchClipboard, TypeOK
    <3>3. /\ perm'["clipboard"] = b
          /\ \A n \in Permissions \ {"clipboard"} : perm'[n] = perm[n]
        BY <3>1 DEF TypeOK, Permissions
    <3>4. TypeOK'
        BY <2>0, <3>1, <3>2 DEF TypeOK
    <3>5. NothingForbidden'
        BY <2>0, <3>1, <3>2, <3>3, HelpersAreBoolean
           DEF NothingForbidden, TypeOK, can_sub_clipboard_service,
               clipboard_enabled, audio_enabled, file_transfer_enabled,
               SeesCursor, peer_keyboard_enabled, Permissions
    <3>6. NothingMissing'
        BY <3>1, <3>2, <3>3
           DEF NothingMissing, can_sub_clipboard_service, clipboard_enabled,
               audio_enabled, SeesCursor, peer_keyboard_enabled, Permissions
    <3>7. CameraHearsCalls'
        BY <2>0, <3>1, <3>2, <3>3, HelpersAreBoolean
           DEF CameraHearsCalls, TypeOK, audio_enabled, Permissions
    <3> QED BY <3>1, <3>2, <3>4, <3>5, <3>6, <3>7
  <2>3. CASE SwitchAudio(b)
    <3>1. /\ perm' = [perm EXCEPT !["audio"] = b]
          /\ UNCHANGED <<login, phase, opt, voice, video>>
          /\ phase \in {"login"} \cup Open
        BY <2>3 DEF SwitchAudio, Switch
    <3>2. \A s : s \in subs' <=>
             IF phase = "login" THEN s \in subs ELSE
             \/ s \in subs /\ s # "audio"
             \/ /\ s = "audio"
                /\ IF kind = "camera" /\ ~voice_calling
                         /\ audio_enabled(perm', opt)
                   THEN "audio" \in subs ELSE audio_enabled(perm', opt)
        BY <2>0, <2>3, AudioCall, HelpersAreBoolean DEF SwitchAudio, TypeOK
    <3>3. /\ perm'["audio"] = b
          /\ \A n \in Permissions \ {"audio"} : perm'[n] = perm[n]
        BY <3>1 DEF TypeOK, Permissions
    <3>4. TypeOK'
        BY <2>0, <3>1, <3>2 DEF TypeOK
    <3>5. NothingForbidden'
        BY <2>0, <3>1, <3>2, <3>3, HelpersAreBoolean
           DEF NothingForbidden, TypeOK, can_sub_clipboard_service,
               clipboard_enabled, audio_enabled, file_transfer_enabled,
               SeesCursor, peer_keyboard_enabled, Permissions
    <3>6. NothingMissing'
        BY <3>1, <3>2, <3>3
           DEF NothingMissing, can_sub_clipboard_service, clipboard_enabled,
               audio_enabled, SeesCursor, peer_keyboard_enabled, Permissions
    <3>7. CameraHearsCalls'
        BY <2>0, <3>1, <3>2, <3>3, HelpersAreBoolean
           DEF CameraHearsCalls, TypeOK, audio_enabled, Permissions
    <3> QED BY <3>1, <3>2, <3>4, <3>5, <3>6, <3>7
  <2>4. CASE SwitchFile(b)
    <3>1. /\ perm' = [perm EXCEPT !["file"] = b]
          /\ UNCHANGED <<login, phase, opt, voice, video>>
          /\ kind = "remote"
        BY <2>4 DEF SwitchFile, Switch
    <3>2. \A s : s \in subs' <=>
             \/ s = "file_clipboard" /\ can_sub_file_clipboard_service(perm', opt)
             \/ s \in subs /\ s # "file_clipboard"
        BY <2>0, <2>4, OneCall, HelpersAreBoolean DEF SwitchFile, TypeOK
    <3>3. /\ perm'["file"] = b
          /\ \A n \in Permissions \ {"file"} : perm'[n] = perm[n]
        BY <3>1 DEF TypeOK, Permissions
    <3>4. TypeOK'
        BY <2>0, <3>1, <3>2 DEF TypeOK
    <3>5. NothingForbidden'
        BY <2>0, <3>1, <3>2, <3>3
           DEF NothingForbidden, TypeOK, can_sub_clipboard_service,
               can_sub_file_clipboard_service,
               clipboard_enabled, audio_enabled, file_transfer_enabled,
               SeesCursor, peer_keyboard_enabled, Permissions
    <3>6. NothingMissing'
        BY <3>1, <3>2, <3>3
           DEF NothingMissing, can_sub_clipboard_service, clipboard_enabled,
               audio_enabled, SeesCursor, peer_keyboard_enabled, Permissions
    <3>7. CameraHearsCalls'
        BY <2>0, <3>1, <3>2, <3>3, HelpersAreBoolean
           DEF CameraHearsCalls, TypeOK, audio_enabled, Permissions
    <3> QED BY <3>1, <3>2, <3>4, <3>5, <3>6, <3>7
  <2> QED BY <1>1, <2>1, <2>2, <2>3, <2>4 DEF SwitchPermission
<1>2. ASSUME NEW b \in BOOLEAN, update_options(b) PROVE IInv'
  <2>0. opt' \in [Options -> BOOLEAN] /\ perm' = perm
      BY <1>2 DEF update_options, ShowRemoteCursor, FollowRemoteWindow,
                  DisableAudio, EnableFileTransfer, DisableClipboard,
                  DisableKeyboard, Option, TypeOK, Options
  <2>1. CASE ShowRemoteCursor(b)
    <3>1. /\ opt' = [opt EXCEPT !["show_remote_cursor"] = b]
          /\ UNCHANGED <<login, phase, perm, voice, video>>
          /\ phase \in {"options"} \cup Open
        BY <2>1 DEF ShowRemoteCursor, Option
    <3>2. \A s : s \in subs' <=>
             \/ s = "cursor" /\ SeesCursor(perm, opt')
             \/ s = "pos" /\ b
             \/ s \in subs /\ s \notin {"cursor", "pos"}
        BY <2>0, <2>1, TwoCalls, HelpersAreBoolean DEF ShowRemoteCursor, TypeOK
    <3>3. /\ opt'["show_remote_cursor"] = b
          /\ \A n \in Options \ {"show_remote_cursor"} : opt'[n] = opt[n]
        BY <3>1 DEF TypeOK, Options
    <3>4. TypeOK'
        BY <2>0, <3>1, <3>2 DEF TypeOK
    <3>5. NothingForbidden'
        BY <2>0, <3>1, <3>2, <3>3, HelpersAreBoolean
           DEF NothingForbidden, TypeOK, can_sub_clipboard_service,
               clipboard_enabled, audio_enabled, file_transfer_enabled,
               SeesCursor, peer_keyboard_enabled, Options
    <3>6. NothingMissing'
        BY <3>1, <3>2, <3>3
           DEF NothingMissing, can_sub_clipboard_service, clipboard_enabled,
               audio_enabled, SeesCursor, peer_keyboard_enabled, Options
    <3>7. CameraHearsCalls'
        BY <2>0, <3>1, <3>2, <3>3, HelpersAreBoolean
           DEF CameraHearsCalls, TypeOK, audio_enabled, Options
    <3> QED BY <3>1, <3>2, <3>4, <3>5, <3>6, <3>7
  <2>2. CASE FollowRemoteWindow(b)
    <3>1. /\ opt' = [opt EXCEPT !["follow_remote_window"] = b]
          /\ UNCHANGED <<login, phase, perm, voice, video>>
          /\ phase \in {"options"} \cup Open
        BY <2>2 DEF FollowRemoteWindow, Option
    <3>2. \A s : s \in subs' <=>
             \/ s = "focus" /\ b
             \/ s \in subs /\ s # "focus"
        BY <2>0, <2>2, OneCall, HelpersAreBoolean DEF FollowRemoteWindow, TypeOK
    <3>3. /\ opt'["follow_remote_window"] = b
          /\ \A n \in Options \ {"follow_remote_window"} : opt'[n] = opt[n]
        BY <3>1 DEF TypeOK, Options
    <3>4. TypeOK'
        BY <2>0, <3>1, <3>2 DEF TypeOK
    <3>5. NothingForbidden'
        BY <2>0, <3>1, <3>2, <3>3, HelpersAreBoolean
           DEF NothingForbidden, TypeOK, can_sub_clipboard_service,
               clipboard_enabled, audio_enabled, file_transfer_enabled,
               SeesCursor, peer_keyboard_enabled, Options
    <3>6. NothingMissing'
        BY <3>1, <3>2, <3>3
           DEF NothingMissing, can_sub_clipboard_service, clipboard_enabled,
               audio_enabled, SeesCursor, peer_keyboard_enabled, Options
    <3>7. CameraHearsCalls'
        BY <2>0, <3>1, <3>2, <3>3, HelpersAreBoolean
           DEF CameraHearsCalls, TypeOK, audio_enabled, Options
    <3> QED BY <3>1, <3>2, <3>4, <3>5, <3>6, <3>7
  <2>3. CASE DisableAudio(b)
    <3>1. /\ opt' = [opt EXCEPT !["disable_audio"] = b]
          /\ UNCHANGED <<login, phase, perm, voice, video>>
          /\ phase \in {"options"} \cup Open
        BY <2>3 DEF DisableAudio, Option
    <3>2. \A s : s \in subs' <=>
             \/ s \in subs /\ s # "audio"
             \/ /\ s = "audio"
                /\ IF kind = "camera" /\ ~voice_calling
                         /\ audio_enabled(perm, opt')
                   THEN "audio" \in subs ELSE audio_enabled(perm, opt')
        BY <2>0, <2>3, AudioCall, HelpersAreBoolean DEF DisableAudio, TypeOK
    <3>3. /\ opt'["disable_audio"] = b
          /\ \A n \in Options \ {"disable_audio"} : opt'[n] = opt[n]
        BY <3>1 DEF TypeOK, Options
    <3>4. TypeOK'
        BY <2>0, <3>1, <3>2 DEF TypeOK
    <3>5. NothingForbidden'
        BY <2>0, <3>1, <3>2, <3>3, HelpersAreBoolean
           DEF NothingForbidden, TypeOK, can_sub_clipboard_service,
               clipboard_enabled, audio_enabled, file_transfer_enabled,
               SeesCursor, peer_keyboard_enabled, Options
    <3>6. NothingMissing'
        BY <3>1, <3>2, <3>3
           DEF NothingMissing, can_sub_clipboard_service, clipboard_enabled,
               audio_enabled, SeesCursor, peer_keyboard_enabled, Options
    <3>7. CameraHearsCalls'
        BY <2>0, <3>1, <3>2, <3>3, HelpersAreBoolean
           DEF CameraHearsCalls, TypeOK, audio_enabled, Options
    <3> QED BY <3>1, <3>2, <3>4, <3>5, <3>6, <3>7
  <2>4. CASE EnableFileTransfer(b)
    <3>1. /\ opt' = [opt EXCEPT !["enable_file_transfer"] = b]
          /\ UNCHANGED <<login, phase, perm, voice, video>>
          /\ phase \in {"options"} \cup Open
        BY <2>4 DEF EnableFileTransfer, Option
    <3>2. \A s : s \in subs' <=>
             \/ s = "file_clipboard" /\ can_sub_file_clipboard_service(perm, opt')
             \/ s \in subs /\ s # "file_clipboard"
        BY <2>0, <2>4, OneCall, HelpersAreBoolean DEF EnableFileTransfer, TypeOK
    <3>3. /\ opt'["enable_file_transfer"] = b
          /\ \A n \in Options \ {"enable_file_transfer"} : opt'[n] = opt[n]
        BY <3>1 DEF TypeOK, Options
    <3>4. TypeOK'
        BY <2>0, <3>1, <3>2 DEF TypeOK
    <3>5. NothingForbidden'
        BY <2>0, <3>1, <3>2, <3>3, HelpersAreBoolean
           DEF NothingForbidden, TypeOK, can_sub_clipboard_service,
               clipboard_enabled, audio_enabled, file_transfer_enabled,
               SeesCursor, peer_keyboard_enabled, Options
    <3>6. NothingMissing'
        BY <3>1, <3>2, <3>3
           DEF NothingMissing, can_sub_clipboard_service, clipboard_enabled,
               audio_enabled, SeesCursor, peer_keyboard_enabled, Options
    <3>7. CameraHearsCalls'
        BY <2>0, <3>1, <3>2, <3>3, HelpersAreBoolean
           DEF CameraHearsCalls, TypeOK, audio_enabled, Options
    <3> QED BY <3>1, <3>2, <3>4, <3>5, <3>6, <3>7
  <2>5. CASE DisableClipboard(b)
    <3>1. /\ opt' = [opt EXCEPT !["disable_clipboard"] = b]
          /\ UNCHANGED <<login, phase, perm, voice, video>>
          /\ phase \in {"options"} \cup Open
        BY <2>5 DEF DisableClipboard, Option
    <3>2. \A s : s \in subs' <=>
             \/ s = "clipboard" /\ can_sub_clipboard_service(perm, opt')
             \/ s \in subs /\ s # "clipboard"
        BY <2>0, <2>5, OneCall, HelpersAreBoolean DEF DisableClipboard, TypeOK
    <3>3. /\ opt'["disable_clipboard"] = b
          /\ \A n \in Options \ {"disable_clipboard"} : opt'[n] = opt[n]
        BY <3>1 DEF TypeOK, Options
    <3>4. TypeOK'
        BY <2>0, <3>1, <3>2 DEF TypeOK
    <3>5. NothingForbidden'
        BY <2>0, <3>1, <3>2, <3>3, HelpersAreBoolean
           DEF NothingForbidden, TypeOK, can_sub_clipboard_service,
               clipboard_enabled, audio_enabled, file_transfer_enabled,
               SeesCursor, peer_keyboard_enabled, Options
    <3>6. NothingMissing'
        BY <3>1, <3>2, <3>3
           DEF NothingMissing, can_sub_clipboard_service, clipboard_enabled,
               audio_enabled, SeesCursor, peer_keyboard_enabled, Options
    <3>7. CameraHearsCalls'
        BY <2>0, <3>1, <3>2, <3>3, HelpersAreBoolean
           DEF CameraHearsCalls, TypeOK, audio_enabled, Options
    <3> QED BY <3>1, <3>2, <3>4, <3>5, <3>6, <3>7
  <2>6. CASE DisableKeyboard(b)
    <3>1. /\ opt' = [opt EXCEPT !["disable_keyboard"] = b]
          /\ UNCHANGED <<login, phase, perm, voice, video>>
          /\ phase \in {"options"} \cup Open
        BY <2>6 DEF DisableKeyboard, Option
    <3>2. \A s : s \in subs' <=>
             \/ s = "clipboard" /\ can_sub_clipboard_service(perm, opt')
             \/ s = "file_clipboard"
                   /\ can_sub_file_clipboard_service(perm, opt')
             \/ s = "cursor" /\ SeesCursor(perm, opt')
             \/ s \in subs
                   /\ s \notin {"clipboard", "file_clipboard", "cursor"}
        BY <2>0, <2>6, ThreeCalls, HelpersAreBoolean DEF DisableKeyboard, TypeOK
    <3>3. /\ opt'["disable_keyboard"] = b
          /\ \A n \in Options \ {"disable_keyboard"} : opt'[n] = opt[n]
        BY <3>1 DEF TypeOK, Options
    <3>4. TypeOK'
        BY <2>0, <3>1, <3>2 DEF TypeOK
    <3>5. NothingForbidden'
        BY <2>0, <3>1, <3>2, <3>3, HelpersAreBoolean
           DEF NothingForbidden, TypeOK, can_sub_clipboard_service,
               clipboard_enabled, audio_enabled, file_transfer_enabled,
               SeesCursor, peer_keyboard_enabled, Options
    <3>6. NothingMissing'
        BY <3>1, <3>2, <3>3
           DEF NothingMissing, can_sub_clipboard_service, clipboard_enabled,
               audio_enabled, SeesCursor, peer_keyboard_enabled, Options
    <3>7. CameraHearsCalls'
        BY <2>0, <3>1, <3>2, <3>3, HelpersAreBoolean
           DEF CameraHearsCalls, TypeOK, audio_enabled, Options
    <3> QED BY <3>1, <3>2, <3>4, <3>5, <3>6, <3>7
  <2> QED BY <1>2, <2>1, <2>2, <2>3, <2>4, <2>5, <2>6 DEF update_options
<1>3. ASSUME NEW b \in BOOLEAN, handle_voice_call(b) PROVE IInv'
  <2>1. CASE kind = "camera"
    <3>1. (audio_enabled(perm, opt) /\ b) \in BOOLEAN
        OBVIOUS
    <3>2. \A s : s \in subs' <=>
             \/ s = "audio" /\ audio_enabled(perm, opt) /\ b
             \/ s \in subs /\ s # "audio"
        BY <1>3, <2>1, <3>1, OneCall DEF handle_voice_call
    <3> QED
        BY <1>3, <2>1, <3>2
           DEF handle_voice_call, TypeOK, NothingForbidden, NothingMissing,
               CameraHearsCalls, audio_enabled
  <2>2. CASE kind # "camera"
    <3>1. /\ UNCHANGED <<login, phase, perm, opt, subs, video>>
          /\ asked' = FALSE /\ voice_calling' = b /\ phase \in Open
        BY <1>3, <2>2 DEF handle_voice_call
    <3>2. TypeOK' /\ NoEarlyCalls'
        BY <3>1 DEF TypeOK
    <3>3. NothingForbidden' /\ NothingMissing'
        BY <3>1
           DEF NothingForbidden, NothingMissing, can_sub_clipboard_service,
               clipboard_enabled, audio_enabled, file_transfer_enabled,
               SeesCursor, peer_keyboard_enabled
    <3>4. CameraHearsCalls'
        BY <3>1, <2>2 DEF CameraHearsCalls
    <3> QED BY <3>2, <3>3, <3>4
  <2> QED BY <2>1, <2>2
<1>4. CASE Authorize
    BY <1>4 DEF Authorize, TypeOK, NothingForbidden, NothingMissing,
        CameraHearsCalls, can_sub_clipboard_service, clipboard_enabled,
        audio_enabled, file_transfer_enabled, SeesCursor,
        peer_keyboard_enabled
<1>5. CASE LoggedOn \/ SelectedSid
  <2>1. /\ perm' \in [Permissions -> BOOLEAN]
        /\ opt' = opt /\ kind' = kind /\ newer' = newer
        /\ voice_calling' = voice_calling /\ asked' = asked
        /\ display_idx' = display_idx /\ multi_ui_session' = multi_ui_session
        /\ phase' \in {"wait", "on"}
        /\ shown' \subseteq Displays
      BY <1>5, DisplaysAssumption
         DEF LoggedOn, SelectedSid, Add, TypeOK, Permissions
  <2>2. CASE kind = "camera"
    <3>1. subs' = subs
        BY <1>5, <2>2 DEF LoggedOn, SelectedSid, Add
    <3>2. perm'["audio"] = perm["audio"]
        BY <1>5 DEF LoggedOn, SelectedSid, TypeOK, Permissions
    <3>3. phase # "ended"
        BY <1>5 DEF LoggedOn, SelectedSid
    <3> QED
        BY <2>1, <2>2, <3>1, <3>2, <3>3, <1>5
           DEF TypeOK, NothingForbidden, NothingMissing, CameraHearsCalls,
               audio_enabled, LoggedOn, SelectedSid
  <2>3. CASE kind = "remote"
    <3>1. perm' = perm
      <4>1. (perm["keyboard"] /\ kind # "camera") = perm["keyboard"]
          BY <2>3 DEF TypeOK, Permissions
      <4> QED BY <4>1, <1>5 DEF LoggedOn, SelectedSid, TypeOK, Permissions
    <3>2. \/ phase' = "wait" /\ subs' = subs
          \/ subs' = subs \cup (Services \ noperms(perm, opt))
        BY <1>5, <2>3 DEF LoggedOn, SelectedSid, Add
    <3>3. phase \in {"options", "wait"}
        BY <1>5, <2>3 DEF LoggedOn, SelectedSid
    <3>4. subs' \subseteq Services
        BY <3>2 DEF TypeOK
    <3>5. NothingForbidden'
        BY <2>1, <2>3, <3>1, <3>2
           DEF NothingForbidden, noperms, can_sub_clipboard_service,
               can_sub_file_clipboard_service, clipboard_enabled,
               audio_enabled, file_transfer_enabled, SeesCursor,
               peer_keyboard_enabled
    <3>6. NothingMissing'
        BY <2>1, <2>3, <3>1, <3>2
           DEF NothingMissing, noperms, can_sub_clipboard_service,
               clipboard_enabled, audio_enabled, SeesCursor,
               peer_keyboard_enabled
    <3> QED
        BY <2>1, <2>3, <3>1, <3>3, <3>4, <3>5, <3>6, <1>5
           DEF TypeOK, CameraHearsCalls, LoggedOn, SelectedSid
  <2> QED BY <2>2, <2>3 DEF TypeOK
<1>6. CASE End
    BY <1>6 DEF End, TypeOK, NothingForbidden, NothingMissing,
        CameraHearsCalls
<1>7. CASE VoiceCallRequest
    BY <1>7 DEF VoiceCallRequest, TypeOK, NothingForbidden, NothingMissing,
        CameraHearsCalls, can_sub_clipboard_service, clipboard_enabled,
        audio_enabled, file_transfer_enabled, SeesCursor,
        peer_keyboard_enabled
<1>8. CASE close_voice_call
  <2>1. CASE kind = "camera"
      BY <1>8, <2>1
         DEF close_voice_call, TypeOK, NothingForbidden, NothingMissing,
             CameraHearsCalls
  <2>2. CASE kind # "camera"
    <3>1. /\ UNCHANGED <<login, phase, perm, opt, asked, subs, video>>
          /\ voice_calling' = FALSE
        BY <1>8, <2>2 DEF close_voice_call
    <3>2. TypeOK' /\ NoEarlyCalls'
        BY <3>1 DEF TypeOK
    <3>3. NothingForbidden' /\ NothingMissing'
        BY <3>1
           DEF NothingForbidden, NothingMissing, can_sub_clipboard_service,
               clipboard_enabled, audio_enabled, file_transfer_enabled,
               SeesCursor, peer_keyboard_enabled
    <3>4. CameraHearsCalls'
        BY <3>1, <2>2 DEF CameraHearsCalls
    <3> QED BY <3>2, <3>3, <3>4
  <2> QED BY <2>1, <2>2
<1>9. ASSUME NEW d \in Displays, SwitchDisplay(d) PROVE IInv'
    BY <1>9 DEF SwitchDisplay, TypeOK, NothingForbidden, NothingMissing,
        CameraHearsCalls, can_sub_clipboard_service, clipboard_enabled,
        audio_enabled, file_transfer_enabled, SeesCursor,
        peer_keyboard_enabled
<1>10. ASSUME NEW add \in SUBSET Displays, NEW sub \in SUBSET Displays,
              NEW set \in SUBSET Displays, CaptureDisplays(add, sub, set)
       PROVE  IInv'
  <2>1. multi_ui_session' \in BOOLEAN /\ shown' \subseteq Displays
      BY <1>10 DEF CaptureDisplays, TypeOK
  <2>2. \A s : s \in subs' <=>
           IF opt["follow_remote_window"] /\ s = "focus"
           THEN ~multi_ui_session' ELSE s \in subs
      BY <1>10, <2>1, OneCall DEF CaptureDisplays
  <2>3. UNCHANGED <<login, phase, perm, opt, voice, display_idx>>
      BY <1>10 DEF CaptureDisplays
  <2>4. TypeOK'
      BY <2>1, <2>2, <2>3 DEF TypeOK
  <2>5. NothingForbidden'
      BY <2>2, <2>3
         DEF NothingForbidden, can_sub_clipboard_service, clipboard_enabled,
             audio_enabled, file_transfer_enabled, peer_keyboard_enabled
  <2>6. NothingMissing'
      BY <1>10, <2>2, <2>3
         DEF CaptureDisplays, NothingMissing, can_sub_clipboard_service,
             clipboard_enabled, audio_enabled, SeesCursor, peer_keyboard_enabled
  <2>7. CameraHearsCalls' /\ NoEarlyCalls'
      BY <2>2, <2>3 DEF CameraHearsCalls, audio_enabled
  <2> QED BY <2>4, <2>5, <2>6, <2>7
<1>11. CASE UNCHANGED vars
    BY <1>11 DEF vars, TypeOK, NothingForbidden, NothingMissing,
        CameraHearsCalls, can_sub_clipboard_service, clipboard_enabled,
        audio_enabled, file_transfer_enabled, SeesCursor,
        peer_keyboard_enabled
<1> QED
    BY <1>1, <1>2, <1>3, <1>4, <1>5, <1>6, <1>7, <1>8, <1>9, <1>10, <1>11
       DEF Next

(* The state of a connection keeps its types. *)
THEOREM TypeCorrect == Spec => []TypeOK
BY InitInv, NextInv, PTL DEF Spec, IInv

(* Nothing comes from a service the permissions and options forbid, in     *)
(* whichever order switches, options, login and displays come.             *)
THEOREM NothingForbiddenHolds == Spec => []NothingForbidden
BY InitInv, NextInv, PTL DEF Spec, IInv

(* Every service they allow is subscribed once the connection is added.    *)
THEOREM NothingMissingHolds == Spec => []NothingMissing
BY InitInv, NextInv, PTL DEF Spec, IInv

(* Who watches a camera is subscribed to audio exactly in a permitted call. *)
THEOREM CameraHearsCallsHolds == Spec => []CameraHearsCalls
BY InitInv, NextInv, PTL DEF Spec, IInv

-----------------------------------------------------------------------------
(***************************************************************************)
(* The privacy mode.                                                       *)
(***************************************************************************)

\* The mode's own part: what is covered is held; nothing is left free when
\* nobody holds it.
ModeType == [impl : Impl, holder : Conn \cup {NoConn}, covered : BOOLEAN,
             hook : {"none", "set", "leaving"}, free : BOOLEAN, stuck : BOOLEAN]

ModeOK(m) ==
    /\ m \in ModeType
    /\ \/ m.stuck
       \/ /\ m.covered <=> m.holder # NoConn
          /\ m.hook = "set" <=> m.holder # NoConn /\ ~m.free
          /\ m.free => m.holder # NoConn

\* No ghost can appear because the threads nobody waits for are threads of
\* connections that gave up waiting (PrivacyTypeOK).
PrivacyInv == PrivacyTypeOK /\ ModeOK(mode) /\ NoGhostHolds

\* What every operation of an implementation returns.
Result(o) ==
    /\ ModeOK(o.mode) /\ o.faults \in Nat /\ o.answer \in {"ok", "plugin", "err"}

\* The fields of an outcome.
LEMMA OutcomeFields ==
    ASSUME NEW m, NEW a, NEW n
    PROVE  Outcome(m, a, n).mode = m /\ Outcome(m, a, n).answer = a /\ Outcome(m, a, n).faults = n
BY DEF Outcome

\* Unhooking leaves no hook set and concerns nothing else.
LEMMA UnhookMode ==
    ASSUME NEW m \in ModeType
    PROVE  /\ Unhook(m) \in ModeType /\ Unhook(m).hook # "set"
           /\ Unhook(m).holder = m.holder /\ Unhook(m).stuck = m.stuck
BY DEF Unhook, ModeType

\* A turning off that fails changes only the hook.
LEMMA StuckMode ==
    ASSUME NEW n \in ModeType
    PROVE  /\ [n EXCEPT !.stuck = TRUE] \in ModeType
           /\ [n EXCEPT !.stuck = TRUE].holder = n.holder
           /\ [n EXCEPT !.stuck = TRUE].stuck
BY DEF ModeType

\* What a turning off that succeeds makes of a mode.
LEMMA OffMode ==
    ASSUME NEW n \in ModeType
    PROVE  LET off == [n EXCEPT !.holder = NoConn, !.covered = FALSE, !.free = FALSE] IN
           /\ off \in ModeType /\ off.holder = NoConn /\ ~off.covered /\ ~off.free
           /\ off.stuck = n.stuck /\ off.hook = n.hook
BY DEF ModeType

\* turn_off_privacy: either it is not allowed and nothing changes, or nobody
\* holds the mode afterwards, or it is stuck.  A mode that was turned on only
\* half-way (TurnOnGuard) may be turned off as well.
LEMMA TurnOffResult ==
    ASSUME NEW m \in ModeType, NEW id \in Conn \cup {NoConn}, NEW o \in TurnOff(m, id),
           MayTurnOff(m, id) \/ ModeOK(m)
    PROVE  /\ Result(o)
           /\ o.mode.holder \in {m.holder, NoConn}
           /\ m.stuck => o.mode.stuck
           /\ MayTurnOff(m, id) => o.mode.holder = NoConn \/ o.mode.stuck
           /\ ~MayTurnOff(m, id) => o.mode = m
<1>0. m \in ModeType
  OBVIOUS
<1>1. CASE ~MayTurnOff(m, id)
  <2>1. o = Outcome(m, "err", 0)
    BY <1>1 DEF TurnOff
  <2> QED BY <1>0, <1>1, <2>1 DEF Outcome, Result
<1>2. CASE /\ MayTurnOff(m, id)
           /\ o = Outcome([Unhook(m) EXCEPT !.holder = NoConn, !.covered = FALSE,
                                            !.free = FALSE], "ok", 0)
  <2> DEFINE off == [Unhook(m) EXCEPT !.holder = NoConn, !.covered = FALSE, !.free = FALSE]
  <2>1. /\ off \in ModeType /\ off.holder = NoConn /\ off.stuck = m.stuck
        /\ ~off.covered /\ ~off.free /\ off.hook # "set"
    BY <1>0, UnhookMode, OffMode, Zenon
  <2>2. o = Outcome(off, "ok", 0)
    BY <1>2
  <2> HIDE DEF off
  <2>3. ModeOK(off)
    BY <2>1 DEF ModeOK
  <2>4. MayTurnOff(m, id)
    BY <1>2
  <2> QED BY <2>1, <2>2, <2>3, <2>4 DEF Result, Outcome
<1>3. ASSUME MayTurnOff(m, id), NEW n \in {m, Unhook(m)},
             o = Outcome([n EXCEPT !.stuck = TRUE], "err", 1)
      PROVE  /\ Result(o) /\ o.mode.holder = m.holder /\ o.mode.stuck
  <2>1. n \in ModeType /\ n.holder = m.holder
    BY <1>0, <1>3, UnhookMode
  <2> DEFINE s == [n EXCEPT !.stuck = TRUE]
  <2>2. s \in ModeType /\ s.holder = m.holder /\ s.stuck
    BY <2>1, StuckMode, Zenon
  <2>3. o = Outcome(s, "err", 1)
    BY <1>3
  <2> HIDE DEF s
  <2> QED BY <2>2, <2>3 DEF Result, ModeOK, Outcome
<1>4. CASE MayTurnOff(m, id)
  <2>1. \/ o = Outcome([Unhook(m) EXCEPT !.holder = NoConn, !.covered = FALSE,
                                         !.free = FALSE], "ok", 0)
        \/ \E n \in {m, Unhook(m)} : o = Outcome([n EXCEPT !.stuck = TRUE], "err", 1)
    BY <1>4, Zenon DEF TurnOff
  <2> QED BY <1>2, <1>3, <1>4, <2>1, Zenon
<1> QED BY <1>1, <1>4

\* The Drop of an implementation and the next one: nobody holds it.
LEMMA ReplaceResult ==
    ASSUME NEW m, ModeOK(m), NEW k \in Impl, NEW o \in Replace(m, k)
    PROVE  /\ Result(o)
           /\ o.mode.holder = NoConn
           /\ m.stuck => o.mode.stuck
<1> DEFINE before == IF m.holder = NoConn THEN {Outcome(m, "ok", 0)} ELSE TurnOff(m, m.holder)
<1>1. PICK p \in before : o = Outcome(New(k, p.mode.hook, p.mode.stuck), "ok", p.faults + 0)
  <2>1. PICK p \in before :
          \E next \in {Outcome(New(k, p.mode.hook, p.mode.stuck), "ok", 0)} :
            o = Outcome(next.mode, next.answer, p.faults + next.faults)
     BY DEF Replace, Then, before
  <2> QED BY <2>1, OutcomeFields
<1>2. /\ ModeOK(p.mode) /\ p.faults \in Nat /\ (m.stuck => p.mode.stuck)
      /\ p.mode.stuck \/ p.mode.holder = NoConn
  <2>1. CASE m.holder = NoConn
    BY <1>1, <2>1 DEF Outcome
  <2>2. CASE m.holder # NoConn
    <3>1. m.holder \in Conn \cup {NoConn} /\ MayTurnOff(m, m.holder) /\ m \in ModeType
      BY DEF ModeOK, ModeType, MayTurnOff
    <3> QED BY <1>1, <2>2, <3>1, TurnOffResult DEF Result
  <2> QED BY <2>1, <2>2
<1>3. /\ o.mode = New(k, p.mode.hook, p.mode.stuck) /\ o.answer = "ok"
      /\ o.faults \in Nat
  BY <1>1, <1>2 DEF Outcome
<1>4. p.mode.hook \in {"none", "set", "leaving"} /\ p.mode.stuck \in BOOLEAN
  BY <1>2 DEF ModeOK, ModeType
<1>5. /\ o.mode \in ModeType /\ o.mode.holder = NoConn /\ o.mode.covered = FALSE
      /\ o.mode.free = FALSE /\ o.mode.stuck = p.mode.stuck /\ o.mode.hook = p.mode.hook
  BY <1>3, <1>4 DEF New, ModeType
<1>6. p.mode.stuck \/ p.mode.hook # "set"
  BY <1>2 DEF ModeOK
<1> QED BY <1>2, <1>3, <1>5, <1>6 DEF Result, ModeOK

\* turn_on_privacy of an implementation that is free or held by c.
LEMMA TurnOnImplResult ==
    ASSUME NEW m, ModeOK(m), NEW c \in Conn, m.holder \in {c, NoConn},
           NEW o \in TurnOnImpl(m, c)
    PROVE  /\ Result(o)
           /\ o.mode.holder \in {c, NoConn}
           /\ m.stuck => o.mode.stuck
<1>0. m \in ModeType
  BY DEF ModeOK
<1>1. CASE o.mode = m /\ o.faults \in Nat /\ o.answer \in {"ok", "plugin", "err"}
  BY <1>0, <1>1 DEF Result
<1>2. CASE m.holder = c
  BY <1>1, <1>2 DEF TurnOnImpl, Outcome
<1>3. CASE m.holder # c /\ m.impl = "window"
  <2>1. \/ o = Outcome(m, "plugin", 0) \/ o = Outcome(m, "err", 1) \/ o = Outcome(m, "err", 0)
        \/ /\ m.hook = "none"
           /\ o = Outcome([m EXCEPT !.hook = "set", !.covered = TRUE, !.holder = c], "ok", 0)
    BY <1>3 DEF TurnOnImpl, TurnOnWindow
  <2>2. CASE /\ m.hook = "none"
             /\ o = Outcome([m EXCEPT !.hook = "set", !.covered = TRUE, !.holder = c], "ok", 0)
    <3> DEFINE on == [m EXCEPT !.hook = "set", !.covered = TRUE, !.holder = c]
    <3>1. /\ on \in ModeType /\ on.hook = "set" /\ on.covered /\ on.holder = c
          /\ on.free = m.free /\ on.stuck = m.stuck
      BY <1>0 DEF ModeType
    <3>2. o = Outcome(on, "ok", 0)
      BY <2>2
    <3> HIDE DEF on
    <3>3. m.holder = NoConn /\ c # NoConn
      BY <1>3, PrivacyAssumption
    <3>4. m.stuck \/ ~m.free
      BY <3>3 DEF ModeOK
    <3>5. ModeOK(on)
      BY <3>1, <3>3, <3>4 DEF ModeOK
    <3> QED BY <3>1, <3>2, <3>5 DEF Result, Outcome
  <2> QED BY <1>1, <2>1, <2>2 DEF Outcome
<1>4. CASE m.holder # c /\ m.impl # "window"
  <2> DEFINE covered == [m EXCEPT !.covered = TRUE]
             on == [covered EXCEPT !.holder = c]
             free == [on EXCEPT !.free = TRUE]
             hooked == [on EXCEPT !.hook = "set"]
  <2>1. \/ o = Outcome(m, "err", 1) \/ o = Outcome(free, "ok", 1) \/ o = Outcome(free, "ok", 0)
        \/ m.hook = "none" /\ o = Outcome(hooked, "ok", 0)
        \/ \E p \in TurnOff(covered, NoConn) : o = Outcome(p.mode, "err", p.faults + 1)
    BY <1>4, Zenon DEF TurnOnImpl, TurnOnDisplays
  <2>2. /\ free \in ModeType /\ free.holder = c /\ free.covered /\ free.free
        /\ free.hook = m.hook /\ free.stuck = m.stuck
    BY <1>0 DEF ModeType
  <2>3. /\ hooked \in ModeType /\ hooked.holder = c /\ hooked.covered
        /\ hooked.free = m.free /\ hooked.hook = "set" /\ hooked.stuck = m.stuck
    BY <1>0 DEF ModeType
  <2>4. covered \in ModeType /\ covered.holder = m.holder /\ covered.stuck = m.stuck
    BY <1>0 DEF ModeType
  <2>5. m.holder = NoConn /\ c # NoConn /\ (m.stuck \/ (~m.free /\ m.hook # "set"))
    <3>1. m.holder = NoConn /\ c # NoConn
      BY <1>4, PrivacyAssumption
    <3> QED BY <3>1 DEF ModeOK
  <2> HIDE DEF free, hooked, covered
  <2>6. CASE o = Outcome(free, "ok", 1) \/ o = Outcome(free, "ok", 0)
    <3>1. ModeOK(free)
      BY <2>2, <2>5 DEF ModeOK
    <3> QED BY <2>2, <2>6, <3>1 DEF Result, Outcome
  <2>7. CASE m.hook = "none" /\ o = Outcome(hooked, "ok", 0)
    <3>1. ModeOK(hooked)
      BY <2>3, <2>5 DEF ModeOK
    <3> QED BY <2>3, <2>7, <3>1 DEF Result, Outcome
  <2>8. ASSUME NEW p \in TurnOff(covered, NoConn), o = Outcome(p.mode, "err", p.faults + 1)
        PROVE  /\ Result(o)
               /\ o.mode.holder \in {c, NoConn}
               /\ m.stuck => o.mode.stuck
    <3>1. MayTurnOff(covered, NoConn)
      BY DEF MayTurnOff
    <3>2. /\ Result(p) /\ p.mode.holder \in {covered.holder, NoConn}
          /\ covered.stuck => p.mode.stuck
      BY <2>4, <3>1, TurnOffResult
    <3> QED BY <2>4, <2>5, <2>8, <3>2 DEF Result, Outcome
  <2> QED BY <1>1, <2>1, <2>6, <2>7, <2>8 DEF Outcome
<1> QED BY <1>2, <1>3, <1>4

\* turn_on_privacy_sync never takes the mode from another connection, also
\* when it turns off, drops and replaces the implementation first.
LEMMA TurnOnSyncResult ==
    ASSUME NEW m, ModeOK(m), NEW k \in Impl, NEW c \in Conn, NEW o \in TurnOnSync(m, k, c)
    PROVE  /\ Result(o)
           /\ o.mode.holder \in {m.holder, c, NoConn}
           /\ m.holder \in {c, NoConn, o.mode.holder}
           /\ m.stuck => o.mode.stuck
<1>0. m \in ModeType /\ m.holder \in Conn \cup {NoConn}
  BY DEF ModeOK, ModeType
<1>1. CASE m.holder \notin {c, NoConn}
  BY <1>0, <1>1 DEF TurnOnSync, Outcome, Result
<1>2. CASE m.holder \in {c, NoConn} /\ m.impl = k
  BY <1>2, TurnOnImplResult DEF TurnOnSync
<1>3. CASE m.holder \in {c, NoConn} /\ m.impl # k
  <2> DEFINE replaced == UNION {{Outcome(t.mode, t.answer, r.faults + t.faults) :
                                   t \in Replace(r.mode, k)} : r \in TurnOff(m, m.holder)}
  <2>a. o \in UNION {{Outcome(q.mode, q.answer, p.faults + q.faults) :
                        q \in TurnOnImpl(p.mode, c)} : p \in replaced}
    BY <1>3 DEF TurnOnSync, Then
  <2> HIDE DEF replaced
  <2>b. PICK p \in replaced : \E q \in TurnOnImpl(p.mode, c) :
               o = Outcome(q.mode, q.answer, p.faults + q.faults)
    BY <2>a
  <2>1. PICK q \in TurnOnImpl(p.mode, c) : o = Outcome(q.mode, q.answer, p.faults + q.faults)
    BY <2>b
  <2>c. PICK r \in TurnOff(m, m.holder) : \E t \in Replace(r.mode, k) :
               p = Outcome(t.mode, t.answer, r.faults + t.faults)
    BY DEF replaced
  <2>2. PICK t \in Replace(r.mode, k) : p = Outcome(t.mode, t.answer, r.faults + t.faults)
    BY <2>c
  <2>3. Result(r) /\ (m.stuck => r.mode.stuck)
    BY <1>0, <2>2, TurnOffResult
  <2>4. Result(t) /\ t.mode.holder = NoConn /\ (m.stuck => t.mode.stuck)
    BY <2>2, <2>3, ReplaceResult DEF Result
  <2>5. /\ ModeOK(p.mode) /\ p.mode.holder = NoConn /\ p.faults \in Nat
        /\ m.stuck => p.mode.stuck
    BY <2>2, <2>3, <2>4 DEF Outcome, Result
  <2>6. Result(q) /\ q.mode.holder \in {c, NoConn} /\ (m.stuck => q.mode.stuck)
    BY <2>1, <2>5, TurnOnImplResult
  <2> QED BY <1>3, <2>1, <2>5, <2>6 DEF Outcome, Result
<1> QED BY <1>1, <1>2, <1>3

-----------------------------------------------------------------------------

\* The inductive invariant holds at first, and every step keeps it.
LEMMA PrivacyInvInit == PrivacyInit => PrivacyInv
<1> SUFFICES ASSUME PrivacyInit PROVE PrivacyInv
  OBVIOUS
<1>1. PICK k \in Impl : mode = New(k, "none", FALSE)
  BY DEF PrivacyInit
<1>2. /\ mode \in ModeType /\ mode.holder = NoConn /\ ~mode.covered /\ ~mode.free
      /\ mode.hook = "none"
  BY <1>1 DEF New, ModeType
<1>3. ModeOK(mode)
  BY <1>2 DEF ModeOK
<1>4. PrivacyTypeOK
  <2>1. /\ conn = [c \in Conn |-> "new"]
        /\ want = [c \in Conn |-> "none"] /\ result = [c \in Conn |-> "none"]
        /\ late = {} /\ faults = 0 /\ outlived = {} /\ newcomers = {}
    BY DEF PrivacyInit
  <2> QED BY <1>2, <2>1, PrivacyAssumption DEF PrivacyTypeOK, ModeType
<1> QED BY <1>2, <1>3, <1>4 DEF PrivacyInv, NoGhostHolds

\* A critical section that has the outcome o.
LEMMA ApplyResult ==
    ASSUME PrivacyInv, NEW o, Result(o), Apply(o)
    PROVE  mode' = o.mode /\ mode' \in ModeType /\ ModeOK(mode') /\ faults' \in 0 .. MaxFaults
BY PrivacyAssumption DEF Apply, Result, PrivacyInv, PrivacyTypeOK, ModeOK

\* Turning off for id, or for whoever holds the mode.
LEMMA OffResult ==
    ASSUME PrivacyInv, NEW id \in Conn \cup {NoConn}, Off(id)
    PROVE  /\ ModeOK(mode') /\ faults' \in 0 .. MaxFaults
           /\ mode'.holder \in {mode.holder, NoConn}
           /\ mode.stuck => mode'.stuck
           /\ MayTurnOff(mode, id) => mode'.holder = NoConn \/ mode'.stuck
           /\ ~MayTurnOff(mode, id) => mode' = mode
<1>1. ModeOK(mode) /\ mode \in ModeType
  BY DEF PrivacyInv, ModeOK
<1>2. PICK o \in TurnOff(mode, id) : Apply(o)
  BY DEF Off
<1> QED BY <1>1, <1>2, TurnOffResult, ApplyResult

\* Turning on for c.
LEMMA OnResult ==
    ASSUME PrivacyInv, NEW c \in Conn, NEW k \in Impl,
           NEW o \in TurnOnSync(mode, k, c), Apply(o)
    PROVE  /\ Result(o) /\ ModeOK(mode') /\ faults' \in 0 .. MaxFaults
           /\ mode'.holder \in {mode.holder, c, NoConn}
           /\ mode.holder \in {c, NoConn, mode'.holder}
           /\ mode.stuck => mode'.stuck
<1>1. ModeOK(mode)
  BY DEF PrivacyInv
<1> QED BY <1>1, TurnOnSyncResult, ApplyResult

LEMMA PrivacyInvNext == PrivacyInv /\ [PrivacyNext]_privacyVars => PrivacyInv'
<1> SUFFICES ASSUME PrivacyInv, [PrivacyNext]_privacyVars PROVE PrivacyInv'
  OBVIOUS
<1> USE DEF PrivacyInv, history, Over
<1>0. /\ PrivacyTypeOK /\ ModeOK(mode) /\ NoGhostHolds /\ mode \in ModeType
  BY DEF ModeOK
<1>1. ASSUME NEW c \in Conn, Login(c) PROVE PrivacyInv'
  BY <1>0, <1>1 DEF Login, Goto, PrivacyTypeOK, NoGhostHolds, ModeOK
<1>2. ASSUME NEW c \in Conn, NEW k \in Impl, Ask(c, k) PROVE PrivacyInv'
  BY <1>0, <1>2 DEF Ask, Goto, PrivacyTypeOK, NoGhostHolds, ModeOK
<1>3. ASSUME NEW c \in Conn, TurnOnPrivacy(c) PROVE PrivacyInv'
  <2>1. want[c] \in Impl
    BY <1>0, <1>3 DEF TurnOnPrivacy, Goto, PrivacyTypeOK
  <2>2. PICK o \in TurnOnSync(mode, want[c], c) :
          Apply(o) /\ Goto(c, "sync", Answered(o.answer))
    BY <1>3 DEF TurnOnPrivacy
  <2>3. /\ Result(o) /\ ModeOK(mode') /\ faults' \in 0 .. MaxFaults
        /\ mode'.holder \in {mode.holder, c, NoConn}
        /\ mode.stuck => mode'.stuck
    BY <2>1, <2>2, OnResult
  <2>4. Answered(o.answer) \in {"check", "in", "failed"}
    BY <2>3 DEF Result, Answered
  <2>5. PrivacyTypeOK'
    BY <1>0, <1>3, <2>2, <2>3, <2>4 DEF TurnOnPrivacy, Goto, PrivacyTypeOK, ModeOK, ModeType
  <2>6. NoGhostHolds'
    BY <1>0, <1>3, <2>2, <2>3, <2>4 DEF TurnOnPrivacy, Goto, NoGhostHolds, PrivacyTypeOK
  <2> QED BY <2>3, <2>5, <2>6
<1>4. ASSUME NEW c \in Conn, Thread(c) PROVE PrivacyInv'
  <2>1. want[c] \in Impl
    BY <1>0, <1>4 DEF Thread, PrivacyTypeOK
  <2>2. PICK o \in TurnOnSync(mode, want[c], c) :
          Apply(o) /\ result' = [result EXCEPT ![c] = o.answer]
    BY <1>4 DEF Thread
  <2>3. /\ Result(o) /\ ModeOK(mode') /\ faults' \in 0 .. MaxFaults
        /\ mode'.holder \in {mode.holder, c, NoConn}
        /\ mode.stuck => mode'.stuck
    BY <2>1, <2>2, OnResult
  <2>4. o.answer \in {"ok", "plugin", "err"}
    BY <2>3 DEF Result
  <2>5. PrivacyTypeOK'
    BY <1>0, <1>4, <2>2, <2>3, <2>4 DEF Thread, PrivacyTypeOK, ModeOK, ModeType
  <2>6. NoGhostHolds'
    BY <1>0, <1>4, <2>3 DEF Thread, NoGhostHolds, PrivacyTypeOK
  <2> QED BY <2>3, <2>5, <2>6
<1>5. ASSUME NEW c \in Conn, NEW k \in Impl, LateThread(c, k) PROVE PrivacyInv'
  <2>1. PICK o \in TurnOnSync(mode, k, c) : Apply(o)
    BY <1>5 DEF LateThread
  <2>2. /\ Result(o) /\ ModeOK(mode') /\ faults' \in 0 .. MaxFaults
        /\ mode'.holder \in {mode.holder, c, NoConn}
        /\ mode.stuck => mode'.stuck
    BY <2>1, OnResult
  \* Nobody waits for the thread any more: c has outlived it.
  <2>3. c \in outlived
    BY <1>0, <1>5 DEF LateThread, PrivacyTypeOK
  <2>4. PrivacyTypeOK'
    BY <1>0, <1>5, <2>2 DEF LateThread, PrivacyTypeOK, ModeOK, ModeType
  <2>5. NoGhostHolds'
    BY <1>0, <1>5, <2>2, <2>3 DEF LateThread, NoGhostHolds, PrivacyTypeOK
  <2> QED BY <2>2, <2>4, <2>5
<1>6. ASSUME NEW c \in Conn, Receive(c) PROVE PrivacyInv'
  <2>1. Answered(result[c]) \in {"check", "in", "failed"}
    BY <1>0, <1>6 DEF Receive, PrivacyTypeOK, Answered
  <2> QED BY <1>0, <1>6, <2>1 DEF Receive, Goto, PrivacyTypeOK, NoGhostHolds, ModeOK
<1>7. ASSUME NEW c \in Conn, Timeout(c) PROVE PrivacyInv'
  BY <1>0, <1>7 DEF Timeout, Goto, PrivacyTypeOK, NoGhostHolds, ModeOK
<1>8. ASSUME NEW c \in Conn, CheckErr(c) PROVE PrivacyInv'
  BY <1>0, <1>8, PrivacyAssumption DEF CheckErr, Goto, PrivacyTypeOK, NoGhostHolds, ModeOK
<1>9. ASSUME NEW c \in Conn, FailedCheck(c) PROVE PrivacyInv'
  BY <1>0, <1>9 DEF FailedCheck, Goto, PrivacyTypeOK, NoGhostHolds, ModeOK
<1>10. ASSUME NEW c \in Conn, TurnOffAny(c) PROVE PrivacyInv'
  <2>1. /\ ModeOK(mode') /\ faults' \in 0 .. MaxFaults
        /\ mode'.holder \in {mode.holder, NoConn}
        /\ mode.stuck => mode'.stuck
    BY <1>10, OffResult DEF TurnOffAny
  <2>2. PrivacyTypeOK'
    BY <1>0, <1>10, <2>1 DEF TurnOffAny, Goto, PrivacyTypeOK, ModeOK, ModeType
  <2>3. NoGhostHolds'
    BY <1>0, <1>10, <2>1 DEF TurnOffAny, Goto, NoGhostHolds, PrivacyTypeOK
  <2> QED BY <2>1, <2>2, <2>3
<1>11. ASSUME NEW c \in Conn, TurnOffPrivacy(c) PROVE PrivacyInv'
  <2>1. /\ ModeOK(mode') /\ faults' \in 0 .. MaxFaults
        /\ mode'.holder \in {mode.holder, NoConn}
        /\ mode.stuck => mode'.stuck
        /\ MayTurnOff(mode, c) => mode'.holder = NoConn \/ mode'.stuck
        /\ ~MayTurnOff(mode, c) => mode' = mode
    BY <1>11, OffResult DEF TurnOffPrivacy
  <2>2. PrivacyTypeOK'
    BY <1>0, <1>11, <2>1 DEF TurnOffPrivacy, Goto, PrivacyTypeOK, ModeOK, ModeType
  \* What the connection held at its end is off, or stuck.
  <2>3. mode'.holder # c \/ mode'.stuck
    BY <2>1, PrivacyAssumption DEF MayTurnOff
  <2>4. NoGhostHolds'
    BY <1>0, <1>11, <2>1, <2>3 DEF TurnOffPrivacy, Goto, NoGhostHolds, PrivacyTypeOK
  <2> QED BY <2>1, <2>2, <2>4
<1>12. ASSUME NEW c \in Conn, Close(c) PROVE PrivacyInv'
  BY <1>0, <1>12 DEF Close, Goto, PrivacyTypeOK, NoGhostHolds, ModeOK
<1>13. ASSUME NEW c \in Conn, ResetAll(c) PROVE PrivacyInv'
  <2>1. /\ ModeOK(mode') /\ faults' \in 0 .. MaxFaults
        /\ mode'.holder \in {mode.holder, NoConn}
        /\ mode.stuck => mode'.stuck
    BY <1>13, OffResult DEF ResetAll
  <2> QED BY <1>0, <1>13, <2>1 DEF ResetAll, Goto, PrivacyTypeOK, NoGhostHolds, ModeOK, ModeType
<1>17. ASSUME NEW c \in Conn, Leave(c) \/ Count(c) PROVE PrivacyInv'
  BY <1>0, <1>17 DEF Leave, Count, Goto, PrivacyTypeOK, NoGhostHolds, ModeOK
<1>18. CASE CtrlP
  <2>1. /\ ModeOK(mode') /\ faults' \in 0 .. MaxFaults
        /\ mode'.holder \in {mode.holder, NoConn}
        /\ mode.stuck => mode'.stuck
    BY <1>18, OffResult DEF CtrlP
  <2> QED BY <1>0, <1>18, <2>1 DEF CtrlP, PrivacyTypeOK, NoGhostHolds, ModeOK, ModeType
<1>14. ASSUME NEW k \in Impl, SwitchImpl(k) PROVE PrivacyInv'
  <2>1. PICK o \in Replace(mode, k) : Apply(o)
    BY <1>14 DEF SwitchImpl
  <2>2. Result(o) /\ o.mode.holder = NoConn
    BY <1>0, ReplaceResult
  <2>3. mode'.holder = NoConn /\ ModeOK(mode') /\ faults' \in 0 .. MaxFaults
    BY <2>1, <2>2, ApplyResult
  <2> QED BY <1>0, <1>14, <2>3 DEF SwitchImpl, PrivacyTypeOK, NoGhostHolds, ModeOK, ModeType
<1>15. CASE HookExit
  <2>1. /\ mode' \in ModeType /\ mode'.holder = mode.holder /\ mode'.covered = mode.covered
        /\ mode'.free = mode.free /\ mode'.stuck = mode.stuck /\ mode'.hook = "none"
        /\ mode.hook = "leaving"
    BY <1>0, <1>15 DEF HookExit, ModeType
  <2>2. ModeOK(mode')
    BY <1>0, <2>1 DEF ModeOK
  <2> QED BY <1>0, <1>15, <2>1, <2>2 DEF HookExit, PrivacyTypeOK, NoGhostHolds, ModeType
<1>16. CASE UNCHANGED privacyVars
  BY <1>0, <1>16 DEF privacyVars, PrivacyTypeOK, NoGhostHolds, ModeOK
<1> QED
  BY <1>1, <1>2, <1>3, <1>4, <1>5, <1>6, <1>7, <1>8, <1>9, <1>10, <1>11, <1>12, <1>13,
     <1>14, <1>15, <1>16, <1>17, <1>18
  DEF PrivacyNext, Own

LEMMA PrivacyInvHolds == PrivacySpec => []PrivacyInv
BY PrivacyInvInit, PrivacyInvNext, PTL DEF PrivacySpec

\* The privacy mode, the connections and the threads of
\* turn_on_privacy_async keep their types.
THEOREM PrivacyTypeCorrect == PrivacySpec => []PrivacyTypeOK
BY PrivacyInvHolds, PTL DEF PrivacyInv

\* A connection that has gone holds the privacy mode only if its thread of
\* turn_on_privacy_async outlived the 7.5 seconds, or the system refused a
\* turning off.
THEOREM NoGhostHoldsHolds == PrivacySpec => []NoGhostHolds
BY PrivacyInvHolds, PTL DEF PrivacyInv

\* The screen is covered, and the input hooked unless it was left free,
\* exactly while some connection holds the mode.
THEOREM CoveredIsHeldHolds == PrivacySpec => []CoveredIsHeld
<1>1. PrivacyInv => CoveredIsHeld
  BY DEF PrivacyInv, ModeOK, ModeType, CoveredIsHeld
<1> QED BY <1>1, PrivacyInvHolds, PTL

\* The strengthening for the reset of the virtual displays: while one that
\* counted nobody is about to reset, whoever has an entry logged in after
\* the count; nobody holds the mode, or has a thread under way, before the
\* login.
ResetInv ==
    /\ \A d, h \in Conn : conn[d] = "reset" /\ conn[h] \in Counted => h \in newcomers
    /\ mode.holder # NoConn => conn[mode.holder] \notin {"new", "refused"}
    /\ \A c \in outlived : conn[c] \notin {"new", "refused"}

\* A step of a connection that is in: it stays in, or is on its way out, and
\* the mode is held as before, by nobody or by that connection.
LEMMA ResetInvMove ==
    ASSUME PrivacyInv, ResetInv, NEW c \in Conn, NEW to,
           conn[c] \notin {"new", "refused"}, conn' = [conn EXCEPT ![c] = to],
           to \notin {"new", "refused"}, to \in Counted => conn[c] \in Counted,
           to = "reset" => \A d \in Conn : conn[d] \notin Counted,
           mode'.holder \in {mode.holder, c, NoConn},
           outlived' \in {outlived, outlived \cup {c}}, UNCHANGED newcomers
    PROVE  ResetInv'
<1>0. /\ conn \in [Conn -> {"new", "refused"} \cup Counted \cup Over]
      /\ mode.holder \in Conn \cup {NoConn} /\ outlived \subseteq Conn
  BY DEF PrivacyInv, PrivacyTypeOK, Counted, Over
<1>1. \A d \in Conn : conn'[d] = IF d = c THEN to ELSE conn[d]
  BY <1>0
<1>2. \A d, h \in Conn : conn'[d] = "reset" /\ conn'[h] \in Counted => h \in newcomers'
  <2> SUFFICES ASSUME NEW d \in Conn, NEW h \in Conn, conn'[d] = "reset", conn'[h] \in Counted
               PROVE  h \in newcomers
    OBVIOUS
  <2>1. conn[h] \in Counted
    BY <1>1
  <2>2. d # c \/ to # "reset"
    BY <2>1
  <2> QED BY <1>1, <2>1, <2>2 DEF ResetInv
<1>3. ASSUME mode'.holder # NoConn PROVE conn'[mode'.holder] \notin {"new", "refused"}
  <2>1. CASE mode'.holder = c
    BY <1>1, <2>1
  <2>2. CASE mode'.holder # c
    <3>1. mode'.holder = mode.holder /\ mode.holder \in Conn
      BY <1>0, <1>3, <2>2
    <3> QED BY <1>1, <1>3, <2>2, <3>1 DEF ResetInv
  <2> QED BY <2>1, <2>2
<1>4. \A d \in outlived' : conn'[d] \notin {"new", "refused"}
  BY <1>0, <1>1 DEF ResetInv
<1> QED BY <1>2, <1>3, <1>4 DEF ResetInv

\* A step of nobody's: the connections stay where they are.
LEMMA ResetInvStay ==
    ASSUME ResetInv, UNCHANGED <<conn, history>>,
           \/ mode'.holder \in {mode.holder, NoConn}
           \/ mode'.holder \in Conn /\ conn[mode'.holder] \notin {"new", "refused"}
    PROVE  ResetInv'
BY DEF ResetInv, history

LEMMA ResetInvNext == PrivacyInv /\ ResetInv /\ [PrivacyNext]_privacyVars => ResetInv'
<1> SUFFICES ASSUME PrivacyInv, ResetInv, [PrivacyNext]_privacyVars PROVE ResetInv'
  OBVIOUS
<1>0. PrivacyTypeOK /\ ModeOK(mode)
  BY DEF PrivacyInv
<1> USE DEF Goto, history
<1>1. ASSUME NEW c \in Conn, Login(c) PROVE ResetInv'
  <2>1. /\ conn \in [Conn -> {"new", "refused"} \cup Counted \cup Over]
        /\ mode.holder \in Conn \cup {NoConn}
    BY <1>0 DEF PrivacyTypeOK, Counted, Over
  <2>2. /\ conn[c] = "new" /\ \A d \in Conn \ {c} : conn'[d] = conn[d]
        /\ conn'[c] \in {"in", "refused"} /\ UNCHANGED <<mode, outlived>>
    BY <1>1, <2>1 DEF Login
  <2>3. /\ newcomers \subseteq newcomers'
        /\ (\E d \in Conn : conn[d] = "reset") => c \in newcomers'
    BY <1>1 DEF Login
  <2> QED BY <2>1, <2>2, <2>3, <1>0 DEF ResetInv, PrivacyTypeOK
<1>2. ASSUME NEW c \in Conn, NEW k \in Impl, Ask(c, k) PROVE ResetInv'
  <2>1. PICK to \in {"turning", "sync"} : conn' = [conn EXCEPT ![c] = to]
    BY <1>2 DEF Ask
  <2>2. conn[c] = "in" /\ UNCHANGED <<mode, history>>
    BY <1>2 DEF Ask
  <2> QED BY <2>1, <2>2, ResetInvMove DEF Counted
<1>3. ASSUME NEW c \in Conn, TurnOnPrivacy(c) PROVE ResetInv'
  <2>1. want[c] \in Impl
    BY <1>0, <1>3 DEF TurnOnPrivacy, PrivacyTypeOK
  <2>2. PICK o \in TurnOnSync(mode, want[c], c) :
          Apply(o) /\ Goto(c, "sync", Answered(o.answer))
    BY <1>3 DEF TurnOnPrivacy
  <2>3. Result(o) /\ mode'.holder \in {mode.holder, c, NoConn}
    BY <2>1, <2>2, OnResult
  <2>4. Answered(o.answer) \in {"check", "in", "failed"}
    BY <2>3 DEF Result, Answered
  <2> QED BY <1>3, <2>2, <2>3, <2>4, ResetInvMove DEF TurnOnPrivacy, Counted
<1>4. ASSUME NEW c \in Conn, Thread(c) PROVE ResetInv'
  <2>1. want[c] \in Impl
    BY <1>0, <1>4 DEF Thread, PrivacyTypeOK
  <2>2. mode'.holder \in {mode.holder, c, NoConn}
    BY <1>4, <2>1, OnResult DEF Thread
  <2> QED BY <1>4, <2>2, ResetInvStay DEF Thread
<1>5. ASSUME NEW c \in Conn, NEW k \in Impl, LateThread(c, k) PROVE ResetInv'
  <2>1. mode'.holder \in {mode.holder, c, NoConn}
    BY <1>5, OnResult DEF LateThread
  <2>2. c \in outlived
    BY <1>0, <1>5 DEF LateThread, PrivacyTypeOK
  <2>3. conn[c] \notin {"new", "refused"}
    BY <2>2 DEF ResetInv
  <2> QED BY <1>5, <2>1, <2>3, ResetInvStay DEF LateThread
<1>6. ASSUME NEW c \in Conn, Receive(c) PROVE ResetInv'
  <2>1. Answered(result[c]) \in {"check", "in", "failed"}
    BY <1>0, <1>6 DEF Receive, PrivacyTypeOK, Answered
  <2> QED BY <1>6, <2>1, ResetInvMove DEF Receive, Counted
<1>7. ASSUME NEW c \in Conn, Timeout(c) PROVE ResetInv'
  BY <1>7, ResetInvMove DEF Timeout, Counted
<1>8. ASSUME NEW c \in Conn, CheckErr(c) \/ FailedCheck(c) \/ Close(c) PROVE ResetInv'
  <2>1. PICK to \in {"in", "turnOff", "turnOffAny", "closing", "gone"} :
            conn' = [conn EXCEPT ![c] = to]
    BY <1>8 DEF CheckErr, FailedCheck, Close
  <2>2. conn[c] \in {"in", "check", "failed"} /\ UNCHANGED <<mode, history>>
    BY <1>8 DEF CheckErr, FailedCheck, Close
  <2> QED BY <2>1, <2>2, ResetInvMove DEF Counted
<1>9. ASSUME NEW c \in Conn, TurnOffAny(c) \/ TurnOffPrivacy(c) \/ ResetAll(c) PROVE ResetInv'
  <2>1. mode'.holder \in {mode.holder, NoConn}
    BY <1>9, OffResult DEF TurnOffAny, TurnOffPrivacy, ResetAll
  <2>2. PICK to \in {"in", "gone", "dropped"} : conn' = [conn EXCEPT ![c] = to]
    BY <1>9 DEF TurnOffAny, TurnOffPrivacy, ResetAll
  <2>3. /\ conn[c] \in {"in", "turnOff", "turnOffAny", "closing", "reset"}
        /\ conn[c] = "reset" => conn' = [conn EXCEPT ![c] = "dropped"]
        /\ UNCHANGED history
    BY <1>9 DEF TurnOffAny, TurnOffPrivacy, ResetAll
  <2>4. CASE conn[c] = "reset"
    BY <2>1, <2>3, <2>4, ResetInvMove DEF Counted
  <2>5. CASE conn[c] # "reset"
    BY <2>1, <2>2, <2>3, <2>5, ResetInvMove DEF Counted
  <2> QED BY <2>4, <2>5
<1>10. ASSUME NEW c \in Conn, Leave(c) PROVE ResetInv'
  BY <1>10, ResetInvMove DEF Leave, Counted
<1>11. ASSUME NEW c \in Conn, Count(c) PROVE ResetInv'
  <2>1. PICK to \in {"reset", "dropped"} :
            /\ conn' = [conn EXCEPT ![c] = to]
            /\ to = "reset" => \A d \in Conn : conn[d] \notin Counted
    BY <1>11 DEF Count
  <2>2. conn[c] = "left" /\ UNCHANGED <<mode, history>>
    BY <1>11 DEF Count
  <2>3. "reset" \notin Counted /\ "dropped" \notin Counted
    BY DEF Counted
  <2> QED BY <2>1, <2>2, <2>3, ResetInvMove
<1>12. CASE CtrlP
  BY <1>12, OffResult, ResetInvStay DEF CtrlP
<1>13. ASSUME NEW k \in Impl, SwitchImpl(k) PROVE ResetInv'
  <2>1. PICK o \in Replace(mode, k) : Apply(o)
    BY <1>13 DEF SwitchImpl
  <2>2. mode'.holder = NoConn
    BY <1>0, <2>1, ReplaceResult, ApplyResult
  <2> QED BY <1>13, <2>2, ResetInvStay DEF SwitchImpl
<1>14. CASE HookExit
  <2>1. mode'.holder = mode.holder
    BY <1>0, <1>14 DEF HookExit, ModeOK, ModeType
  <2> QED BY <1>14, <2>1, ResetInvStay DEF HookExit
<1>15. CASE UNCHANGED privacyVars
  BY <1>15, ResetInvStay DEF privacyVars
<1> QED
  BY <1>1, <1>2, <1>3, <1>4, <1>5, <1>6, <1>7, <1>8, <1>9, <1>10, <1>11, <1>12, <1>13,
     <1>14, <1>15
  DEF PrivacyNext, Own

LEMMA ResetInvHolds == PrivacySpec => []ResetInv
<1>1. PrivacyInit => ResetInv
  BY DEF PrivacyInit, New, ResetInv, Counted
<1> QED BY <1>1, ResetInvNext, PrivacyInvHolds, PTL DEF PrivacySpec

\* What a connection does on its own behalf, late threads included, never
\* ends or takes over the privacy mode of another one; and the reset by the
\* last one to go ends only the mode of one that logged in after it counted,
\* or of one that is over itself.
THEOREM OnlyOwnModeHolds == PrivacySpec => OnlyOwnMode
<1>1. ASSUME PrivacyInv, NEW c \in Conn, Own(c)
      PROVE  mode.holder \in {c, NoConn, mode'.holder}
  <2>0. PrivacyTypeOK /\ ModeOK(mode)
    BY <1>1 DEF PrivacyInv
  <2>1. CASE TurnOnPrivacy(c)
    <3>1. want[c] \in Impl
      BY <2>0, <2>1 DEF TurnOnPrivacy, Goto, PrivacyTypeOK
    <3> QED BY <1>1, <2>1, <3>1, OnResult DEF TurnOnPrivacy
  <2>2. CASE Thread(c)
    <3>1. want[c] \in Impl
      BY <2>0, <2>2 DEF Thread, PrivacyTypeOK
    <3> QED BY <1>1, <2>2, <3>1, OnResult DEF Thread
  <2>3. CASE \E k \in Impl : LateThread(c, k)
    BY <1>1, <2>3, OnResult DEF LateThread
  <2>4. CASE TurnOffPrivacy(c)
    <3>1. /\ mode'.holder \in {mode.holder, NoConn}
          /\ ~MayTurnOff(mode, c) => mode' = mode
      BY <1>1, <2>4, OffResult DEF TurnOffPrivacy
    <3>2. c # NoConn
      BY PrivacyAssumption
    <3> QED BY <3>1, <3>2 DEF MayTurnOff
  <2>5. CASE UNCHANGED mode
    BY <2>5
  <2> QED
    BY <1>1, <2>1, <2>2, <2>3, <2>4, <2>5
    DEF Own, Login, Receive, Timeout, CheckErr, FailedCheck, Close, Leave, Count, Ask
<1>2. ASSUME PrivacyInv, ResetInv, NEW c \in Conn, ResetAll(c)
      PROVE  \/ mode.holder \in {c, NoConn, mode'.holder}
             \/ mode.holder \in newcomers \cup outlived
             \/ mode.stuck
  <2>1. /\ conn \in [Conn -> {"new", "refused"} \cup Counted \cup Over]
        /\ mode.holder \in Conn \cup {NoConn} /\ conn[c] = "reset"
    BY <1>2 DEF PrivacyInv, PrivacyTypeOK, Counted, Over, ResetAll, Goto
  <2>2. CASE mode.holder \in Conn /\ conn[mode.holder] \in Counted
    BY <1>2, <2>1, <2>2 DEF ResetInv
  <2>3. CASE mode.holder \in Conn /\ mode.holder # NoConn /\ conn[mode.holder] \in Over
    BY <1>2, <2>3 DEF PrivacyInv, NoGhostHolds
  <2> QED BY <1>2, <2>1, <2>2, <2>3, PrivacyAssumption DEF ResetInv
<1>3. PrivacyInv /\ ResetInv
        => [\A c \in Conn :
              /\ Own(c) => mode.holder \in {c, NoConn, mode'.holder}
              /\ ResetAll(c) => \/ mode.holder \in {c, NoConn, mode'.holder}
                                \/ mode.holder \in newcomers \cup outlived
                                \/ mode.stuck]_privacyVars
  BY <1>1, <1>2
<1> QED BY <1>3, PrivacyInvHolds, ResetInvHolds, PTL DEF OnlyOwnMode
=============================================================================
