------------------------------- MODULE Overlay -------------------------------
(***************************************************************************)
(* The recording sessions of gsr-ui (src/Overlay.cpp).                     *)
(*                                                                         *)
(* The overlay is a single-threaded main loop that drives one              *)
(* gpu-screen-recorder child for a replay, recording or streaming session  *)
(* and a second, short lived one for screenshots.  A frame of the loop is  *)
(* a fixed sequence of phases, held in pc:                                 *)
(*   poll      rpc commands, then hotkeys and joystick buttons             *)
(*   selection the region selector's outcome (handle_events)               *)
(*   window    mouse and key events of the overlay window                  *)
(*   reload, output, reap, shot, hide, region_capture, window_capture,     *)
(*   present   the steps of draw()                                         *)
(* The two children run concurrently with every phase.                     *)
(***************************************************************************)
EXTENDS Integers, Sequences

CONSTANTS
    Commands,  \* the rpc commands and hotkeys that are used
    Areas,     \* values of record_area_option the settings may hold
    OnX11,     \* the display server is X11 (else Wayland)
    MaxOut,    \* bound: unread lines in the child's output pipe
    MaxToggles \* bound: SIGRTMIN signals the user makes the child queue

ASSUME OverlayAssumption ==
    /\ OnX11 \in BOOLEAN
    /\ MaxOut \in Nat \ {0}
    /\ MaxToggles \in Nat \ {0}

VARIABLES
    pc,
    status,             \* recording_status
    process,            \* gpu_screen_recorder_process > 0
    paused,
    replay_recording,   \* a recording was started inside a replay or stream
    save_notification,  \* replay_save_show_notification
    child,              \* the gpu-screen-recorder child behind process
    unreaped,           \* gpu-screen-recorder children not waited for
    out,                \* the lines in the child's output pipe
    shot,               \* gpu_screen_recorder_screenshot_process > 0
    shot_child,         \* the screenshot child
    visible, pages, hide_ui, reload_ui, reopen_settings, do_exit,
    start_region,       \* start_region_capture
    start_window,       \* start_window_capture
    on_region_selected, \* the request waiting for the selection, or NoRequest
    selector,           \* the region selector
    escape,             \* Escape is bound to cancel_region_selection
    area                \* record_area_option of each kind of capture

sessionVars == <<status, process, paused, replay_recording, save_notification,
                 child, unreaped, out>>
shotVars    == <<shot, shot_child>>
uiVars      == <<visible, pages, hide_ui, reload_ui, reopen_settings, do_exit>>
requestVars == <<start_region, start_window, on_region_selected>>
selectVars  == <<start_region, start_window, on_region_selected, selector, escape>>
vars        == <<pc, status, process, paused, replay_recording, save_notification,
                 child, unreaped, out, shot, shot_child,
                 visible, pages, hide_ui, reload_ui, reopen_settings, do_exit,
                 start_region, start_window, on_region_selected, selector,
                 escape, area>>

-----------------------------------------------------------------------------
Phases   == {"poll", "selection", "window", "reload", "output", "reap", "shot",
             "hide", "region_capture", "window_capture", "present", "exit", "done"}
Sessions == {"REPLAY", "RECORD", "STREAM"}
Kinds    == Sessions \cup {"SCREENSHOT"}
Forces   == {"NONE", "REGION", "WINDOW"}     \* RecordForceType, ScreenshotForceType
Requests == [kind : Kinds, force : Forces]
NoRequest == [kind |-> "NONE", force |-> "NONE"]
Request(k, f) == [kind |-> k, force |-> f]

SelectionTypes == {"NONE", "REGION", "WINDOW"}
Selector == [started : BOOLEAN, type : SelectionTypes,
             selected : BOOLEAN, canceled : BOOLEAN]
IdleSelector == [started |-> FALSE, type |-> "NONE",
                 selected |-> FALSE, canceled |-> FALSE]

\* gpu-screen-recorder: toggles counts the queued SIGRTMIN, save is a pending
\* SIGUSR1, recording says that a recording runs inside a replay or stream.
NoChild  == [state |-> "none", recording |-> FALSE, toggles |-> 0, save |-> FALSE]
NewChild == [state |-> "running", recording |-> FALSE, toggles |-> 0, save |-> FALSE]
Child    == [state : {"none", "running", "exited"}, recording : BOOLEAN,
             toggles : Nat, save : BOOLEAN]
Lines    == {"video", "replay", "error recording", "error replay"}

Init ==
    /\ pc = "poll"
    /\ status = "NONE" /\ process = FALSE /\ paused = FALSE
    /\ replay_recording = FALSE /\ save_notification = FALSE
    /\ child = NoChild /\ unreaped = 0 /\ out = <<>>
    /\ shot = FALSE /\ shot_child = "none"
    /\ visible = FALSE /\ pages = 0 /\ hide_ui = FALSE /\ reload_ui = FALSE
    /\ reopen_settings = FALSE /\ do_exit = FALSE
    /\ start_region = FALSE /\ start_window = FALSE
    /\ on_region_selected = NoRequest
    /\ selector = IdleSelector /\ escape = FALSE
    /\ area \in [Kinds -> Areas]

-----------------------------------------------------------------------------
(* The gpu-screen-recorder child, as the overlay uses it. *)

\* kill(SIGINT), waitpid, and the output pipe closed without reading the rest.
StopChild ==
    /\ process' = FALSE
    /\ child' = NoChild
    /\ out' = <<>>
    /\ unreaped' = unreaped - 1

\* exec_program: a pid, or -1 when no child could be created.
LaunchSession(s) ==
    /\ status' = s
    /\ process' = TRUE
    /\ child' = NewChild
    /\ out' = <<>>
    /\ unreaped' = unreaped + 1

NoSessionChange == UNCHANGED <<status, process, child, out, unreaped>>

ChildToggles ==
    /\ child.state = "running" /\ child.toggles > 0 /\ Len(out) < MaxOut
    /\ \/ /\ ~child.recording
          /\ child' = [child EXCEPT !.toggles = @ - 1, !.recording = TRUE]
          /\ UNCHANGED out
       \/ /\ child' = [child EXCEPT !.toggles = @ - 1, !.recording = FALSE]
          /\ \/ child.recording /\ out' = Append(out, "video")
             \/ out' = Append(out, "error recording")
    /\ UNCHANGED <<pc, status, process, paused, replay_recording,
                   save_notification, unreaped, shotVars, uiVars, selectVars, area>>

ChildSaves ==
    /\ child.state = "running" /\ child.save /\ Len(out) < MaxOut
    /\ child' = [child EXCEPT !.save = FALSE]
    /\ \E line \in {"replay", "error replay"} : out' = Append(out, line)
    /\ UNCHANGED <<pc, status, process, paused, replay_recording,
                   save_notification, unreaped, shotVars, uiVars, selectVars, area>>

\* The child ends by itself: the capture failed, the captured window was closed,
\* the portal was canceled.  A recording inside the session is saved first.
ChildExits ==
    /\ child.state = "running"
    /\ child' = [NoChild EXCEPT !.state = "exited"]
    /\ \/ UNCHANGED out
       \/ child.recording /\ Len(out) < MaxOut /\ out' = Append(out, "video")
    /\ UNCHANGED <<pc, status, process, paused, replay_recording,
                   save_notification, unreaped, shotVars, uiVars, selectVars, area>>

ShotChildExits ==
    /\ shot_child = "running"
    /\ shot_child' = "exited"
    /\ UNCHANGED <<pc, sessionVars, shot, uiVars, selectVars, area>>

-----------------------------------------------------------------------------
(* Starting and stopping a session: the on_press_... handlers. *)

AreaOf(r) ==
    CASE r.force = "REGION" -> "region"
      [] r.force = "WINDOW" -> IF OnX11 THEN "window" ELSE "portal"
      [] OTHER -> area[r.kind]

\* A region or a window is selected first, and the handler runs again after it.
SelectionFirst(r, finished) == ~finished /\ AreaOf(r) \in {"region", "window"}

\* update_ui_recording_stopped resets a flag, but does nothing while the overlay
\* is hidden.
ResetIfShown(flag) == flag /\ ~visible

StopReplay ==
    /\ process
    /\ StopChild
    /\ status' = "NONE"
    /\ paused' = FALSE
    /\ replay_recording' = ResetIfShown(replay_recording)
    /\ UNCHANGED <<hide_ui, save_notification>>

StartReplay(finished) ==
    LET r == Request("REPLAY", "NONE") IN
    /\ ~process
    /\ paused' = FALSE
    /\ \/ NoSessionChange /\ UNCHANGED hide_ui
       \/ /\ ~SelectionFirst(r, finished)
          /\ LaunchSession("REPLAY")
          /\ hide_ui' = (hide_ui \/ AreaOf(r) = "portal")
    /\ UNCHANGED <<replay_recording, save_notification>>

PressStartReplay(finished) ==
    /\ ~selector.started
    /\ status \in {"NONE", "REPLAY"}
    /\ StopReplay \/ StartReplay(finished)
    /\ UNCHANGED shotVars

\* A second recording inside a replay or stream: the child is told by SIGRTMIN.
ToggleRecordInSession ==
    /\ status \in {"REPLAY", "STREAM"} /\ process
    /\ paused' = (paused /\ replay_recording)
    /\ replay_recording' = TRUE
    /\ child' = IF child.state = "running"
                  THEN [child EXCEPT !.toggles = @ + 1] ELSE child
    /\ UNCHANGED <<status, process, out, unreaped, hide_ui, save_notification>>

StopRecord ==
    /\ status \in {"NONE", "RECORD"} /\ process
    /\ StopChild
    /\ status' = "NONE"
    /\ paused' = FALSE
    /\ replay_recording' = FALSE
    /\ UNCHANGED <<hide_ui, save_notification>>

\* Faulty variant: update_upause_status is not called.
StartRecordKeepsPause(finished, force) ==
    /\ status \in {"NONE", "RECORD"} /\ ~process
    /\ ~SelectionFirst(Request("RECORD", force), finished)
    /\ LaunchSession("RECORD")
    /\ UNCHANGED <<hide_ui, paused, replay_recording, save_notification>>

\* With the portal hide_ui is set before the child is launched.
StartRecord(finished, force) ==
    LET r == Request("RECORD", force) IN
    /\ status \in {"NONE", "RECORD"} /\ ~process
    /\ paused' = FALSE
    /\ \/ NoSessionChange /\ UNCHANGED hide_ui
       \/ /\ ~SelectionFirst(r, finished)
          /\ LaunchSession("RECORD") \/ NoSessionChange
          /\ hide_ui' = (hide_ui \/ AreaOf(r) = "portal")
    /\ UNCHANGED <<replay_recording, save_notification>>

PressStartRecord(finished, force) ==
    /\ ~selector.started
    /\ ToggleRecordInSession \/ StopRecord \/ StartRecord(finished, force)
    /\ UNCHANGED shotVars

StopStream ==
    /\ process
    /\ StopChild
    /\ status' = "NONE"
    /\ paused' = FALSE
    /\ replay_recording' = ResetIfShown(replay_recording)
    /\ UNCHANGED <<hide_ui, save_notification>>

StartStream(finished) ==
    LET r == Request("STREAM", "NONE") IN
    /\ ~process
    /\ paused' = FALSE
    /\ \/ NoSessionChange /\ UNCHANGED hide_ui
       \/ /\ ~SelectionFirst(r, finished)
          /\ LaunchSession("STREAM")
          /\ hide_ui' = (hide_ui \/ AreaOf(r) = "portal")
    /\ UNCHANGED <<replay_recording, save_notification>>

PressStartStream(finished) ==
    /\ ~selector.started
    /\ status \in {"NONE", "STREAM"}
    /\ StopStream \/ StartStream(finished)
    /\ UNCHANGED shotVars

\* Faulty variant: a screenshot that is still being saved is not looked for.
PressTakeScreenshotAgain(finished, force) ==
    /\ ~selector.started
    /\ shot' = TRUE /\ shot_child' = "running" /\ unreaped' = unreaped + 1
    /\ UNCHANGED <<status, process, paused, replay_recording, save_notification,
                   child, out, hide_ui>>

PressTakeScreenshot(finished, force) ==
    LET r == Request("SCREENSHOT", force) IN
    /\ ~selector.started
    /\ ~shot
    /\ \/ UNCHANGED <<shotVars, hide_ui, unreaped>>
       \/ /\ ~SelectionFirst(r, finished)
          /\ hide_ui' = (hide_ui \/ AreaOf(r) = "portal")
          /\ \/ shot' = TRUE /\ shot_child' = "running" /\ unreaped' = unreaped + 1
             \/ UNCHANGED <<shotVars, unreaped>>
    /\ UNCHANGED <<status, process, paused, replay_recording, save_notification,
                   child, out>>

-----------------------------------------------------------------------------
(* Presses: by rpc command, hotkey, joystick or button, or by a selection. *)

\* The early returns of the four handlers, some of them with a notification.
PressIgnored(r) ==
    \/ selector.started
    \/ r.kind \in {"REPLAY", "STREAM"} /\ status \notin {"NONE", r.kind}
    \/ r.kind = "SCREENSHOT" /\ shot

Press(r, finished) ==
    \/ PressIgnored(r) /\ UNCHANGED <<sessionVars, shotVars, hide_ui>>
    \/ r.kind = "REPLAY" /\ PressStartReplay(finished)
    \/ r.kind = "RECORD" /\ PressStartRecord(finished, r.force)
    \/ r.kind = "STREAM" /\ PressStartStream(finished)
    \/ r.kind = "SCREENSHOT" /\ PressTakeScreenshot(finished, r.force)

\* Faulty variant: a running selection does not stop a second request.
NeedsSelectionAnytime(r) == SelectionFirst(r, FALSE)

\* The handler reaches its start path with a region or window still to select.
NeedsSelection(r) ==
    /\ ~PressIgnored(r)
    /\ SelectionFirst(r, FALSE)
    /\ r.kind \in Sessions => status \in {"NONE", r.kind} /\ ~process

RequestSelection(r) ==
    /\ start_region' = (start_region \/ AreaOf(r) = "region")
    /\ start_window' = (start_window \/ AreaOf(r) = "window")
    /\ on_region_selected' = r

UserPress(r) ==
    /\ r.kind = "RECORD" /\ child.state = "running" => child.toggles < MaxToggles
    /\ Press(r, FALSE)
    /\ IF NeedsSelection(r) THEN RequestSelection(r) ELSE UNCHANGED requestVars
    /\ UNCHANGED <<pc, visible, pages, reload_ui, reopen_settings, do_exit,
                   selector, escape, area>>

\* Rpc commands and hotkeys are polled at the start of a frame; the front page
\* has a button for some of them.
Polled(c)  == c \in Commands /\ pc = "poll"
Clicked(c) == c \in Commands /\ pc = "window" /\ visible /\ pages = 1

ToggleReplay ==
    /\ Polled("toggle-replay") \/ Clicked("toggle-replay")
    /\ UserPress(Request("REPLAY", "NONE"))

StartReplayCommand ==
    /\ Polled("start-replay") /\ status # "REPLAY"
    /\ UserPress(Request("REPLAY", "NONE"))

StopReplayCommand ==
    /\ Polled("stop-replay") /\ status = "REPLAY"
    /\ UserPress(Request("REPLAY", "NONE"))

\* is_recording
IsRecording ==
    \/ status = "RECORD"
    \/ status \in {"REPLAY", "STREAM"} /\ replay_recording

ToggleRecord(force) ==
    /\ \/ force = "NONE" /\ (Polled("toggle-record") \/ Clicked("toggle-record"))
       \/ force = "REGION" /\ Polled("toggle-record-region")
       \/ force = "WINDOW" /\ Polled("toggle-record-window")
    /\ UserPress(Request("RECORD", force))

StartRecordCommand ==
    /\ Polled("start-record")
    /\ ~IsRecording
    /\ UserPress(Request("RECORD", "NONE"))

StopRecordCommand ==
    /\ Polled("stop-record")
    /\ IsRecording
    /\ UserPress(Request("RECORD", "NONE"))

ToggleStream ==
    /\ Polled("toggle-stream") \/ Clicked("toggle-stream")
    /\ UserPress(Request("STREAM", "NONE"))

StartStreamCommand ==
    /\ Polled("start-stream") /\ status # "STREAM"
    /\ UserPress(Request("STREAM", "NONE"))

StopStreamCommand ==
    /\ Polled("stop-stream") /\ status = "STREAM"
    /\ UserPress(Request("STREAM", "NONE"))

TakeScreenshot(force) ==
    /\ \/ force = "NONE" /\ Polled("take-screenshot")
       \/ force = "REGION" /\ Polled("take-screenshot-region")
       \/ force = "WINDOW" /\ Polled("take-screenshot-window")
    /\ UserPress(Request("SCREENSHOT", force))

TogglePause ==
    /\ Polled("toggle-pause") \/ Clicked("toggle-pause")
    /\ status = "RECORD" /\ process
    /\ paused' = ~paused
    /\ UNCHANGED <<pc, status, process, replay_recording, save_notification, child,
                   unreaped, out, shotVars, uiVars, selectVars, area>>

SaveReplay ==
    /\ Polled("replay-save") \/ Clicked("replay-save")
    /\ status = "REPLAY" /\ process
    /\ save_notification' = TRUE
    /\ child' = IF child.state = "running" THEN [child EXCEPT !.save = TRUE] ELSE child
    /\ UNCHANGED <<pc, status, process, paused, replay_recording, unreaped, out,
                   shotVars, uiVars, selectVars, area>>

\* cancel_region_selection, bound to Escape
CancelRegionSelection ==
    /\ pc = "poll" /\ escape
    /\ selector' = [selector EXCEPT !.started = FALSE, !.selected = FALSE,
                                    !.canceled = TRUE]
    /\ UNCHANGED <<pc, sessionVars, shotVars, uiVars, requestVars, escape, area>>

ReloadConfig ==
    /\ Polled("reload-config")
    /\ area' \in [Kinds -> Areas]
    /\ UNCHANGED <<pc, sessionVars, shotVars, uiVars, selectVars>>

Exit ==
    /\ Polled("exit")
    /\ do_exit' = TRUE
    /\ UNCHANGED <<pc, sessionVars, shotVars, visible, pages, hide_ui, reload_ui,
                   reopen_settings, selectVars, area>>

\* The poll of a frame is over.
PollDone ==
    /\ pc = "poll"
    /\ pc' = "selection"
    /\ UNCHANGED <<sessionVars, shotVars, uiVars, selectVars, area>>

-----------------------------------------------------------------------------
(* Region and window selection. *)

\* rebind_all_keyboard_hotkeys: Escape is bound while a request waits.
RebindHotkeys == escape' = (on_region_selected # NoRequest)

\* Faulty variant: the hotkeys are not bound again.
StopRegionSelectionOnly == on_region_selected' = NoRequest /\ UNCHANGED escape

StopRegionSelection ==
    /\ on_region_selected' = NoRequest
    /\ escape' = (escape /\ on_region_selected = NoRequest)

\* Escape reaches the selector itself.
SelectorCancels ==
    /\ pc = "selection" /\ selector.started
    /\ selector' = [selector EXCEPT !.started = FALSE, !.selected = FALSE,
                                    !.canceled = TRUE]
    /\ UNCHANGED <<pc, sessionVars, shotVars, uiVars, requestVars, escape, area>>

SelectorSelects ==
    /\ pc = "selection" /\ selector.started /\ ~selector.selected
    /\ selector' = [selector EXCEPT !.started = FALSE, !.selected = TRUE]
    /\ UNCHANGED <<pc, sessionVars, shotVars, uiVars, requestVars, escape, area>>

\* MappingNotify
KeyboardMappingChanges ==
    /\ pc = "selection"
    /\ RebindHotkeys
    /\ UNCHANGED <<pc, sessionVars, shotVars, uiVars, requestVars, selector, area>>

TakeCanceled ==
    /\ pc = "selection" /\ selector.canceled
    /\ pc' = "window"
    /\ selector' = [selector EXCEPT !.canceled = FALSE]
    /\ StopRegionSelection
    /\ UNCHANGED <<sessionVars, shotVars, uiVars, start_region, start_window, area>>

\* No window is under the pointer, or only the root window.
NoWindowSelected ==
    /\ selector.type = "WINDOW"
    /\ UNCHANGED <<sessionVars, shotVars, hide_ui>>

TakeSelection ==
    /\ pc = "selection" /\ ~selector.canceled /\ selector.selected
    /\ on_region_selected # NoRequest
    /\ pc' = "window"
    /\ selector' = [selector EXCEPT !.selected = FALSE]
    /\ NoWindowSelected \/ Press(on_region_selected, TRUE)
    /\ StopRegionSelection
    /\ UNCHANGED <<visible, pages, reload_ui, reopen_settings, do_exit,
                   start_region, start_window, area>>

NothingSelected ==
    /\ pc = "selection" /\ ~selector.canceled
    /\ ~selector.selected \/ on_region_selected = NoRequest
    /\ pc' = "window"
    /\ selector' = [selector EXCEPT !.selected = FALSE]
    /\ UNCHANGED <<sessionVars, shotVars, uiVars, requestVars, escape, area>>

-----------------------------------------------------------------------------
(* The overlay window: pages = 1 is the front page, 2 a settings page on it. *)

\* A settings page writes its values to the config when it is left.
LeaveSettings ==
    \/ UNCHANGED area
    \/ pages = 2 /\ \E k \in Kinds, a \in Areas : area' = [area EXCEPT ![k] = a]

\* hide(), but for the capture requests, which it drops too
HideUi ==
    IF visible
    THEN /\ visible' = FALSE /\ pages' = 0
         /\ hide_ui' = FALSE /\ reload_ui' = FALSE /\ reopen_settings' = FALSE
         /\ LeaveSettings
    ELSE UNCHANGED <<visible, pages, hide_ui, reload_ui, reopen_settings, area>>

Hide ==
    /\ HideUi
    /\ start_region' = (start_region /\ ~visible)
    /\ start_window' = (start_window /\ ~visible)

\* Faulty variant: the overlay opens over a running selection.
ShowAnytime ==
    /\ Polled("toggle-show")
    /\ ~visible /\ visible' = TRUE /\ pages' = 1
    /\ pc' = "reload"
    /\ UNCHANGED <<sessionVars, shotVars, hide_ui, reload_ui, reopen_settings,
                   do_exit, selectVars, area>>

\* show() draws a frame before it returns.
Show ==
    /\ Polled("toggle-show")
    /\ ~visible /\ ~selector.started
    /\ visible' = TRUE /\ pages' = 1
    /\ pc' = "reload"
    /\ UNCHANGED <<sessionVars, shotVars, hide_ui, reload_ui, reopen_settings,
                   do_exit, selectVars, area>>

CloseAllPages ==
    /\ visible
    /\ Polled("toggle-show") \/ pc = "window"   \* the command, the close button
    /\ pages' = 0
    /\ LeaveSettings
    /\ UNCHANGED <<pc, sessionVars, shotVars, visible, hide_ui, reload_ui,
                   reopen_settings, do_exit, selectVars>>

\* Escape
PopPage ==
    /\ pc = "window" /\ visible /\ pages > 0
    /\ pages' = pages - 1
    /\ LeaveSettings
    /\ UNCHANGED <<pc, sessionVars, shotVars, visible, hide_ui, reload_ui,
                   reopen_settings, do_exit, selectVars>>

OpenSettings ==
    /\ pc = "window" /\ visible /\ pages = 1
    /\ pages' = 2
    /\ UNCHANGED <<pc, sessionVars, shotVars, visible, hide_ui, reload_ui,
                   reopen_settings, do_exit, selectVars, area>>

LanguageChanges ==
    /\ pc = "window" /\ visible /\ pages = 2
    /\ reload_ui' = TRUE /\ reopen_settings' = TRUE
    /\ UNCHANGED <<pc, sessionVars, shotVars, visible, pages, hide_ui, do_exit,
                   selectVars, area>>

WindowDone ==
    /\ pc = "window"
    /\ pc' = "reload"
    /\ UNCHANGED <<sessionVars, shotVars, uiVars, selectVars, area>>

-----------------------------------------------------------------------------
(* draw(), one phase after the other. *)

ReloadUi ==
    /\ pc = "reload"
    /\ pc' = "output"
    /\ reload_ui' = FALSE /\ reopen_settings' = FALSE
    /\ IF reload_ui /\ visible
       THEN LeaveSettings /\ pages' = IF reopen_settings THEN 2 ELSE 1
       ELSE UNCHANGED <<pages, area>>
    /\ UNCHANGED <<sessionVars, shotVars, visible, hide_ui, do_exit, selectVars>>

\* on_stop_recording: ends a recording, but not one in a stream
OnStopRecording ==
    IF status \in {"RECORD", "REPLAY"}
    THEN paused' = ResetIfShown(paused) /\ replay_recording' = FALSE
    ELSE UNCHANGED <<paused, replay_recording>>

\* on_replay_saved, or the message that the replay could not be saved
OnReplayLine ==
    /\ save_notification' = (save_notification /\ status # "REPLAY")
    /\ UNCHANGED <<paused, replay_recording>>

ProcessGsrLine(line) ==
    CASE line = "error recording" ->
           /\ IF replay_recording THEN OnStopRecording
              ELSE UNCHANGED <<paused, replay_recording>>
           /\ UNCHANGED save_notification
      [] line = "video" -> OnStopRecording /\ UNCHANGED save_notification
      [] OTHER -> OnReplayLine

\* One line a frame.  The "saving replay" notification times out here too.
ProcessGsrOutput ==
    /\ pc = "output"
    /\ pc' = "reap"
    /\ \/ /\ out # <<>>
          /\ ProcessGsrLine(Head(out))
          /\ out' = Tail(out)
       \/ /\ out = <<>>
          /\ save_notification' \in {save_notification, FALSE}
          /\ UNCHANGED <<paused, replay_recording, out>>
    /\ UNCHANGED <<status, process, child, unreaped, shotVars, uiVars, selectVars, area>>

\* Faulty variant: recording_status is left as it was.
SessionEndsKeepsStatus ==
    /\ StopChild
    /\ UNCHANGED <<status, paused, replay_recording, save_notification>>

\* update_gsr_process_status: the child ended by itself.
SessionEnds ==
    /\ StopChild
    /\ status' = "NONE"
    /\ paused' = ResetIfShown(paused)
    /\ replay_recording' = (ResetIfShown(replay_recording) /\ status # "RECORD")
    /\ UNCHANGED save_notification

\* Faulty variant: like the update_ui_ functions, does nothing while hidden.
UpdateGsrProcessStatusShown ==
    /\ pc = "reap"
    /\ pc' = "shot"
    /\ IF visible /\ process /\ child.state = "exited"
       THEN SessionEnds ELSE UNCHANGED sessionVars
    /\ UNCHANGED <<shotVars, uiVars, selectVars, area>>

UpdateGsrProcessStatus ==
    /\ pc = "reap"
    /\ pc' = "shot"
    /\ IF process /\ child.state = "exited" THEN SessionEnds ELSE UNCHANGED sessionVars
    /\ UNCHANGED <<shotVars, uiVars, selectVars, area>>

UpdateScreenshotProcessStatus ==
    /\ pc = "shot"
    /\ pc' = "hide"
    /\ IF shot /\ shot_child = "exited"
       THEN shot' = FALSE /\ shot_child' = "none" /\ unreaped' = unreaped - 1
       ELSE UNCHANGED <<shotVars, unreaped>>
    /\ UNCHANGED <<status, process, paused, replay_recording, save_notification,
                   child, out, uiVars, selectVars, area>>

\* Faulty variant: the exit flag is not looked at.
EndOfFrameForever == pc' = "poll"

EndOfFrame == pc' = IF do_exit THEN "exit" ELSE "poll"

HideRequested ==
    /\ pc = "hide"
    /\ IF hide_ui
       THEN /\ EndOfFrame
            /\ visible' = FALSE /\ pages' = 0 /\ hide_ui' = FALSE
            /\ IF visible
               THEN /\ reload_ui' = FALSE /\ reopen_settings' = FALSE /\ LeaveSettings
               ELSE UNCHANGED <<reload_ui, reopen_settings, area>>
            /\ start_region' = (start_region /\ ~visible)
            /\ start_window' = (start_window /\ ~visible)
       ELSE /\ pc' = "region_capture"
            /\ UNCHANGED <<visible, pages, hide_ui, reload_ui, reopen_settings, area,
                           start_region, start_window>>
    /\ UNCHANGED <<sessionVars, shotVars, do_exit, on_region_selected, selector, escape>>

\* region_selector->start, after the hotkeys were bound again
StartSelector(type) ==
    \/ /\ ~selector.started
       /\ selector' = [started |-> TRUE, type |-> type,
                       selected |-> FALSE, canceled |-> FALSE]
       /\ RebindHotkeys
       /\ UNCHANGED on_region_selected
    \/ /\ on_region_selected' = NoRequest
       /\ escape' = FALSE
       /\ UNCHANGED selector

StartRegionCapture ==
    /\ pc = "region_capture"
    /\ pc' = "window_capture"
    /\ IF start_region
       THEN /\ start_region' = FALSE
            /\ start_window' = (start_window /\ ~visible)
            /\ HideUi
            /\ StartSelector("REGION")
       ELSE UNCHANGED <<selectVars, visible, pages, hide_ui, reload_ui,
                        reopen_settings, area>>
    /\ UNCHANGED <<sessionVars, shotVars, do_exit>>

StartWindowCapture ==
    /\ pc = "window_capture"
    /\ pc' = "present"
    /\ IF start_window
       THEN /\ start_window' = FALSE
            /\ start_region' = (start_region /\ ~visible)
            /\ HideUi
            /\ StartSelector("WINDOW")
       ELSE UNCHANGED <<selectVars, visible, pages, hide_ui, reload_ui,
                        reopen_settings, area>>
    /\ UNCHANGED <<sessionVars, shotVars, do_exit>>

\* Faulty variant: an overlay without pages stays open.
PresentOnly ==
    /\ pc = "present"
    /\ EndOfFrame
    /\ UNCHANGED <<sessionVars, shotVars, uiVars, selectVars, area>>

Present ==
    /\ pc = "present"
    /\ EndOfFrame
    /\ IF ~selector.started /\ visible /\ pages = 0
       THEN Hide
       ELSE UNCHANGED <<visible, pages, hide_ui, reload_ui, reopen_settings, area,
                        start_region, start_window>>
    /\ UNCHANGED <<sessionVars, shotVars, do_exit, on_region_selected, selector, escape>>

\* ~Overlay: both children are stopped and waited for.
Destroy ==
    /\ pc = "exit"
    /\ pc' = "done"
    /\ Hide
    /\ process' = FALSE /\ child' = NoChild /\ out' = <<>>
    /\ shot' = FALSE /\ shot_child' = "none"
    /\ unreaped' = unreaped - (IF process THEN 1 ELSE 0) - (IF shot THEN 1 ELSE 0)
    /\ selector' = IdleSelector
    /\ UNCHANGED <<status, paused, replay_recording, save_notification, do_exit,
                   on_region_selected, escape>>

-----------------------------------------------------------------------------
Children == ChildToggles \/ ChildSaves \/ ChildExits \/ ShotChildExits

User ==
    \/ ToggleReplay \/ StartReplayCommand \/ StopReplayCommand
    \/ \E force \in Forces : ToggleRecord(force) \/ TakeScreenshot(force)
    \/ StartRecordCommand \/ StopRecordCommand
    \/ ToggleStream \/ StartStreamCommand \/ StopStreamCommand
    \/ TogglePause \/ SaveReplay \/ CancelRegionSelection
    \/ ReloadConfig \/ Exit
    \/ SelectorCancels \/ SelectorSelects \/ KeyboardMappingChanges
    \/ Show \/ CloseAllPages \/ PopPage \/ OpenSettings \/ LanguageChanges

\* The steps the main loop takes by itself.
MainLoop ==
    \/ PollDone
    \/ TakeCanceled \/ TakeSelection \/ NothingSelected
    \/ WindowDone
    \/ ReloadUi \/ ProcessGsrOutput \/ UpdateGsrProcessStatus
    \/ UpdateScreenshotProcessStatus \/ HideRequested
    \/ StartRegionCapture \/ StartWindowCapture \/ Present
    \/ Destroy

Next == Children \/ User \/ MainLoop

Spec == Init /\ [][Next]_vars

\* The main loop never stops by itself, and a child handles its signals.
FairSpec == Spec /\ WF_vars(MainLoop) /\ WF_vars(ChildToggles) /\ WF_vars(ChildSaves)

-----------------------------------------------------------------------------
(* Properties. *)

SessionFlagsOK ==
    /\ process \in BOOLEAN /\ paused \in BOOLEAN /\ replay_recording \in BOOLEAN
    /\ save_notification \in BOOLEAN /\ shot \in BOOLEAN

ChildrenOK ==
    /\ status \in Sessions \cup {"NONE"}
    /\ child \in Child
    /\ shot_child \in {"none", "running", "exited"}

UiFlagsOK ==
    /\ visible \in BOOLEAN /\ hide_ui \in BOOLEAN /\ reload_ui \in BOOLEAN
    /\ reopen_settings \in BOOLEAN /\ do_exit \in BOOLEAN
    /\ start_region \in BOOLEAN /\ start_window \in BOOLEAN /\ escape \in BOOLEAN

SelectionOK ==
    /\ on_region_selected \in Requests \cup {NoRequest}
    /\ selector \in Selector
    /\ area \in [Kinds -> Areas]

\* The type invariant.  At most two gpu-screen-recorder children exist at a time.
TypeOK ==
    /\ pc \in Phases
    /\ SessionFlagsOK
    /\ ChildrenOK
    /\ out \in Seq(Lines)
    /\ unreaped \in 0 .. 2
    /\ UiFlagsOK
    /\ pages \in 0 .. 2
    /\ SelectionOK

\* The recording status, the pid and the child agree, in every phase and for
\* every order of presses, selections and exits of the child: no session without
\* a child, no child without a session, and no two session children at once.
SessionHasItsChild ==
    /\ pc # "done" => (status # "NONE" <=> process)
    /\ process <=> child.state # "none"
    /\ shot <=> shot_child # "none"

\* Every gpu-screen-recorder that was started is known by a pid until it is
\* waited for; after the destructor none is left.
NoOrphanedChild ==
    unreaped = (IF process THEN 1 ELSE 0) + (IF shot THEN 1 ELSE 0)

\* Only a recording is paused.  The flag may outlive a recording that ended while
\* the overlay was hidden, but no other session begins with it.
OnlyRecordingIsPaused == paused => status \in {"RECORD", "NONE"}

\* The overlay and the region selector never grab the input at the same time.
NeverSelectingBehindOverlay == ~(visible /\ selector.started)

\* While a region or window is being selected no further capture is requested.
NoRequestWhileSelecting ==
    selector.started /\ pc # "window_capture" => ~start_region /\ ~start_window

\* Escape is taken from the applications only while a request waits for a
\* selection, and a selection with a request can always be left with Escape.
EscapeFollowsRequest ==
    /\ escape => on_region_selected # NoRequest
    /\ selector.started /\ on_region_selected # NoRequest => escape

\* Once process_gsr_output has read the child's line about a recording inside the
\* session, the overlay no longer takes the recording for running
\* (on_stop_recording has a branch for a stream).
ReadsRecordingLine ==
    /\ pc = "output" /\ pc' = "reap"
    /\ out # <<>> /\ Head(out) \in {"video", "error recording"} /\ out' = Tail(out)
RecordingLineEndsIt == [][ReadsRecordingLine => ~replay_recording']_vars

-----------------------------------------------------------------------------
\* A child that ended by itself is noticed and waited for.
DeadChildIsReaped == (child.state = "exited") ~> (child.state # "exited")

\* An overlay without pages is taken off the screen, or gets its pages back.
ClosedOverlayHides == (visible /\ pages = 0) ~> (~visible \/ pages > 0)

\* An exit command ends the program, with both children stopped.
ExitEnds == do_exit ~> (pc = "done" /\ unreaped = 0)

=============================================================================
