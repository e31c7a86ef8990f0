---------------------------- MODULE OverlayProofs ----------------------------
(***************************************************************************)
(* Proofs about Overlay, for every set of commands, areas and bounds.      *)
(* The invariants are proved in two groups.  SessionInv is about the       *)
(* children, SelectInv about the region selector; each is inductive        *)
(* together with the types of the variables it does not mention.           *)
(***************************************************************************)
EXTENDS OverlayCapture, TLAPS

SessionInv ==
    /\ SessionFlagsOK
    /\ ChildrenOK
    /\ out \in Seq(Lines)
    /\ SessionHasItsChild
    /\ NoOrphanedChild
    /\ OnlyRecordingIsPaused

UiInv ==
    /\ pc \in Phases
    /\ UiFlagsOK
    /\ pages \in 0 .. 2
    /\ SelectionOK

\* The inductive form of the type invariant: the bound of unreaped follows from
\* NoOrphanedChild, and that a pid stands for a child from SessionHasItsChild.
IInv == SessionInv /\ UiInv

\* The two pids bound the number of children.
LEMMA TypeInv == IInv => TypeOK
  <1> SUFFICES ASSUME IInv PROVE TypeOK
    OBVIOUS
  <1>1. unreaped \in 0 .. 2
    BY DEF IInv, SessionInv, NoOrphanedChild
  <1> QED
    BY <1>1 DEF IInv, SessionInv, UiInv, TypeOK

-----------------------------------------------------------------------------
(* The data. *)

\* The children the handlers start and stop are well formed.
LEMMA ChildTypes ==
  /\ NoChild \in Child /\ NoChild.state = "none"
  /\ NewChild \in Child /\ NewChild.state = "running"
  BY DEF Child, NoChild, NewChild

\* Sending a signal keeps a child well formed and in its state.
LEMMA SignalTypes ==
  ASSUME NEW c \in Child
  PROVE  /\ [c EXCEPT !.toggles = @ + 1] \in Child
         /\ [c EXCEPT !.toggles = @ + 1].state = c.state
         /\ [c EXCEPT !.save = TRUE] \in Child
         /\ [c EXCEPT !.save = TRUE].state = c.state
  <1>1. [c EXCEPT !.toggles = @ + 1] \in Child
    BY DEF Child
  <1>2. [c EXCEPT !.save = TRUE] \in Child
    BY DEF Child
  <1> QED
    BY <1>1, <1>2 DEF Child

\* Handling a signal does, too.
LEMMA HandledTypes ==
  ASSUME NEW c \in Child, c.toggles > 0, NEW b \in BOOLEAN
  PROVE  /\ [c EXCEPT !.toggles = @ - 1, !.recording = b] \in Child
         /\ [c EXCEPT !.toggles = @ - 1, !.recording = b].state = c.state
  <1>1. c.toggles - 1 \in Nat
    BY DEF Child
  <1> QED
    BY <1>1 DEF Child

\* A new output pipe is empty, and reading a line from one leaves lines.
LEMMA EmptyPipe == <<>> \in Seq(Lines)
  OBVIOUS

LEMMA ReadPipe ==
  ASSUME NEW s \in Seq(Lines), s # <<>>
  PROVE  Tail(s) \in Seq(Lines)
  OBVIOUS

-----------------------------------------------------------------------------
(* The initial state. *)

\* The program starts without children, selection or window.
LEMMA InitInv == Init => IInv
  <1> SUFFICES ASSUME Init PROVE IInv
    OBVIOUS
  <1>1. SessionFlagsOK /\ UiFlagsOK
    BY DEF Init, SessionFlagsOK, UiFlagsOK
  <1>2. ChildrenOK
    BY ChildTypes DEF Init, ChildrenOK
  <1>3. SelectionOK
    BY DEF Init, SelectionOK, Selector, IdleSelector, SelectionTypes
  <1>4. pc \in Phases /\ pages \in 0 .. 2
    BY DEF Init, Phases
  <1>5. out \in Seq(Lines)
    BY EmptyPipe DEF Init
  <1>6. SessionHasItsChild
    BY ChildTypes DEF Init, SessionHasItsChild
  <1>7. NoOrphanedChild
    BY DEF Init, NoOrphanedChild
  <1>8. OnlyRecordingIsPaused
    BY DEF Init, OnlyRecordingIsPaused
  <1> QED
    BY <1>1, <1>2, <1>3, <1>4, <1>5, <1>6, <1>7, <1>8 DEF IInv, SessionInv, UiInv

-----------------------------------------------------------------------------
(* The session handlers.  Each is a press that leaves the screenshot alone, or *)
(* the other way around. *)

\* Stopping the child of a session ends the session.
LEMMA StopInv ==
  ASSUME SessionInv, process, StopChild, status' = "NONE", UNCHANGED shotVars,
         paused' \in BOOLEAN, replay_recording' \in BOOLEAN,
         UNCHANGED save_notification
  PROVE  SessionInv'
  <1>1. SessionFlagsOK'
    BY DEF SessionInv, SessionFlagsOK, StopChild, shotVars
  <1>2. ChildrenOK'
    BY ChildTypes DEF SessionInv, ChildrenOK, StopChild, shotVars
  <1>3. (out \in Seq(Lines))'
    BY EmptyPipe DEF StopChild
  <1>4. SessionHasItsChild'
    BY ChildTypes DEF SessionInv, SessionHasItsChild, StopChild, shotVars
  <1>5. NoOrphanedChild'
    BY DEF SessionInv, SessionFlagsOK, NoOrphanedChild, StopChild, shotVars
  <1>6. OnlyRecordingIsPaused'
    BY DEF OnlyRecordingIsPaused
  <1> QED
    BY <1>1, <1>2, <1>3, <1>4, <1>5, <1>6 DEF SessionInv

\* A session is launched only when there is none.
LEMMA LaunchInv ==
  ASSUME SessionInv, ~process, NEW s \in Sessions, LaunchSession(s), paused' = FALSE,
         UNCHANGED <<replay_recording, save_notification, shotVars>>
  PROVE  SessionInv'
  <1>1. SessionFlagsOK'
    BY DEF SessionInv, SessionFlagsOK, LaunchSession, shotVars
  <1>2. ChildrenOK'
    BY ChildTypes DEF SessionInv, ChildrenOK, LaunchSession, shotVars
  <1>3. (out \in Seq(Lines))'
    BY EmptyPipe DEF LaunchSession
  <1>4. SessionHasItsChild'
    BY ChildTypes DEF SessionInv, SessionHasItsChild, LaunchSession, shotVars, Sessions
  <1>5. NoOrphanedChild'
    BY DEF SessionInv, SessionFlagsOK, NoOrphanedChild, LaunchSession, shotVars
  <1>6. OnlyRecordingIsPaused'
    BY DEF OnlyRecordingIsPaused
  <1> QED
    BY <1>1, <1>2, <1>3, <1>4, <1>5, <1>6 DEF SessionInv

\* A step that starts and stops no child, and lets nothing but a recording pause.
LEMMA KeepInv ==
  ASSUME SessionInv, pc # "done" \/ pc' = "done",
         UNCHANGED <<status, process, unreaped, shotVars>>,
         paused' \in BOOLEAN, replay_recording' \in BOOLEAN,
         save_notification' \in BOOLEAN,
         child' \in Child, child'.state = "none" <=> child.state = "none",
         out' \in Seq(Lines),
         paused' => paused \/ status = "RECORD"
  PROVE  SessionInv'
  <1>1. SessionFlagsOK'
    BY DEF SessionInv, SessionFlagsOK, shotVars
  <1>2. ChildrenOK'
    BY DEF SessionInv, ChildrenOK, shotVars
  <1>3. SessionHasItsChild'
    BY DEF SessionInv, SessionHasItsChild, shotVars
  <1>4. NoOrphanedChild'
    BY DEF SessionInv, NoOrphanedChild, shotVars
  <1>5. OnlyRecordingIsPaused'
    BY DEF SessionInv, OnlyRecordingIsPaused
  <1> QED
    BY <1>1, <1>2, <1>3, <1>4, <1>5 DEF SessionInv

\* The handlers of the three kinds of session.
LEMMA PressSessionInv ==
  ASSUME SessionInv, pc # "done", hide_ui \in BOOLEAN, NEW finished, NEW force,
         \/ PressStartReplay(finished)
         \/ PressStartRecord(finished, force)
         \/ PressStartStream(finished)
  PROVE  SessionInv' /\ hide_ui' \in BOOLEAN
  <1> USE DEF Sessions
  <1>1. UNCHANGED shotVars
    BY DEF PressStartReplay, PressStartRecord, PressStartStream
  <1>2. paused \in BOOLEAN /\ replay_recording \in BOOLEAN
        /\ save_notification \in BOOLEAN /\ child \in Child /\ out \in Seq(Lines)
    BY DEF SessionInv, SessionFlagsOK, ChildrenOK
  <1>3. CASE StopReplay \/ StopRecord \/ StopStream
    <2>1. process /\ StopChild /\ status' = "NONE" /\ paused' = FALSE
          /\ UNCHANGED <<hide_ui, save_notification>>
      BY <1>3 DEF StopReplay, StopRecord, StopStream
    <2>2. replay_recording' \in BOOLEAN
      BY <1>3 DEF StopReplay, StopRecord, StopStream, ResetIfShown
    <2> QED
      BY <1>1, <2>1, <2>2, StopInv
  <1>4. CASE \/ StartReplay(finished)
             \/ StartRecord(finished, force)
             \/ StartStream(finished)
    <2>1. ~process /\ paused' = FALSE /\ UNCHANGED <<replay_recording, save_notification>>
      BY <1>4 DEF StartReplay, StartRecord, StartStream
    <2>2. hide_ui' \in BOOLEAN
      BY <1>4 DEF StartReplay, StartRecord, StartStream
    <2>3. \/ \E s \in Sessions : LaunchSession(s)
          \/ NoSessionChange
      BY <1>4 DEF StartReplay, StartRecord, StartStream
    <2>4. CASE \E s \in Sessions : LaunchSession(s)
      BY <1>1, <2>1, <2>2, <2>4, LaunchInv
    <2>5. CASE NoSessionChange
      BY <1>1, <1>2, <2>1, <2>2, <2>5, KeepInv DEF NoSessionChange
    <2> QED
      BY <2>3, <2>4, <2>5
  <1>5. CASE ToggleRecordInSession
    <2>1. UNCHANGED <<status, process, out, unreaped, hide_ui, save_notification>>
          /\ paused' = (paused /\ replay_recording) /\ replay_recording' = TRUE
      BY <1>5 DEF ToggleRecordInSession
    <2>2. child' \in Child /\ child'.state = child.state
      BY <1>2, <1>5, SignalTypes DEF ToggleRecordInSession
    <2> QED
      BY <1>1, <1>2, <2>1, <2>2, KeepInv
  <1> QED
    BY <1>3, <1>4, <1>5 DEF PressStartReplay, PressStartRecord, PressStartStream

\* The screenshot handler starts a second child only when none is running.
LEMMA PressTakeScreenshotInv ==
  ASSUME SessionInv, pc # "done", hide_ui \in BOOLEAN, NEW finished, NEW force,
         PressTakeScreenshot(finished, force)
  PROVE  SessionInv' /\ hide_ui' \in BOOLEAN
  <1>1. ~shot
        /\ UNCHANGED <<status, process, paused, replay_recording, save_notification,
                       child, out>>
    BY DEF PressTakeScreenshot
  <1>2. hide_ui' \in BOOLEAN
    BY DEF PressTakeScreenshot
  <1>3. \/ UNCHANGED <<shot, shot_child, unreaped>>
        \/ shot' = TRUE /\ shot_child' = "running" /\ unreaped' = unreaped + 1
    BY DEF PressTakeScreenshot, shotVars
  <1>4. SessionFlagsOK'
    BY <1>1, <1>3 DEF SessionInv, SessionFlagsOK
  <1>5. ChildrenOK'
    BY <1>1, <1>3 DEF SessionInv, ChildrenOK
  <1>6. SessionHasItsChild'
    BY <1>1, <1>3 DEF SessionInv, SessionHasItsChild
  <1>7. NoOrphanedChild'
    BY <1>1, <1>3 DEF SessionInv, SessionFlagsOK, NoOrphanedChild
  <1> QED
    BY <1>1, <1>2, <1>4, <1>5, <1>6, <1>7 DEF SessionInv, OnlyRecordingIsPaused

\* Every press, whether ignored, by a command or after a selection.
LEMMA PressInv ==
  ASSUME SessionInv, pc # "done", hide_ui \in BOOLEAN, NEW r, NEW finished,
         Press(r, finished)
  PROVE  SessionInv' /\ hide_ui' \in BOOLEAN
  <1>1. CASE UNCHANGED <<sessionVars, shotVars, hide_ui>>
    BY <1>1 DEF sessionVars, shotVars, SessionInv, SessionFlagsOK, ChildrenOK,
                SessionHasItsChild, NoOrphanedChild, OnlyRecordingIsPaused
  <1>2. CASE \/ PressStartReplay(finished)
             \/ PressStartRecord(finished, r.force)
             \/ PressStartStream(finished)
    BY <1>2, PressSessionInv
  <1>3. CASE PressTakeScreenshot(finished, r.force)
    BY <1>3, PressTakeScreenshotInv
  <1> QED
    BY <1>1, <1>2, <1>3 DEF Press

-----------------------------------------------------------------------------
(* The steps, and the session. *)

\* A command of the user that presses a button or a hotkey.
PressCommand ==
    \/ ToggleReplay \/ StartReplayCommand \/ StopReplayCommand
    \/ \E force \in Forces : ToggleRecord(force) \/ TakeScreenshot(force)
    \/ StartRecordCommand \/ StopRecordCommand
    \/ ToggleStream \/ StartStreamCommand \/ StopStreamCommand

\* A step that concerns the window, the selector and the settings only.
WindowStep ==
    \/ CancelRegionSelection \/ ReloadConfig \/ Exit
    \/ SelectorCancels \/ SelectorSelects \/ KeyboardMappingChanges
    \/ Show \/ CloseAllPages \/ PopPage \/ OpenSettings \/ LanguageChanges
    \/ PollDone \/ TakeCanceled \/ NothingSelected \/ WindowDone
    \/ ReloadUi \/ HideRequested \/ StartRegionCapture \/ StartWindowCapture \/ Present

\* The steps that are left are those of the children and those of draw() that
\* read from them.
LEMMA NextCases ==
  Next <=> \/ PressCommand \/ WindowStep \/ TakeSelection
           \/ Children \/ TogglePause \/ SaveReplay
           \/ ProcessGsrOutput \/ UpdateGsrProcessStatus
           \/ UpdateScreenshotProcessStatus \/ Destroy
  BY DEF Next, User, MainLoop, PressCommand, WindowStep

\* A command is a press while the main loop handles input.
LEMMA PressCommandPresses ==
  ASSUME PressCommand
  PROVE  /\ pc \in {"poll", "window"}
         /\ \E r \in Requests : UserPress(r)
  <1>1. ASSUME NEW k \in Kinds, NEW f \in Forces
        PROVE  Request(k, f) \in Requests
    BY <1>1 DEF Request, Requests
  <1>2. {"REPLAY", "RECORD", "STREAM", "SCREENSHOT"} \subseteq Kinds /\ "NONE" \in Forces
    BY DEF Kinds, Sessions, Forces
  <1>3. CASE ToggleReplay \/ StartReplayCommand \/ StopReplayCommand
    <2>1. UserPress(Request("REPLAY", "NONE")) /\ pc \in {"poll", "window"}
      BY <1>3 DEF ToggleReplay, StartReplayCommand, StopReplayCommand, Polled, Clicked
    <2> QED
      BY <1>1, <1>2, <2>1
  <1>4. CASE \E force \in Forces : ToggleRecord(force)
    <2>1. PICK force \in Forces : ToggleRecord(force)
      BY <1>4
    <2>2. UserPress(Request("RECORD", force)) /\ pc \in {"poll", "window"}
      BY <2>1 DEF ToggleRecord, Polled, Clicked
    <2> QED
      BY <1>1, <1>2, <2>2
  <1>5. CASE \E force \in Forces : TakeScreenshot(force)
    <2>1. PICK force \in Forces : TakeScreenshot(force)
      BY <1>5
    <2>2. UserPress(Request("SCREENSHOT", force)) /\ pc \in {"poll", "window"}
      BY <2>1 DEF TakeScreenshot, Polled, Clicked
    <2> QED
      BY <1>1, <1>2, <2>2
  <1>6. CASE StartRecordCommand \/ StopRecordCommand
    <2>1. UserPress(Request("RECORD", "NONE")) /\ pc \in {"poll", "window"}
      BY <1>6 DEF StartRecordCommand, StopRecordCommand, Polled
    <2> QED
      BY <1>1, <1>2, <2>1
  <1>7. CASE ToggleStream \/ StartStreamCommand \/ StopStreamCommand
    <2>1. UserPress(Request("STREAM", "NONE")) /\ pc \in {"poll", "window"}
      BY <1>7 DEF ToggleStream, StartStreamCommand, StopStreamCommand, Polled, Clicked
    <2> QED
      BY <1>1, <1>2, <2>1
  <1> QED
    BY <1>3, <1>4, <1>5, <1>6, <1>7 DEF PressCommand

\* The window's steps leave the children alone, in a running program.
LEMMA WindowStepSession ==
  ASSUME WindowStep
  PROVE  pc # "done" /\ UNCHANGED <<sessionVars, shotVars>>
  BY DEF WindowStep, CancelRegionSelection, ReloadConfig, Exit, SelectorCancels,
         SelectorSelects, KeyboardMappingChanges, Show, CloseAllPages, PopPage,
         OpenSettings, LanguageChanges, PollDone, TakeCanceled, NothingSelected,
         WindowDone, ReloadUi, HideRequested, StartRegionCapture,
         StartWindowCapture, Present, Polled

\* An unchanged session keeps its invariant.
LEMMA SessionUnchanged ==
  ASSUME SessionInv, pc # "done" \/ pc' = "done", UNCHANGED <<sessionVars, shotVars>>
  PROVE  SessionInv'
  BY DEF sessionVars, shotVars, SessionInv, SessionFlagsOK, ChildrenOK,
         SessionHasItsChild, NoOrphanedChild, OnlyRecordingIsPaused

\* What gpu-screen-recorder does by itself: it may end, but is not gone.
LEMMA ChildrenSession ==
  ASSUME SessionInv, Children
  PROVE  SessionInv'
  <1> USE DEF sessionVars, shotVars
  <1>1. child \in Child /\ out \in Seq(Lines) /\ paused \in BOOLEAN
        /\ replay_recording \in BOOLEAN /\ save_notification \in BOOLEAN
    BY DEF SessionInv, SessionFlagsOK, ChildrenOK
  <1>2. ASSUME NEW line \in Lines
        PROVE  Append(out, line) \in Seq(Lines)
    BY <1>1
  <1>3. CASE ChildToggles
    <2>1. child' \in Child /\ child'.state = child.state
      BY <1>1, <1>3, HandledTypes DEF ChildToggles
    <2>2. out' \in Seq(Lines)
      <3>1. out' = out \/ \E line \in Lines : out' = Append(out, line)
        BY <1>3 DEF ChildToggles, Lines
      <3> QED
        BY <1>1, <1>2, <3>1
    <2>3. UNCHANGED <<pc, status, process, paused, replay_recording,
                      save_notification, unreaped, shotVars>>
      BY <1>3 DEF ChildToggles
    <2> QED
      BY <1>1, <2>1, <2>2, <2>3 DEF SessionInv, SessionHasItsChild,
         NoOrphanedChild, OnlyRecordingIsPaused, SessionFlagsOK, ChildrenOK
  <1>4. CASE ChildSaves
    <2>1. child' \in Child /\ child'.state = child.state
      BY <1>1, <1>4 DEF ChildSaves, Child
    <2>2. out' \in Seq(Lines)
      BY <1>1, <1>2, <1>4 DEF ChildSaves, Lines
    <2>3. UNCHANGED <<pc, status, process, paused, replay_recording,
                      save_notification, unreaped, shotVars>>
      BY <1>4 DEF ChildSaves
    <2> QED
      BY <1>1, <2>1, <2>2, <2>3 DEF SessionInv, SessionHasItsChild,
         NoOrphanedChild, OnlyRecordingIsPaused, SessionFlagsOK, ChildrenOK
  <1>5. CASE ChildExits
    <2>1. child' \in Child /\ child.state # "none" /\ child'.state # "none"
      BY <1>1, <1>5 DEF ChildExits, Child, NoChild
    <2>2. out' \in Seq(Lines)
      BY <1>1, <1>2, <1>5 DEF ChildExits, Lines
    <2>3. UNCHANGED <<pc, status, process, paused, replay_recording,
                      save_notification, unreaped, shotVars>>
      BY <1>5 DEF ChildExits
    <2> QED
      BY <1>1, <2>1, <2>2, <2>3 DEF SessionInv, SessionHasItsChild,
         NoOrphanedChild, OnlyRecordingIsPaused, SessionFlagsOK, ChildrenOK
  <1>6. CASE ShotChildExits
    <2>1. UNCHANGED <<pc, status, process, paused, replay_recording,
                      save_notification, child, out, unreaped, shot>>
          /\ shot_child = "running" /\ shot_child' = "exited"
      BY <1>6 DEF ShotChildExits
    <2> QED
      BY <2>1 DEF SessionInv, SessionHasItsChild, NoOrphanedChild,
         OnlyRecordingIsPaused, SessionFlagsOK, ChildrenOK
  <1> QED
    BY <1>3, <1>4, <1>5, <1>6 DEF Children

\* What draw() reads from gpu-screen-recorder, and the pause and save signals.
LEMMA SignalSession ==
  ASSUME SessionInv, TogglePause \/ SaveReplay \/ ProcessGsrOutput
  PROVE  SessionInv'
  <1>1. child \in Child /\ out \in Seq(Lines) /\ paused \in BOOLEAN
        /\ replay_recording \in BOOLEAN /\ save_notification \in BOOLEAN
    BY DEF SessionInv, SessionFlagsOK, ChildrenOK
  <1>2. CASE TogglePause
    <2>1. UNCHANGED <<status, process, replay_recording, save_notification, child,
                      unreaped, out, shotVars>>
          /\ paused' = ~paused /\ status = "RECORD" /\ pc # "done"
      BY <1>2 DEF TogglePause, Polled, Clicked
    <2> QED
      BY <1>1, <2>1, KeepInv
  <1>3. CASE SaveReplay
    <2>1. UNCHANGED <<status, process, paused, replay_recording, unreaped, out, shotVars>>
          /\ save_notification' = TRUE /\ pc # "done"
      BY <1>3 DEF SaveReplay, Polled, Clicked
    <2>2. child' \in Child /\ child'.state = child.state
      BY <1>1, <1>3, SignalTypes DEF SaveReplay
    <2> QED
      BY <1>1, <2>1, <2>2, KeepInv
  <1>4. CASE ProcessGsrOutput
    <2>1. pc # "done" /\ UNCHANGED <<status, process, child, unreaped, shotVars>>
      BY <1>4 DEF ProcessGsrOutput
    <2>2. out' \in Seq(Lines)
      <3>1. CASE out # <<>> /\ out' = Tail(out)
        BY <1>1, <3>1, ReadPipe
      <3>2. CASE UNCHANGED out
        BY <1>1, <3>2
      <3> QED
        BY <1>4, <3>1, <3>2 DEF ProcessGsrOutput
    <2>3. /\ paused' \in BOOLEAN /\ replay_recording' \in BOOLEAN
          /\ save_notification' \in BOOLEAN
          /\ paused' => paused
      <3>1. CASE UNCHANGED <<paused, replay_recording, out>>
                 /\ save_notification' \in {save_notification, FALSE}
        BY <1>1, <3>1
      <3>2. CASE ProcessGsrLine(Head(out))
        <4> DEFINE line == Head(out)
        <4>1. CASE line = "error recording"
          BY <1>1, <3>2, <4>1 DEF ProcessGsrLine, OnStopRecording, ResetIfShown
        <4>2. CASE line = "video"
          BY <1>1, <3>2, <4>2 DEF ProcessGsrLine, OnStopRecording, ResetIfShown
        <4>3. CASE line \notin {"error recording", "video"}
          BY <1>1, <3>2, <4>3 DEF ProcessGsrLine, OnReplayLine
        <4> QED
          BY <4>1, <4>2, <4>3
      <3> QED
        BY <1>4, <3>1, <3>2 DEF ProcessGsrOutput
    <2> QED
      BY <1>1, <2>1, <2>2, <2>3, KeepInv
  <1> QED
    BY <1>2, <1>3, <1>4

\* What is waited for is forgotten: the two status updates and the destructor.
LEMMA ReapSession ==
  ASSUME SessionInv,
         UpdateGsrProcessStatus \/ UpdateScreenshotProcessStatus \/ Destroy
  PROVE  SessionInv'
  <1>1. CASE UpdateGsrProcessStatus
    <2>1. pc # "done" /\ UNCHANGED shotVars
      BY <1>1 DEF UpdateGsrProcessStatus
    <2>2. CASE SessionEnds /\ process
      <3>1. paused' \in BOOLEAN /\ replay_recording' \in BOOLEAN
        BY <2>2 DEF SessionEnds, ResetIfShown
      <3> QED
        BY <2>1, <2>2, <3>1, StopInv DEF SessionEnds
    <2>3. CASE UNCHANGED sessionVars
      BY <2>1, <2>3, SessionUnchanged
    <2> QED
      BY <1>1, <2>2, <2>3 DEF UpdateGsrProcessStatus
  <1>2. CASE UpdateScreenshotProcessStatus
    <2>1. /\ pc # "done"
          /\ UNCHANGED <<status, process, paused, replay_recording, save_notification,
                         child, out>>
          /\ \/ UNCHANGED <<shot, shot_child, unreaped>>
             \/ shot /\ shot' = FALSE /\ shot_child' = "none" /\ unreaped' = unreaped - 1
      BY <1>2 DEF UpdateScreenshotProcessStatus, shotVars
    <2>2. SessionFlagsOK' /\ ChildrenOK'
      BY <2>1 DEF SessionInv, SessionFlagsOK, ChildrenOK
    <2>3. SessionHasItsChild'
      BY <2>1 DEF SessionInv, SessionHasItsChild
    <2>4. NoOrphanedChild'
      BY <2>1 DEF SessionInv, SessionFlagsOK, NoOrphanedChild
    <2> QED
      BY <2>1, <2>2, <2>3, <2>4 DEF SessionInv, OnlyRecordingIsPaused
  <1>3. CASE Destroy
    <2>1. /\ pc' = "done" /\ process' = FALSE /\ child' = NoChild /\ out' = <<>>
          /\ shot' = FALSE /\ shot_child' = "none"
          /\ unreaped' = unreaped - (IF process THEN 1 ELSE 0) - (IF shot THEN 1 ELSE 0)
          /\ UNCHANGED <<status, paused, replay_recording, save_notification>>
      BY <1>3 DEF Destroy
    <2>2. SessionFlagsOK' /\ ChildrenOK'
      BY <2>1, ChildTypes DEF SessionInv, SessionFlagsOK, ChildrenOK
    <2>3. SessionHasItsChild'
      BY <2>1, ChildTypes DEF SessionHasItsChild
    <2>4. NoOrphanedChild'
      BY <2>1 DEF SessionInv, SessionFlagsOK, NoOrphanedChild
    <2>5. (out \in Seq(Lines))'
      BY <2>1, EmptyPipe
    <2> QED
      BY <2>1, <2>2, <2>3, <2>4, <2>5 DEF SessionInv, OnlyRecordingIsPaused
  <1> QED
    BY <1>1, <1>2, <1>3

\* Every step keeps the session and its children in agreement.
LEMMA SessionStep ==
  ASSUME IInv, [Next]_vars
  PROVE  SessionInv'
  <1>0. SessionInv /\ hide_ui \in BOOLEAN
    BY DEF IInv, UiInv, UiFlagsOK
  <1>1. CASE UNCHANGED vars
    BY <1>0, <1>1, SessionUnchanged DEF vars, SessionInv, SessionFlagsOK, ChildrenOK,
       SessionHasItsChild, NoOrphanedChild, OnlyRecordingIsPaused
  <1>2. CASE PressCommand
    <2>1. PICK r \in Requests : UserPress(r)
      BY <1>2, PressCommandPresses
    <2>2. Press(r, FALSE) /\ pc # "done"
      BY <1>2, <2>1, PressCommandPresses DEF UserPress
    <2> QED
      BY <1>0, <2>2, PressInv
  <1>3. CASE WindowStep
    BY <1>0, <1>3, WindowStepSession, SessionUnchanged
  <1>4. CASE TakeSelection
    <2>1. pc # "done" /\ \/ UNCHANGED <<sessionVars, shotVars>>
                         \/ Press(on_region_selected, TRUE)
      BY <1>4 DEF TakeSelection, NoWindowSelected
    <2> QED
      BY <1>0, <2>1, PressInv, SessionUnchanged
  <1>5. CASE Children
    BY <1>0, <1>5, ChildrenSession
  <1>6. CASE TogglePause \/ SaveReplay \/ ProcessGsrOutput
    BY <1>0, <1>6, SignalSession
  <1>7. CASE UpdateGsrProcessStatus \/ UpdateScreenshotProcessStatus \/ Destroy
    BY <1>0, <1>7, ReapSession
  <1> QED
    BY <1>1, <1>2, <1>3, <1>4, <1>5, <1>6, <1>7, NextCases

-----------------------------------------------------------------------------
(* The steps, and the types of the window and the selector. *)

\* Leaving a settings page writes an area the settings know.
LEMMA LeaveSettingsTypes ==
  ASSUME area \in [Kinds -> Areas], LeaveSettings
  PROVE  area' \in [Kinds -> Areas]
  BY DEF LeaveSettings

\* hide() closes the window and keeps the types.
LEMMA HideUiTypes ==
  ASSUME UiInv, HideUi
  PROVE  /\ visible' = FALSE
         /\ hide_ui' \in BOOLEAN /\ reload_ui' \in BOOLEAN /\ reopen_settings' \in BOOLEAN
         /\ pages' \in 0 .. 2
         /\ area' \in [Kinds -> Areas]
  <1>1. UiFlagsOK /\ pages \in 0 .. 2 /\ area \in [Kinds -> Areas]
    BY DEF UiInv, SelectionOK
  <1>2. CASE visible
    <2>1. visible' = FALSE /\ hide_ui' = FALSE /\ reload_ui' = FALSE
          /\ reopen_settings' = FALSE /\ LeaveSettings
      BY <1>2 DEF HideUi
    <2>2. pages' \in 0 .. 2
      BY <1>2 DEF HideUi
    <2> QED
      BY <1>1, <2>1, <2>2, LeaveSettingsTypes
  <1>3. CASE ~visible
    <2>1. UNCHANGED <<visible, hide_ui, reload_ui, reopen_settings, area>>
      BY <1>3 DEF HideUi
    <2>2. pages' \in 0 .. 2
      BY <1>1, <1>3 DEF HideUi
    <2> QED
      BY <1>1, <1>3, <2>1, <2>2 DEF UiFlagsOK
  <1> QED
    BY <1>2, <1>3

\* The selector's own steps.
LEMMA SelectorTypes ==
  /\ IdleSelector \in Selector
  /\ \A type \in SelectionTypes :
       [started |-> TRUE, type |-> type, selected |-> FALSE, canceled |-> FALSE] \in Selector
  /\ \A s \in Selector, b \in BOOLEAN :
       /\ [s EXCEPT !.started = FALSE, !.selected = b, !.canceled = TRUE] \in Selector
       /\ [s EXCEPT !.started = FALSE, !.selected = b] \in Selector
       /\ [s EXCEPT !.canceled = b] \in Selector
       /\ [s EXCEPT !.selected = b] \in Selector
  BY DEF Selector, IdleSelector, SelectionTypes

\* The main loop goes from phase to phase.
LEMMA PhaseStep ==
  ASSUME pc \in Phases, [Next]_vars
  PROVE  pc' \in Phases
  <1> USE DEF Phases
  <1>1. CASE UNCHANGED vars
    BY <1>1 DEF vars
  <1>2. CASE PressCommand
    BY <1>2, PressCommandPresses DEF UserPress
  <1>3. CASE WindowStep
    BY <1>3 DEF WindowStep, CancelRegionSelection, ReloadConfig, Exit, SelectorCancels,
         SelectorSelects, KeyboardMappingChanges, Show, CloseAllPages, PopPage,
         OpenSettings, LanguageChanges, PollDone, TakeCanceled, NothingSelected,
         WindowDone, ReloadUi, HideRequested, EndOfFrame, StartRegionCapture,
         StartWindowCapture, Present
  <1>4. CASE TakeSelection
    BY <1>4 DEF TakeSelection
  <1>5. CASE Children \/ TogglePause \/ SaveReplay \/ ProcessGsrOutput
    BY <1>5 DEF Children, ChildToggles, ChildSaves, ChildExits, ShotChildExits,
         TogglePause, SaveReplay, ProcessGsrOutput
  <1>6. CASE UpdateGsrProcessStatus \/ UpdateScreenshotProcessStatus \/ Destroy
    BY <1>6 DEF UpdateGsrProcessStatus, UpdateScreenshotProcessStatus, Destroy
  <1> QED
    BY <1>1, <1>2, <1>3, <1>4, <1>5, <1>6, NextCases

\* A step that leaves the window, the selector and the settings alone.
LEMMA UiUnchanged ==
  ASSUME UiInv, pc' \in Phases, UNCHANGED <<uiVars, selectVars, area>>
  PROVE  UiInv'
  BY DEF UiInv, UiFlagsOK, SelectionOK, uiVars, selectVars

\* The steps of the children and of draw() that do not concern the window.
LEMMA SessionStepUi ==
  ASSUME UiInv, pc' \in Phases,
         \/ Children \/ TogglePause \/ SaveReplay
         \/ ProcessGsrOutput \/ UpdateGsrProcessStatus \/ UpdateScreenshotProcessStatus
         \/ PollDone \/ WindowDone
  PROVE  UiInv'
  BY UiUnchanged DEF Children, ChildToggles, ChildSaves, ChildExits, ShotChildExits,
     TogglePause, SaveReplay, ProcessGsrOutput, UpdateGsrProcessStatus,
     UpdateScreenshotProcessStatus, PollDone, WindowDone

\* A press may request a selection or ask for the window to be hidden.
LEMMA PressUi ==
  ASSUME IInv, pc' \in Phases,
         PressCommand \/ TakeSelection
  PROVE  UiInv'
  <1> USE DEF IInv, UiInv
  <1>1. CASE PressCommand
    <2>1. PICK r \in Requests : UserPress(r)
      BY <1>1, PressCommandPresses
    <2>2. hide_ui' \in BOOLEAN
      BY <1>1, <2>1, PressCommandPresses, PressInv DEF UserPress, UiFlagsOK
    <2>3. UNCHANGED <<visible, pages, reload_ui, reopen_settings, do_exit,
                      selector, escape, area>>
          /\ \/ RequestSelection(r)
             \/ UNCHANGED <<start_region, start_window, on_region_selected>>
      BY <2>1 DEF UserPress, requestVars
    <2>4. UiFlagsOK'
      BY <2>2, <2>3 DEF UiFlagsOK, RequestSelection
    <2>5. SelectionOK'
      BY <2>3 DEF SelectionOK, RequestSelection
    <2> QED
      BY <2>3, <2>4, <2>5
  <1>2. CASE TakeSelection
    <2>1. hide_ui' \in BOOLEAN
      BY <1>2, PressInv DEF TakeSelection, NoWindowSelected, UiFlagsOK
    <2>2. UNCHANGED <<visible, pages, reload_ui, reopen_settings, do_exit,
                      start_region, start_window, area>>
          /\ selector' = [selector EXCEPT !.selected = FALSE]
          /\ StopRegionSelection
      BY <1>2 DEF TakeSelection
    <2>3. UiFlagsOK'
      BY <2>1, <2>2 DEF UiFlagsOK, StopRegionSelection
    <2>4. SelectionOK'
      BY <2>2, SelectorTypes DEF SelectionOK, StopRegionSelection
    <2> QED
      BY <2>2, <2>3, <2>4
  <1> QED
    BY <1>1, <1>2

\* The window's own steps, one by one.
LEMMA WindowUi ==
  ASSUME UiInv, pc' \in Phases,
         WindowStep \/ Destroy
  PROVE  UiInv'
  <1> USE DEF uiVars, selectVars, requestVars
  <1>0. /\ UiFlagsOK /\ pages \in 0 .. 2 /\ SelectionOK
        /\ selector \in Selector /\ area \in [Kinds -> Areas]
        /\ on_region_selected \in Requests \cup {NoRequest}
    BY DEF UiInv, SelectionOK
  <1>1. CASE CancelRegionSelection \/ SelectorCancels \/ SelectorSelects
    <2>1. UNCHANGED <<uiVars, requestVars, escape, area>>
      BY <1>1 DEF CancelRegionSelection, SelectorCancels, SelectorSelects
    <2>2. selector' \in Selector
      BY <1>0, <1>1, SelectorTypes DEF CancelRegionSelection, SelectorCancels, SelectorSelects
    <2> QED
      BY <1>0, <2>1, <2>2 DEF UiInv, UiFlagsOK, SelectionOK
  <1>2. CASE ReloadConfig \/ Exit \/ KeyboardMappingChanges
    <2>1. UNCHANGED <<pages, visible, hide_ui, reload_ui, reopen_settings,
                      requestVars, selector>>
      BY <1>2 DEF ReloadConfig, Exit, KeyboardMappingChanges
    <2>2. area' \in [Kinds -> Areas]
      BY <1>0, <1>2 DEF ReloadConfig, Exit, KeyboardMappingChanges
    <2>3. do_exit' \in BOOLEAN /\ escape' \in BOOLEAN
      BY <1>0, <1>2 DEF ReloadConfig, Exit, KeyboardMappingChanges, RebindHotkeys, UiFlagsOK
    <2> QED
      BY <1>0, <2>1, <2>2, <2>3 DEF UiInv, UiFlagsOK, SelectionOK
  <1>3. CASE Show \/ CloseAllPages \/ PopPage \/ OpenSettings \/ LanguageChanges \/ ReloadUi
    <2>1. UNCHANGED <<hide_ui, do_exit, selectVars>>
      BY <1>3 DEF Show, CloseAllPages, PopPage, OpenSettings, LanguageChanges, ReloadUi
    <2>2. area' \in [Kinds -> Areas]
      BY <1>0, <1>3, LeaveSettingsTypes
      DEF Show, CloseAllPages, PopPage, OpenSettings, LanguageChanges, ReloadUi
    <2>3. visible' \in BOOLEAN /\ reload_ui' \in BOOLEAN /\ reopen_settings' \in BOOLEAN
      BY <1>0, <1>3
      DEF Show, CloseAllPages, PopPage, OpenSettings, LanguageChanges, ReloadUi, UiFlagsOK
    <2>4. pages' \in 0 .. 2
      BY <1>0, <1>3 DEF Show, CloseAllPages, PopPage, OpenSettings, LanguageChanges, ReloadUi
    <2> QED
      BY <1>0, <2>1, <2>2, <2>3, <2>4 DEF UiInv, UiFlagsOK, SelectionOK
  <1>4. CASE PollDone \/ WindowDone
    BY <1>4, SessionStepUi
  <1>5. CASE TakeCanceled \/ NothingSelected
    <2>1. UNCHANGED <<uiVars, start_region, start_window, area>>
      BY <1>5 DEF TakeCanceled, NothingSelected
    <2>2. selector' \in Selector
      BY <1>0, <1>5, SelectorTypes DEF TakeCanceled, NothingSelected
    <2>3. on_region_selected' \in Requests \cup {NoRequest}
      BY <1>0, <1>5 DEF TakeCanceled, NothingSelected, StopRegionSelection
    <2>4. escape' \in BOOLEAN
      BY <1>0, <1>5 DEF TakeCanceled, NothingSelected, StopRegionSelection, UiFlagsOK
    <2> QED
      BY <1>0, <2>1, <2>2, <2>3, <2>4 DEF UiInv, UiFlagsOK, SelectionOK
  <1>6. CASE HideRequested
    <2>1. UNCHANGED <<do_exit, on_region_selected, selector, escape>>
          /\ area' \in [Kinds -> Areas]
      BY <1>0, <1>6, LeaveSettingsTypes DEF HideRequested
    <2>2. UiFlagsOK'
      BY <1>0, <1>6 DEF HideRequested, UiFlagsOK
    <2>3. pages' \in 0 .. 2
      BY <1>0, <1>6 DEF HideRequested
    <2> QED
      BY <1>0, <2>1, <2>2, <2>3 DEF UiInv, SelectionOK
  <1>7. CASE Hide /\ UNCHANGED <<do_exit, on_region_selected, escape>> /\ selector' \in Selector
    <2>1. HideUi /\ start_region' \in BOOLEAN /\ start_window' \in BOOLEAN
      BY <1>0, <1>7 DEF Hide, UiFlagsOK
    <2> QED
      BY <1>0, <1>7, <2>1, HideUiTypes DEF UiInv, UiFlagsOK, SelectionOK
  <1>8. CASE Present
    <2>1. CASE Hide
      BY <1>0, <1>7, <1>8, <2>1 DEF Present
    <2>2. CASE ~Hide
      BY <1>8, <2>2, UiUnchanged DEF Present
    <2> QED
      BY <2>1, <2>2
  <1>9. CASE Destroy
    BY <1>0, <1>7, <1>9, SelectorTypes DEF Destroy
  <1>10. CASE /\ HideUi /\ UNCHANGED do_exit
              /\ start_region' \in BOOLEAN /\ start_window' \in BOOLEAN
              /\ \E type \in {"REGION", "WINDOW"} : StartSelector(type)
    <2>1. PICK type \in {"REGION", "WINDOW"} : StartSelector(type)
      BY <1>10
    <2>2. selector' \in Selector
      BY <1>0, <2>1, SelectorTypes DEF StartSelector, SelectionTypes
    <2>3. on_region_selected' \in Requests \cup {NoRequest}
      BY <1>0, <2>1 DEF StartSelector
    <2>4. escape' \in BOOLEAN
      BY <2>1 DEF StartSelector, RebindHotkeys
    <2> QED
      BY <1>0, <1>10, <2>2, <2>3, <2>4, HideUiTypes DEF UiInv, UiFlagsOK, SelectionOK
  <1>11. CASE StartRegionCapture
    <2>1. CASE start_region
      BY <1>0, <1>10, <1>11, <2>1 DEF StartRegionCapture, UiFlagsOK
    <2>2. CASE ~start_region
      BY <1>11, <2>2, UiUnchanged DEF StartRegionCapture
    <2> QED
      BY <2>1, <2>2
  <1>12. CASE StartWindowCapture
    <2>1. CASE start_window
      BY <1>0, <1>10, <1>12, <2>1 DEF StartWindowCapture, UiFlagsOK
    <2>2. CASE ~start_window
      BY <1>12, <2>2, UiUnchanged DEF StartWindowCapture
    <2> QED
      BY <2>1, <2>2
  <1> QED
    BY <1>1, <1>2, <1>3, <1>4, <1>5, <1>6, <1>8, <1>9, <1>11, <1>12 DEF WindowStep

-----------------------------------------------------------------------------
(* The invariants of the specification. *)

\* Every step keeps the inductive invariant.
LEMMA StepInv == IInv /\ [Next]_vars => IInv'
  <1> SUFFICES ASSUME IInv, [Next]_vars PROVE IInv'
    OBVIOUS
  <1>1. SessionInv'
    BY SessionStep
  <1>2. pc' \in Phases
    BY PhaseStep DEF IInv, UiInv
  <1>3. UiInv'
    <2>1. CASE UNCHANGED vars
      BY <1>2, <2>1, UiUnchanged DEF IInv, vars, uiVars, selectVars
    <2>2. CASE \/ Children \/ TogglePause \/ SaveReplay \/ ProcessGsrOutput
               \/ UpdateGsrProcessStatus \/ UpdateScreenshotProcessStatus
      BY <1>2, <2>2, SessionStepUi DEF IInv
    <2>3. CASE PressCommand \/ TakeSelection
      BY <1>2, <2>3, PressUi
    <2>4. CASE WindowStep \/ Destroy
      BY <1>2, <2>4, WindowUi DEF IInv
    <2> QED
      BY <2>1, <2>2, <2>3, <2>4, NextCases
  <1> QED
    BY <1>1, <1>3 DEF IInv

\* The inductive invariant holds throughout.
THEOREM Inductive == Spec => []IInv
  BY InitInv, StepInv, PTL DEF Spec

\* Every variable keeps its type, and no more than two gpu-screen-recorder
\* children ever exist, for every order of presses, selections and exits.
THEOREM TypeCorrect == Spec => []TypeOK
  BY Inductive, TypeInv, PTL

\* The recording status, the pid and the child agree in every phase: the handlers
\* and update_gsr_process_status never leave a session without a child.
THEOREM SessionsHaveChildren == Spec => []SessionHasItsChild
  <1>1. IInv => SessionHasItsChild
    BY DEF IInv, SessionInv
  <1> QED
    BY <1>1, Inductive, PTL

\* Every gpu-screen-recorder is waited for: none is forgotten by a handler, and
\* the destructor leaves none.
THEOREM NoChildIsOrphaned == Spec => []NoOrphanedChild
  <1>1. IInv => NoOrphanedChild
    BY DEF IInv, SessionInv
  <1> QED
    BY <1>1, Inductive, PTL

\* No replay or stream begins with the pause of an earlier recording.
THEOREM PauseIsOfRecording == Spec => []OnlyRecordingIsPaused
  <1>1. IInv => OnlyRecordingIsPaused
    BY DEF IInv, SessionInv
  <1> QED
    BY <1>1, Inductive, PTL

-----------------------------------------------------------------------------
(* The region selector: who holds the input, and who may leave a selection. *)
(* The three invariants are proved together, with the fact that the two     *)
(* capture requests of a frame are taken one after the other.               *)

\* The region capture is taken before the window capture is looked at.
RegionFirst == pc = "window_capture" => ~start_region

SelectInv ==
    /\ NeverSelectingBehindOverlay
    /\ NoRequestWhileSelecting
    /\ EscapeFollowsRequest
    /\ RegionFirst

\* Nothing is selected or requested when the program starts.
LEMMA SelectInit == Init => SelectInv
  BY DEF Init, SelectInv, NeverSelectingBehindOverlay, NoRequestWhileSelecting,
         EscapeFollowsRequest, RegionFirst, IdleSelector

\* A request names a kind of capture.
LEMMA RequestIsOne == NoRequest \notin Requests
  BY DEF NoRequest, Requests, Kinds, Sessions

\* A step that leaves the window and the selector alone, outside the captures.
LEMMA SelectUnchanged ==
  ASSUME SelectInv, UNCHANGED visible, UNCHANGED selectVars,
         \/ pc' = pc
         \/ pc \notin {"region_capture", "window_capture"} /\ pc' # "window_capture"
  PROVE  SelectInv'
  BY DEF SelectInv, NeverSelectingBehindOverlay, NoRequestWhileSelecting,
         EscapeFollowsRequest, RegionFirst, selectVars

\* A press requests a selection only when none is running.
LEMMA PressSelect ==
  ASSUME SelectInv, selector \in Selector, PressCommand \/ TakeSelection
  PROVE  SelectInv'
  <1> USE DEF SelectInv, NeverSelectingBehindOverlay, NoRequestWhileSelecting,
              EscapeFollowsRequest, RegionFirst
  <1>1. CASE PressCommand
    <2>1. PICK r \in Requests : UserPress(r)
      BY <1>1, PressCommandPresses
    <2>2. UNCHANGED <<pc, visible, selector, escape>> /\ pc \in {"poll", "window"}
      BY <1>1, <2>1, PressCommandPresses DEF UserPress
    <2>3. CASE NeedsSelection(r) /\ RequestSelection(r)
      <3>1. ~selector.started
        BY <2>3 DEF NeedsSelection, PressIgnored
      <3>2. on_region_selected' # NoRequest
        BY <2>3, RequestIsOne DEF RequestSelection
      <3> QED
        BY <2>2, <3>1, <3>2
    <2>4. CASE UNCHANGED requestVars
      BY <2>2, <2>4 DEF requestVars
    <2> QED
      BY <2>1, <2>3, <2>4 DEF UserPress
  <1>2. CASE TakeSelection
    <2>1. /\ pc = "selection" /\ pc' = "window"
          /\ UNCHANGED <<visible, start_region, start_window>>
          /\ on_region_selected' = NoRequest
          /\ escape' = (escape /\ on_region_selected = NoRequest)
      BY <1>2 DEF TakeSelection, StopRegionSelection
    <2>2. selector'.started = selector.started
      BY <1>2 DEF TakeSelection, Selector
    <2> QED
      BY <2>1, <2>2
  <1> QED
    BY <1>1, <1>2

\* The window's own steps, one by one.
LEMMA WindowSelect ==
  ASSUME SelectInv, UiInv, WindowStep \/ Destroy
  PROVE  SelectInv'
  <1> USE DEF SelectInv, NeverSelectingBehindOverlay, NoRequestWhileSelecting,
              EscapeFollowsRequest, RegionFirst
  <1>0. selector \in Selector
    BY DEF UiInv, SelectionOK
  <1>1. CASE CancelRegionSelection \/ SelectorCancels \/ SelectorSelects
    <2>1. UNCHANGED <<pc, visible, requestVars, escape>> /\ pc \in {"poll", "selection"}
      BY <1>1 DEF CancelRegionSelection, SelectorCancels, SelectorSelects, uiVars
    <2>2. ~selector'.started
      BY <1>0, <1>1 DEF CancelRegionSelection, SelectorCancels, SelectorSelects, Selector
    <2> QED
      BY <2>1, <2>2 DEF requestVars
  <1>2. CASE KeyboardMappingChanges
    BY <1>2 DEF KeyboardMappingChanges, RebindHotkeys, uiVars, requestVars
  <1>3. CASE Show
    BY <1>3 DEF Show, Polled, selectVars
  <1>4. CASE \/ ReloadConfig \/ Exit \/ CloseAllPages \/ PopPage \/ OpenSettings
             \/ LanguageChanges \/ PollDone \/ WindowDone \/ ReloadUi
    <2>1. visible' = visible
      BY <1>4 DEF ReloadConfig, Exit, CloseAllPages, PopPage, OpenSettings,
         LanguageChanges, PollDone, WindowDone, ReloadUi, uiVars
    <2>2. UNCHANGED selectVars
      BY <1>4 DEF ReloadConfig, Exit, CloseAllPages, PopPage, OpenSettings,
         LanguageChanges, PollDone, WindowDone, ReloadUi
    <2>3. pc' = pc \/ (pc \in {"poll", "window", "reload"} /\ pc' # "window_capture")
      BY <1>4 DEF ReloadConfig, Exit, CloseAllPages, PopPage, OpenSettings,
         LanguageChanges, PollDone, WindowDone, ReloadUi
    <2> QED
      BY <2>1, <2>2, <2>3, SelectUnchanged
  <1>5. CASE TakeCanceled \/ NothingSelected
    <2>1. /\ pc = "selection" /\ pc' = "window"
          /\ UNCHANGED <<visible, start_region, start_window>>
          /\ \/ UNCHANGED <<on_region_selected, escape>>
             \/ StopRegionSelection
      BY <1>5 DEF TakeCanceled, NothingSelected, uiVars, requestVars
    <2>2. selector'.started <=> selector.started
      BY <1>0, <1>5 DEF TakeCanceled, NothingSelected, Selector
    <2>3. CASE UNCHANGED <<on_region_selected, escape>>
      BY <2>1, <2>2, <2>3
    <2>4. CASE StopRegionSelection
      BY <2>1, <2>2, <2>4 DEF StopRegionSelection
    <2> QED
      BY <2>1, <2>3, <2>4
  <1>6. CASE HideRequested
    BY <1>6 DEF HideRequested, EndOfFrame
  <1>7. CASE StartRegionCapture
    <2>1. CASE start_region
      <3>1. visible' = FALSE
        BY <1>7, <2>1, HideUiTypes DEF StartRegionCapture
      <3>2. pc = "region_capture" /\ pc' = "window_capture" /\ start_region' = FALSE
            /\ StartSelector("REGION")
        BY <1>7, <2>1 DEF StartRegionCapture
      <3> QED
        BY <1>0, <3>1, <3>2 DEF StartSelector, RebindHotkeys
    <2>2. CASE ~start_region
      BY <1>7, <2>2 DEF StartRegionCapture, selectVars
    <2> QED
      BY <2>1, <2>2
  <1>8. CASE StartWindowCapture
    <2>1. CASE start_window
      <3>1. visible' = FALSE
        BY <1>8, <2>1, HideUiTypes DEF StartWindowCapture
      <3>2. pc = "window_capture" /\ pc' = "present" /\ start_window' = FALSE
            /\ ~start_region' /\ StartSelector("WINDOW")
        BY <1>8, <2>1 DEF StartWindowCapture
      <3> QED
        BY <1>0, <3>1, <3>2 DEF StartSelector, RebindHotkeys
    <2>2. CASE ~start_window
      BY <1>8, <2>2 DEF StartWindowCapture, selectVars
    <2> QED
      BY <2>1, <2>2
  <1>9. CASE Present
    BY <1>9 DEF Present, EndOfFrame, Hide, HideUi
  <1>10. CASE Destroy
    BY <1>10 DEF Destroy, Hide, HideUi, IdleSelector
  <1> QED
    BY <1>1, <1>2, <1>3, <1>4, <1>5, <1>6, <1>7, <1>8, <1>9, <1>10 DEF WindowStep

\* Every step keeps the selector's invariants.
LEMMA SelectStep == IInv /\ SelectInv /\ [Next]_vars => SelectInv'
  <1> SUFFICES ASSUME IInv, SelectInv, [Next]_vars PROVE SelectInv'
    OBVIOUS
  <1>0. UiInv /\ selector \in Selector
    BY DEF IInv, UiInv, SelectionOK
  <1>1. CASE UNCHANGED vars
    <2>1. UNCHANGED <<pc, visible>> /\ UNCHANGED selectVars
      BY <1>1 DEF vars, selectVars
    <2> QED
      BY <2>1, SelectUnchanged
  <1>2. CASE PressCommand \/ TakeSelection
    BY <1>0, <1>2, PressSelect
  <1>3. CASE WindowStep \/ Destroy
    BY <1>0, <1>3, WindowSelect
  <1>4. CASE \/ Children \/ TogglePause \/ SaveReplay \/ ProcessGsrOutput
             \/ UpdateGsrProcessStatus \/ UpdateScreenshotProcessStatus
    <2>1. UNCHANGED uiVars /\ UNCHANGED selectVars
      BY <1>4 DEF Children, ChildToggles, ChildSaves, ChildExits, ShotChildExits,
         TogglePause, SaveReplay, ProcessGsrOutput, UpdateGsrProcessStatus,
         UpdateScreenshotProcessStatus
    <2>2. pc' = pc \/ (pc \in {"output", "reap", "shot"} /\ pc' # "window_capture")
      BY <1>4 DEF Children, ChildToggles, ChildSaves, ChildExits, ShotChildExits,
         TogglePause, SaveReplay, ProcessGsrOutput, UpdateGsrProcessStatus,
         UpdateScreenshotProcessStatus
    <2> QED
      BY <2>1, <2>2, SelectUnchanged DEF uiVars
  <1> QED
    BY <1>1, <1>2, <1>3, <1>4, NextCases

\* The selector's invariants hold throughout.
LEMMA SelectAlways == Spec => []SelectInv
  <1>1. Init => SelectInv
    BY SelectInit
  <1> QED
    BY <1>1, SelectStep, Inductive, PTL DEF Spec

\* show() and the captures of draw() never leave the overlay and the selector
\* with the input at the same time.
THEOREM SelectorHasTheInput == Spec => []NeverSelectingBehindOverlay
  <1>1. SelectInv => NeverSelectingBehindOverlay
    BY DEF SelectInv
  <1> QED
    BY <1>1, SelectAlways, PTL

\* The handlers request no capture while one is being selected for.
THEOREM OneRequestAtATime == Spec => []NoRequestWhileSelecting
  <1>1. SelectInv => NoRequestWhileSelecting
    BY DEF SelectInv
  <1> QED
    BY <1>1, SelectAlways, PTL

\* Escape is bound exactly as long as a request waits for a running selection.
THEOREM EscapeIsOurs == Spec => []EscapeFollowsRequest
  <1>1. SelectInv => EscapeFollowsRequest
    BY DEF SelectInv
  <1> QED
    BY <1>1, SelectAlways, PTL

-----------------------------------------------------------------------------
(* Overlay implements Capture.  Each step of the overlay is matched with    *)
(* the step of Capture it takes: a handler that stops a child with Stop,    *)
(* one that launches a child with Start, and so on; the steps that change   *)
(* neither a child nor the selector are stuttering steps.                   *)

\* A program that starts has nothing to capture.
LEMMA CaptureInit == Init => C!Init
  BY DEF Init, C!Init, Session, Alive, Paused, Screenshot, Selecting, NoChild, IdleSelector

\* A step that leaves both children, the pause and the selector alone.
LEMMA CaptureUnchanged ==
  ASSUME UNCHANGED <<status, process, paused, shot>>,
         Alive' = Alive, Selecting' = Selecting
  PROVE  UNCHANGED C!vars
  <1>1. UNCHANGED Session
    BY DEF Session
  <1>2. UNCHANGED Paused
    BY DEF Paused
  <1>3. UNCHANGED Screenshot
    BY DEF Screenshot
  <1> QED
    BY <1>1, <1>2, <1>3 DEF C!vars

\* Stopping a session, by the user: the child is killed and waited for.
LEMMA CaptureStop ==
  ASSUME SessionInv, pc # "done", ~Selecting, process, StopChild, status' = "NONE",
         UNCHANGED <<shot, Selecting>>
  PROVE  C!Stop
  <1>1. Session # "NONE"
    BY DEF Session, SessionInv, SessionHasItsChild
  <1>2. Session' = "NONE" /\ Alive' = FALSE /\ Paused' = FALSE
    BY ChildTypes DEF Session, Alive, Paused, StopChild
  <1>3. UNCHANGED <<Screenshot, Selecting>>
    BY DEF Screenshot
  <1> QED
    BY <1>1, <1>2, <1>3 DEF C!Stop

\* Launching a session: there is none, and nothing is being selected.
LEMMA CaptureStart ==
  ASSUME ~process, ~Selecting, NEW s \in Sessions, LaunchSession(s), paused' = FALSE,
         UNCHANGED <<shot, Selecting>>
  PROVE  C!Start(s)
  <1>1. Session = "NONE"
    BY DEF Session
  <1>2. Session' = s /\ Alive' = TRUE /\ Paused' = FALSE
    BY ChildTypes DEF Session, Alive, Paused, LaunchSession
  <1>3. UNCHANGED <<Screenshot, Selecting>>
    BY DEF Screenshot
  <1> QED
    BY <1>1, <1>2, <1>3 DEF C!Start

\* A handler takes one step of Capture: it stops a session, starts one, or takes a
\* screenshot; the other outcomes leave the captures as they are.
LEMMA PressCapture ==
  ASSUME SessionInv, pc # "done", NEW r, NEW finished, Press(r, finished),
         UNCHANGED Selecting
  PROVE  C!Next \/ UNCHANGED C!vars
  <1> USE DEF Sessions
  <1>1. CASE UNCHANGED <<sessionVars, shotVars, hide_ui>>
    BY <1>1, CaptureUnchanged DEF sessionVars, shotVars, Alive
  <1>2. CASE ~selector.started /\ UNCHANGED shotVars /\ (StopReplay \/ StopRecord \/ StopStream)
    <2>1. process /\ StopChild /\ status' = "NONE" /\ UNCHANGED shot /\ ~Selecting
      BY <1>2 DEF StopReplay, StopRecord, StopStream, Selecting, shotVars
    <2> QED
      BY <2>1, CaptureStop DEF C!Next
  <1>3. CASE ~selector.started /\ UNCHANGED shotVars
             /\ \/ StartReplay(finished)
                \/ StartRecord(finished, r.force)
                \/ StartStream(finished)
    <2>1. ~process /\ paused' = FALSE /\ UNCHANGED shot /\ ~Selecting
      BY <1>3 DEF StartReplay, StartRecord, StartStream, Selecting, shotVars
    <2>2. CASE NoSessionChange
      <3>1. Session' = Session /\ Paused' = FALSE /\ Paused = FALSE
        BY <2>1, <2>2 DEF NoSessionChange, Session, Paused
      <3>2. Alive' = Alive /\ UNCHANGED Screenshot
        BY <2>1, <2>2 DEF NoSessionChange, Alive, Screenshot
      <3> QED
        BY <3>1, <3>2 DEF C!vars
    <2>3. CASE \E s \in Sessions : LaunchSession(s)
      <3>1. PICK s \in Sessions : LaunchSession(s)
        BY <2>3
      <3>2. C!Start(s)
        BY <2>1, <3>1, CaptureStart
      <3> QED
        BY <3>2 DEF C!Next
    <2>4. NoSessionChange \/ \E s \in Sessions : LaunchSession(s)
      BY <1>3 DEF StartReplay, StartRecord, StartStream
    <2> QED
      BY <2>2, <2>3, <2>4
  <1>4. CASE ToggleRecordInSession /\ UNCHANGED shotVars
    <2>1. UNCHANGED <<status, process, shot>> /\ status # "RECORD"
      BY <1>4 DEF ToggleRecordInSession, shotVars
    <2>2. child \in Child
      BY DEF SessionInv, ChildrenOK
    <2>3. Alive' = Alive
      BY <1>4, <2>2, SignalTypes DEF ToggleRecordInSession, Alive
    <2>4. Session' = Session /\ Paused' = FALSE /\ Paused = FALSE /\ UNCHANGED Screenshot
      BY <2>1 DEF Session, Paused, Screenshot
    <2> QED
      BY <2>3, <2>4 DEF C!vars
  <1>5. CASE PressTakeScreenshot(finished, r.force)
    <2>1. ~Selecting /\ ~shot
          /\ UNCHANGED <<status, process, paused, child>>
          /\ (shot' = TRUE \/ UNCHANGED shot)
      BY <1>5 DEF PressTakeScreenshot, Selecting, shotVars
    <2>2. CASE UNCHANGED shot
      BY <2>1, <2>2, CaptureUnchanged DEF Alive
    <2>3. CASE shot' = TRUE
      <3>1. UNCHANGED <<Session, Alive, Paused>>
        BY <2>1 DEF Session, Alive, Paused
      <3> QED
        BY <2>1, <2>3, <3>1 DEF C!Next, C!TakeScreenshot, Screenshot
    <2> QED
      BY <2>1, <2>2, <2>3
  <1> QED
    BY <1>1, <1>2, <1>3, <1>4, <1>5
    DEF Press, PressStartReplay, PressStartRecord, PressStartStream

\* The children's own steps: Exit, when the session's child ends.
LEMMA ChildrenCapture ==
  ASSUME SessionInv, Children
  PROVE  C!Next \/ UNCHANGED C!vars
  <1>0. child \in Child
    BY DEF SessionInv, ChildrenOK
  <1>1. UNCHANGED <<status, process, paused, shot, selector>>
    BY DEF Children, ChildToggles, ChildSaves, ChildExits, ShotChildExits,
       sessionVars, shotVars, selectVars
  <1>2. UNCHANGED Selecting
    BY <1>1 DEF Selecting
  <1>3. CASE ChildExits
    <2>1. Alive = TRUE /\ Alive' = FALSE
      BY <1>3 DEF ChildExits, Alive, NoChild
    <2>2. UNCHANGED <<Session, Paused, Screenshot>>
      BY <1>1 DEF Session, Paused, Screenshot
    <2> QED
      BY <1>2, <2>1, <2>2 DEF C!Next, C!Exit
  <1>4. CASE ChildToggles \/ ChildSaves \/ ShotChildExits
    <2>1. child'.state = child.state
      <3>1. CASE ChildToggles
        BY <1>0, <3>1, HandledTypes DEF ChildToggles
      <3>2. CASE ChildSaves
        BY <1>0, <3>2 DEF ChildSaves, Child
      <3>3. CASE ShotChildExits
        BY <3>3 DEF ShotChildExits, sessionVars
      <3> QED
        BY <1>4, <3>1, <3>2, <3>3
    <2>2. Alive' = Alive
      BY <2>1 DEF Alive
    <2> QED
      BY <1>1, <1>2, <2>2, CaptureUnchanged
  <1> QED
    BY <1>3, <1>4 DEF Children

\* TogglePause, also when the overlay reads that a recording was saved.
LEMMA SignalCapture ==
  ASSUME SessionInv, TogglePause \/ SaveReplay \/ ProcessGsrOutput
  PROVE  C!Next \/ UNCHANGED C!vars
  <1>0. child \in Child /\ paused \in BOOLEAN /\ paused' \in BOOLEAN
    BY SignalSession DEF SessionInv, ChildrenOK, SessionFlagsOK
  <1>1. UNCHANGED <<status, process, shot, selector>>
    BY DEF TogglePause, SaveReplay, ProcessGsrOutput, shotVars, selectVars
  <1>2. UNCHANGED <<Session, Screenshot, Selecting>>
    BY <1>1 DEF Session, Screenshot, Selecting
  <1>3. Alive' = Alive
    <2>1. CASE SaveReplay
      BY <1>0, <2>1, SignalTypes DEF SaveReplay, Alive
    <2>2. CASE TogglePause \/ ProcessGsrOutput
      BY <2>2 DEF TogglePause, ProcessGsrOutput, Alive
    <2> QED
      BY <2>1, <2>2
  <1>4. CASE paused' = paused
    BY <1>1, <1>2, <1>3, <1>4, CaptureUnchanged
  <1>5. CASE paused' = ~paused
    <2>1. CASE status = "RECORD" /\ process
      <3>1. Session = "RECORD" /\ Paused' = ~Paused
        BY <1>1, <1>5, <2>1 DEF Session, Paused
      <3> QED
        BY <1>2, <1>3, <3>1 DEF C!Next, C!TogglePause
    <2>2. CASE ~(status = "RECORD" /\ process)
      <3>1. Paused' = FALSE /\ Paused = FALSE
        BY <1>1, <2>2 DEF Paused
      <3> QED
        BY <1>2, <1>3, <3>1 DEF C!vars
    <2> QED
      BY <2>1, <2>2
  <1> QED
    BY <1>0, <1>4, <1>5

\* Die, ScreenshotTaken and End: children that are gone are waited for.
LEMMA ReapCapture ==
  ASSUME SessionInv,
         UpdateGsrProcessStatus \/ UpdateScreenshotProcessStatus \/ Destroy
  PROVE  C!Next \/ UNCHANGED C!vars
  <1>1. CASE UpdateGsrProcessStatus
    <2>1. pc # "done" /\ UNCHANGED <<shot, selector>>
      BY <1>1 DEF UpdateGsrProcessStatus, shotVars, selectVars
    <2>2. CASE process /\ child.state = "exited" /\ SessionEnds
      <3>1. Session # "NONE" /\ Alive = FALSE
        BY <2>1, <2>2 DEF Session, Alive, SessionInv, SessionHasItsChild
      <3>2. Session' = "NONE" /\ Alive' = FALSE /\ Paused' = FALSE
        BY <2>2, ChildTypes DEF SessionEnds, StopChild, Session, Alive, Paused
      <3>3. UNCHANGED <<Screenshot, Selecting>>
        BY <2>1 DEF Screenshot, Selecting
      <3> QED
        BY <3>1, <3>2, <3>3 DEF C!Next, C!Die
    <2>3. CASE UNCHANGED sessionVars
      BY <2>1, <2>3, CaptureUnchanged DEF sessionVars, Alive, Selecting
    <2> QED
      BY <1>1, <2>2, <2>3 DEF UpdateGsrProcessStatus
  <1>2. CASE UpdateScreenshotProcessStatus
    <2>1. UNCHANGED <<status, process, paused, child, selector>>
          /\ (shot' = shot \/ (shot /\ shot' = FALSE))
      BY <1>2 DEF UpdateScreenshotProcessStatus, shotVars, selectVars
    <2>2. UNCHANGED <<Session, Alive, Paused, Selecting>>
      BY <2>1 DEF Session, Alive, Paused, Selecting
    <2> QED
      BY <2>1, <2>2 DEF C!Next, C!ScreenshotTaken, C!vars, Screenshot
  <1>3. CASE Destroy
    <2>1. /\ Session' = "NONE" /\ Alive' = FALSE /\ Paused' = FALSE
          /\ Screenshot' = FALSE /\ Selecting' = FALSE
      BY <1>3, ChildTypes
      DEF Destroy, Session, Alive, Paused, Screenshot, Selecting, IdleSelector
    <2> QED
      BY <2>1 DEF C!Next, C!End
  <1> QED
    BY <1>1, <1>2, <1>3

\* Every step is a step of Capture or a stutter.
LEMMA CaptureStep == IInv /\ IInv' /\ [Next]_vars => [C!Next]_C!vars
  <1> SUFFICES ASSUME IInv, IInv', [Next]_vars PROVE C!Next \/ UNCHANGED C!vars
    OBVIOUS
  <1>0. SessionInv /\ Selecting \in BOOLEAN /\ Selecting' \in BOOLEAN
    BY DEF IInv, UiInv, SelectionOK, Selector, Selecting
  <1>1. CASE UNCHANGED vars
    BY <1>1, CaptureUnchanged DEF vars, Alive, Selecting
  <1>2. CASE PressCommand
    <2>1. PICK r \in Requests : UserPress(r)
      BY <1>2, PressCommandPresses
    <2>2. Press(r, FALSE) /\ pc # "done" /\ UNCHANGED Selecting
      BY <1>2, <2>1, PressCommandPresses DEF UserPress, Selecting
    <2> QED
      BY <1>0, <2>2, PressCapture
  <1>3. CASE WindowStep
    <2>1. UNCHANGED <<status, process, paused, child, shot>>
      BY <1>3, WindowStepSession DEF sessionVars, shotVars
    <2>2. UNCHANGED <<Session, Alive, Paused, Screenshot>>
      BY <2>1 DEF Session, Alive, Paused, Screenshot
    <2>3. Selecting' = Selecting \/ Selecting' = ~Selecting
      BY <1>0
    <2> QED
      BY <2>2, <2>3 DEF C!Next, C!Select, C!vars
  <1>4. CASE TakeSelection
    <2>1. pc # "done" /\ UNCHANGED Selecting
      BY <1>4 DEF TakeSelection, Selecting, IInv, UiInv, SelectionOK, Selector
    <2>2. \/ UNCHANGED <<sessionVars, shotVars>>
          \/ Press(on_region_selected, TRUE)
      BY <1>4 DEF TakeSelection, NoWindowSelected
    <2>3. CASE UNCHANGED <<sessionVars, shotVars>>
      BY <2>1, <2>3, CaptureUnchanged DEF sessionVars, shotVars, Alive
    <2> QED
      BY <1>0, <2>1, <2>2, <2>3, PressCapture
  <1>5. CASE Children
    BY <1>0, <1>5, ChildrenCapture
  <1>6. CASE TogglePause \/ SaveReplay \/ ProcessGsrOutput
    BY <1>0, <1>6, SignalCapture
  <1>7. CASE UpdateGsrProcessStatus \/ UpdateScreenshotProcessStatus \/ Destroy
    BY <1>0, <1>7, ReapCapture
  <1> QED
    BY <1>1, <1>2, <1>3, <1>4, <1>5, <1>6, <1>7, NextCases

\* The overlay keeps what Capture promises: one session at a time, never replaced
\* without having ended, begun unpaused, and nothing begun during a selection.
THEOREM CaptureImplemented == Spec => ImplementsCapture
  BY CaptureInit, CaptureStep, Inductive, PTL DEF Spec, C!Spec, ImplementsCapture
=============================================================================
