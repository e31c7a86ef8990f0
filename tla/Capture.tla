------------------------------- MODULE Capture -------------------------------
(***************************************************************************)
(* What gsr-ui promises about captures, whatever the order of commands,    *)
(* clicks, selections and exits of gpu-screen-recorder: there is one       *)
(* session at a time, it is never replaced without having ended, it begins *)
(* unpaused, only a recording is paused, there is one screenshot at a      *)
(* time, and while the user selects a region or a window nothing starts    *)
(* and a session ends only when its gpu-screen-recorder is gone.           *)
(***************************************************************************)
CONSTANT Sessions  \* the kinds of session

VARIABLES
    session,     \* the running session, or "NONE"
    alive,       \* its gpu-screen-recorder is running
    paused,      \* the recording is paused
    screenshot,  \* a screenshot is being taken
    selecting    \* a region or window is being selected

vars == <<session, alive, paused, screenshot, selecting>>

Init ==
    /\ session = "NONE"
    /\ alive = FALSE
    /\ paused = FALSE
    /\ screenshot = FALSE
    /\ selecting = FALSE

Start(s) ==
    /\ session = "NONE" /\ ~selecting
    /\ session' = s
    /\ alive' = TRUE
    /\ paused' = FALSE
    /\ UNCHANGED <<screenshot, selecting>>

\* The user ends the session.
Stop ==
    /\ session # "NONE" /\ ~selecting
    /\ session' = "NONE" /\ alive' = FALSE
    /\ paused' = FALSE
    /\ UNCHANGED <<screenshot, selecting>>

\* gpu-screen-recorder ends by itself, and later the session with it.
Exit ==
    /\ alive /\ alive' = FALSE
    /\ UNCHANGED <<session, paused, screenshot, selecting>>

Die ==
    /\ session # "NONE" /\ ~alive
    /\ session' = "NONE"
    /\ paused' = FALSE
    /\ UNCHANGED <<alive, screenshot, selecting>>

TogglePause ==
    /\ session = "RECORD"
    /\ paused' = ~paused
    /\ UNCHANGED <<session, alive, screenshot, selecting>>

TakeScreenshot ==
    /\ ~screenshot /\ ~selecting
    /\ screenshot' = TRUE
    /\ UNCHANGED <<session, alive, paused, selecting>>

ScreenshotTaken ==
    /\ screenshot
    /\ screenshot' = FALSE
    /\ UNCHANGED <<session, alive, paused, selecting>>

Select ==
    /\ selecting' = ~selecting
    /\ UNCHANGED <<session, alive, paused, screenshot>>

\* The program ends, and everything with it.
End ==
    /\ session' = "NONE" /\ alive' = FALSE /\ paused' = FALSE
    /\ screenshot' = FALSE /\ selecting' = FALSE

Next ==
    \/ \E s \in Sessions : Start(s)
    \/ Stop \/ Exit \/ Die \/ TogglePause
    \/ TakeScreenshot \/ ScreenshotTaken
    \/ Select \/ End

Spec == Init /\ [][Next]_vars
=============================================================================
