------------------------------- MODULE MCFrames -------------------------------
(***************************************************************************)
(* The list of recent videos and the replay that turns itself on, in one   *)
(* run: the frames of the overlay take what the loader thread and the game *)
(* tracker made meanwhile.  A behaviour follows one of them, and the other *)
(* rests as it started.  They share no variable.                           *)
(***************************************************************************)
EXTENDS RecentVideos, ReplayAutostart

VARIABLE part  \* the module this behaviour follows

framesVars == <<part, recentVars, autostartVars>>

FramesInit ==
    /\ part \in {"recent", "autostart"}
    /\ RecentInit
    /\ part # "recent" => file = <<>> /\ thumbs = {}
    /\ AutostartInit
    \* The replay turns itself on, and the power supply is plugged in at first.
    /\ ui.mode # "off" /\ power
    /\ part # "autostart" => ui.mode = "game" /\ ui.only_power /\ ui.area = "monitor" /\ runs = [p \in Pids |-> "no"]

FramesNext ==
    \/ part = "recent" /\ RecentNext /\ UNCHANGED <<part, autostartVars>>
    \/ part = "autostart" /\ AutostartNext /\ UNCHANGED <<part, recentVars>>
    \/ main = "done" /\ UNCHANGED framesVars  \* the program has ended

FramesSpec == FramesInit /\ [][FramesNext]_framesVars
TrackerSpec == FramesInit /\ part = "autostart" /\ [][FramesNext]_framesVars

FramesSymmetry == Permutations(Videos) \cup Permutations(Pids)
=============================================================================
