------------------------------ MODULE MCServices ------------------------------
(***************************************************************************)
(* Requests that must be served, in one run: a controller's combination, a *)
(* command of a client, and the main loop's waits for the loader of recent *)
(* videos.  A behaviour follows one of them, and the others rest as they   *)
(* started.  They share no variable.                                       *)
(***************************************************************************)
EXTENDS Joystick, RecentVideos, Rpc

VARIABLE part  \* the module this behaviour follows

servicesVars == <<part, joystickVars, recentVars, vars>>

ServicesInit ==
    /\ part \in {"joystick", "recent", "rpc"}
    /\ JoystickInit
    /\ part # "joystick" => plugged = {}
    /\ RecentInit
    /\ part # "recent" => file = <<>> /\ thumbs = {}
    /\ Init

ServicesNext ==
    \/ part = "joystick" /\ JoystickNext /\ UNCHANGED <<part, recentVars, vars>>
    \/ part = "recent" /\ RecentNext /\ UNCHANGED <<part, joystickVars, vars>>
    \/ part = "rpc" /\ Next /\ UNCHANGED <<part, joystickVars, recentVars>>

\* The fairness of each module, where it is followed.
ServicesSpec ==
    /\ ServicesInit /\ [][ServicesNext]_servicesVars
    /\ JoystickFairness
    /\ WF_recentVars(part = "recent" /\ MainLoop) /\ WF_recentVars(part = "recent" /\ Loader)
    /\ WF_vars(part = "rpc" /\ Server)
=============================================================================
