---------------------------- MODULE ReplayAutostart ----------------------------
(***************************************************************************)
(* The replay that turns itself on: gsr-game-tracker watches the processes *)
(* and prints when the first game starts and the last one ends             *)
(* (tools/gsr-game-tracker/main.c), and the overlay's frames follow its    *)
(* lines, the power supply and the startup mode (src/Overlay.cpp).         *)
(*                                                                         *)
(* Of the overlay's session only its kind is kept, and of the region       *)
(* selector what waits for it; Overlay.tla has the rest.                   *)
(***************************************************************************)
EXTENDS Integers, Sequences, FiniteSets

CONSTANTS Pids,
          MaxGames,    \* MAX_GAMES
          MaxChanges,  \* bound on what processes, the user and the power supply do
          MaxLost,     \* bound on events the netlink socket drops
          Areas        \* record_area_option: "monitor", or "region", which is to be selected

VARIABLES runs,      \* what each process runs
          events,    \* the netlink socket
          overrun,   \* it dropped an event
          games,     \* the table's occupied slots
          game_count,
          tracker,   \* "scans", "receives" or "gone"
          unscanned, \* processes the scan has yet to look at
          lines,     \* its pipe to the overlay
          said,      \* the last line
          swept,     \* history: a sweep has met a dead game
          ui,        \* the overlay
          power,     \* the power supply is connected
          losses, changes

autostartVars == <<runs, events, overrun, games, game_count, tracker, unscanned, lines, said, swept,
                   ui, power, losses, changes>>
processVars == <<runs, events, overrun, losses>>
trackerVars == <<games, game_count, tracker, unscanned, said, swept>>
overlayVars == <<ui, power>>

AutostartInit ==
    /\ runs \in [Pids -> {"no", "game"}] /\ events = <<>> /\ overrun = FALSE
    /\ games = {} /\ game_count = 0 /\ tracker = "scans" /\ unscanned = Pids
    /\ lines = <<>> /\ said = "nothing" /\ swept = FALSE
    /\ power \in BOOLEAN
    /\ ui \in [mode : {"off", "startup", "game"}, only_power : BOOLEAN, area : Areas, available : {TRUE},
               status : {"none"}, once : {FALSE}, manually : {FALSE}, action : {"idle"},
               connected : {FALSE}, startup_connected : {FALSE},
               request : {"no"}, selecting : {"no"}, checked : {FALSE}, excused : {FALSE}]
    /\ losses = 0 /\ changes = 0

-----------------------------------------------------------------------------
Changes == changes < MaxChanges /\ changes' = changes + 1

(* The processes. *)

Reported(event) ==
    \/ events' = Append(events, event) /\ UNCHANGED <<overrun, losses>>
    \/ losses < MaxLost /\ losses' = losses + 1 /\ overrun' = TRUE /\ UNCHANGED events

\* A new process, or one that runs another program now.
Exec(p, program) ==
    /\ Changes
    /\ runs' = [runs EXCEPT ![p] = program]
    /\ Reported([pid |-> p, what |-> "exec"])
    /\ UNCHANGED <<trackerVars, lines, overlayVars>>

Ends(p) ==
    /\ runs[p] # "no" /\ Changes
    /\ runs' = [runs EXCEPT ![p] = "no"]
    /\ Reported([pid |-> p, what |-> "exit"])
    /\ UNCHANGED <<trackerVars, lines, overlayVars>>

-----------------------------------------------------------------------------
(* gsr-game-tracker. *)

Says(line) == lines' = Append(lines, line) /\ said' = line
Silent == UNCHANGED <<lines, said>>

\* check_process, with is_game_process and add_game.
CheckProcess(p) ==
    IF p \in games \/ runs[p] # "game" \/ Cardinality(games) = MaxGames
      THEN UNCHANGED <<games, game_count>> /\ Silent
      ELSE /\ games' = games \cup {p} /\ game_count' = game_count + 1
           /\ IF game_count = 0 THEN Says("launched") ELSE Silent

\* Faulty variant: the count is looked at after it went down.
RemoveGameCounted(p) ==
    IF p \notin games
      THEN UNCHANGED <<games, game_count>> /\ Silent
      ELSE /\ games' = games \ {p} /\ game_count' = game_count - 1
           /\ IF game_count' = 1 THEN Says("exited") ELSE Silent

RemoveGame(p) ==
    IF p \notin games
      THEN UNCHANGED <<games, game_count>> /\ Silent
      ELSE /\ games' = games \ {p} /\ game_count' = game_count - 1
           /\ IF game_count = 1 THEN Says("exited") ELSE Silent

ScanProcess(p) ==
    /\ tracker = "scans" /\ p \in unscanned
    /\ CheckProcess(p)
    /\ unscanned' = unscanned \ {p}
    /\ tracker' = IF unscanned = {p} THEN "receives" ELSE "scans"
    /\ UNCHANGED <<processVars, swept, overlayVars, changes>>

ReceiveEvent ==
    /\ tracker = "receives" /\ ~overrun /\ events # <<>>
    /\ events' = Tail(events)
    /\ LET event == Head(events)
       IN IF event.what = "exec" THEN CheckProcess(event.pid) ELSE RemoveGame(event.pid)
    /\ UNCHANGED <<runs, overrun, losses, changes, tracker, unscanned, swept, overlayVars>>

\* The error of a socket that dropped events: sweep_dead_games, then a scan.
\* The sweep takes the process number for a slot, so the count goes down and
\* the slots stay as they are; the write is past the table, and may end the
\* tracker.
SweepDeadGames ==
    LET dead == {p \in games : runs[p] = "no"}
        counted == game_count - Cardinality(dead)
    IN  /\ tracker = "receives" /\ overrun /\ overrun' = FALSE
        /\ game_count' = counted
        /\ IF game_count > 0 /\ counted <= 0 THEN Says("exited") ELSE Silent
        /\ swept' = (swept \/ dead # {})
        /\ unscanned' = Pids
        /\ tracker' \in IF dead = {} THEN {"scans"} ELSE {"scans", "gone"}
        /\ UNCHANGED <<runs, events, losses, changes, games, overlayVars>>

-----------------------------------------------------------------------------
(* What a handler makes of the overlay o. *)

\* on_press_start_replay; "works": the target is valid and the child starts.
PressReplay(o, finished, manually, works) ==
    LET pressed == [o EXCEPT !.manually = manually, !.once = TRUE]
        ignored == o.selecting # "no" \/ o.status = "other"
    IN  CASE ignored -> o
          [] ~ignored /\ o.status = "replay" -> [pressed EXCEPT !.status = "none", !.manually = FALSE]
          [] ~ignored /\ o.status # "replay" ->
               IF o.area = "region" /\ ~finished
                 THEN [pressed EXCEPT !.request = IF manually THEN "manual" ELSE "automatic"]
                 ELSE [pressed EXCEPT !.status = IF works THEN "replay" ELSE "none"]

\* process_gsr_game_tracker_output
ReadTracker(o) ==
    IF lines = <<>> THEN o ELSE [o EXCEPT !.action = IF Head(lines) = "launched" THEN "start" ELSE "stop"]

\* update_gsr_process_status
SessionDied(o) == [o EXCEPT !.status = "none", !.manually = TRUE]

\* The replay is kept on from the start of the program.
StartOnce(o, works) ==
    IF o.status = "none" /\ ~o.once /\ o.available THEN PressReplay(o, FALSE, FALSE, works) ELSE o

\* Faulty variant: only what connects is noticed.
FollowPowerConnected(o, works) ==
    LET noted == [o EXCEPT !.startup_connected = o.connected]
        changed == o.connected # o.startup_connected
    IN  IF o.status = "none" /\ (o.available \/ o.once) /\ changed /\ o.connected
          THEN PressReplay(noted, FALSE, FALSE, works) ELSE noted

\* The replay follows the power supply's edges.
FollowPower(o, works) ==
    LET noted == [o EXCEPT !.startup_connected = o.connected]
        looks == o.status = "replay" \/ (o.status = "none" /\ (o.available \/ o.once))
        changed == o.connected # o.startup_connected
        starts == o.status = "none" /\ o.connected
        stops == o.status = "replay" /\ ~o.connected /\ ~o.manually
    IN  CASE ~looks                                      -> o
          [] looks /\ changed /\ (starts \/ stops)       -> PressReplay(noted, FALSE, FALSE, works)
          [] looks /\ ~(changed /\ (starts \/ stops))    -> noted

\* update_replay_program_startup_status
UpdateProgram(o, works) ==
    CASE o.mode # "startup"                    -> o
      [] o.mode = "startup" /\ ~o.only_power   -> StartOnce(o, works)
      [] o.mode = "startup" /\ o.only_power    -> FollowPower(o, works)

\* replay_status_update_status
UpdateStatus(o, works) ==
    UpdateProgram(IF o.mode = "off" THEN o ELSE [o EXCEPT !.connected = power], works)

\* update_gsr_game_tracker_replay_status: an action is for one frame.
UpdateGame(o, works) ==
    LET action == IF o.manually THEN "idle" ELSE o.action
        starts == o.status = "none" /\ action = "start" /\ (o.only_power => o.connected)
        stops == o.status = "replay" /\ (action = "stop" \/ (o.only_power /\ ~o.connected))
        acted == IF starts \/ stops THEN PressReplay(o, FALSE, FALSE, works) ELSE o
    IN  IF o.mode # "game" THEN o ELSE [acted EXCEPT !.action = "idle"]

\* The end of the frame starts a selection that was asked for.
EndFrame(o) == IF o.request = "no" \/ o.selecting # "no" THEN o
               ELSE [o EXCEPT !.selecting = o.request, !.request = "no"]

Resting(o) == o.status = "none" /\ o.selecting = "no" /\ o.request = "no"

Frame(died, elapsed, works) ==
    LET read == ReadTracker(ui)
        polled == IF died THEN SessionDied(read) ELSE read
        updated == IF elapsed THEN UpdateStatus(polled, works) ELSE polled
        ended == EndFrame(UpdateGame(updated, works))
    IN  /\ died => ui.status # "none"
        /\ IF died THEN Changes ELSE UNCHANGED changes
        /\ lines' = IF lines = <<>> THEN lines ELSE Tail(lines)
        /\ ui' = [ended EXCEPT !.checked = elapsed,
                    !.excused = (ui.excused /\ ~Resting(ui)) \/ ui.selecting # "no" \/ ended.selecting # "no"]
        /\ UNCHANGED <<processVars, trackerVars, power>>

-----------------------------------------------------------------------------
(* The user. *)

UserDoes(o) ==
    /\ o # ui /\ Changes
    /\ ui' = [o EXCEPT !.checked = FALSE]
    /\ UNCHANGED <<processVars, trackerVars, lines, power>>

PressHotkey(works) == UserDoes(PressReplay(ui, FALSE, TRUE, works))

\* A recording or a stream is started, or stopped.
OtherSession ==
    /\ ui.selecting = "no" /\ ui.status # "replay"
    /\ UserDoes([ui EXCEPT !.status = IF @ = "none" THEN "other" ELSE "none"])

\* A region is selected for a screenshot.
SelectForScreenshot ==
    /\ ui.selecting = "no"
    /\ UserDoes([ui EXCEPT !.selecting = "screenshot", !.excused = TRUE])

\* The selection is done, or canceled.
EndSelection(works, done) ==
    LET o == [ui EXCEPT !.selecting = "no"]
    IN  /\ ui.selecting # "no"
        /\ ui' = [(IF done /\ ui.selecting # "screenshot"
                     THEN PressReplay(o, TRUE, ui.selecting = "manual", works) ELSE o)
                  EXCEPT !.checked = FALSE, !.excused = TRUE]
        /\ UNCHANGED <<processVars, trackerVars, lines, power, changes>>

\* The replay's settings page is left.
ChangeSettings(mode, only_power) ==
    UserDoes([ui EXCEPT !.mode = mode, !.only_power = only_power, !.excused = TRUE])

PlugPower ==
    /\ Changes
    /\ power' = ~power /\ ui' = [ui EXCEPT !.checked = FALSE]
    /\ UNCHANGED <<processVars, trackerVars, lines>>

\* An audio device or a webcam of the settings comes or goes.
ChangeDevices == UserDoes([ui EXCEPT !.available = ~@])

AutostartNext ==
    \/ \E p \in Pids : Ends(p) \/ ScanProcess(p) \/ \E program \in {"game", "other"} : Exec(p, program)
    \/ ReceiveEvent \/ SweepDeadGames
    \/ \E works \in BOOLEAN :
         \/ \E died, elapsed \in BOOLEAN : Frame(died, elapsed, works)
         \/ PressHotkey(works)
         \/ \E done \in BOOLEAN : EndSelection(works, done)
    \/ OtherSession \/ SelectForScreenshot \/ PlugPower \/ ChangeDevices
    \/ \E mode \in {"off", "startup", "game"}, only_power \in BOOLEAN : ChangeSettings(mode, only_power)

AutostartSpec == AutostartInit /\ [][AutostartNext]_autostartVars

-----------------------------------------------------------------------------
CaughtUp == tracker = "receives" /\ events = <<>> /\ ~overrun

\* "Game exited" is said when no game of the table runs any more
\* (src/tools/gsr-game-tracker/main.c, remove_game_by_slot).
ExitedIsTrue == CaughtUp /\ said = "exited" => \A p \in games : runs[p] = "no"

\* A replay that turned itself on for a game does not outlast the games, whatever
\* order they start and end in and whichever events were lost, unless a sweep met
\* a dead game, a region was being selected or the settings were changed
\* meanwhile (src/src/Overlay.cpp, update_gsr_game_tracker_replay_status;
\* main.c, scan_existing_processes).
GameReplayHasAGame ==
    /\ CaughtUp /\ ~swept /\ lines = <<>> /\ ui.action = "idle"
    /\ ui.mode = "game" /\ ui.status = "replay" /\ ~ui.manually /\ ~ui.excused
    => \E p \in games : runs[p] # "no"

\* A replay that turned itself on and needs the power supply is off after the
\* first update without it, but for the same two exceptions
\* (src/src/Overlay.cpp, update_replay_program_startup_status and
\* update_gsr_game_tracker_replay_status).
BatteryStopsReplay ==
    /\ ui.checked /\ ui.only_power /\ ui.mode # "off"
    /\ ui.status = "replay" /\ ~ui.manually /\ ~ui.excused
    => power
=============================================================================
