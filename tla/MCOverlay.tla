------------------------------ MODULE MCOverlay ------------------------------
(* Instances of Overlay for TLC. *)
EXTENDS OverlayCapture

SessionCommands == {"toggle-replay", "toggle-record", "toggle-stream", "toggle-pause",
                    "start-replay", "stop-replay", "start-record", "stop-record",
                    "start-stream", "stop-stream",
                    "toggle-show", "replay-save", "take-screenshot",
                    "reload-config", "exit"}
SelectCommands == {"toggle-record-region", "take-screenshot-window", "toggle-replay",
                   "toggle-show"}
StreamCommands == {"toggle-stream", "toggle-record"}
=============================================================================
