SPECIFICATION Spec
CONSTANTS
    Commands <- SelectCommands
    Areas = {"region", "portal"}
    OnX11 = TRUE
    MaxOut = 1
    MaxToggles = 1
INVARIANTS
    NeverSelectingBehindOverlay
    NoRequestWhileSelecting
    EscapeFollowsRequest
CHECK_DEADLOCK FALSE
