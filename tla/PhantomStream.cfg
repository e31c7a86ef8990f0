SPECIFICATION Spec
CONSTANTS
    Commands <- StreamCommands
    Areas = {"monitor"}
    OnX11 = TRUE
    MaxOut = 1
    MaxToggles = 1
PROPERTIES
    RecordingLineEndsIt
CHECK_DEADLOCK FALSE
