SPECIFICATION FairSpec
CONSTANTS
    Commands <- SessionCommands
    Areas = {"monitor"}
    OnX11 = TRUE
    MaxOut = 2
    MaxToggles = 2
INVARIANTS
    SessionHasItsChild
    NoOrphanedChild
PROPERTIES
    ImplementsCapture
    DeadChildIsReaped
    ClosedOverlayHides
    ExitEnds
CHECK_DEADLOCK FALSE
