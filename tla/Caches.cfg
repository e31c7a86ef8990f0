SPECIFICATION CachesSpec
CONSTANTS
  Pages = {"p", "q"}
  Recordings = {"a", "b"}
  NoProxy = "-"
  MaxProxies = 1
  MaxPages = 3
  MaxCrashes = 1
  Timelines = {"t", "u"}
  MaxDuration = 2
  MaxDirs = 1
  MaxTimelines = 2
INVARIANTS
  PlayedProxyIsKept
  EncoderIsAlone
  DrawnIsKept
  PainterIsAlone
PROPERTIES
  PreviewIsDecided
  RequestEnds
CHECK_DEADLOCK FALSE
