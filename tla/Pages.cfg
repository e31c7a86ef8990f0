SPECIFICATION PagesSpec
CONSTANTS
  Types = {"replay", "record", "stream", "screenshot"}
  Environments <- MCEnvironments
  Configs <- MCConfigs
  Outputs = {"default_output", "hdmi"}
  Numbers = {0, 3, 90000}
  MaxTracks = 2
  MaxEdits = 2
  Screen = 10
  Camera = 15
  Percents = 5
  Corner = 1
  Pointers <- MCPointers
  Actions = {"record", "show"}
  NoAction = "none"
  Keys = {"F9", "Z"}
  NoKey = "unknown"
  AlphaNumeric = {"Z"}
  Modifiers = {"alt"}
  DefaultHotkeys <- MCDefaults
  MaxCommands = 7
  OldFiles <- MCOldFiles
  NewValues <- MCNewValues
  HasMonitors = TRUE
  MaxSaves = 3
  Hosts <- MCHosts
  ExportVideos <- MCVideos
  Resolutions <- MCResolutions
  Bitrates = {0, 3}
  Framerates = {0, 30}
  MaxChoices = 3
  MaxExports = 2
  MaxSecond = 1
INVARIANTS
  ShownIsCurrent
  HotkeysAgree
  ExportFollowsChoices
  AnnouncedIsKept
PROPERTIES
  UneditedVisitKeepsConfig
  ReleasedBoxIsInside
  RestartIsWhole
