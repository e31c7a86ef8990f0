SPECIFICATION FramesSpec
CONSTANTS
  Videos = {v1, v2}
  MaxRecent = 2
  Pids = {p1, p2}
  MaxGames = 2
  MaxChanges = 3
  MaxLost = 1
  Areas = {"monitor", "region"}
SYMMETRY FramesSymmetry
INVARIANTS
  ListedThumbnailsExist
  ShownIsFile
  GameReplayHasAGame
  BatteryStopsReplay
