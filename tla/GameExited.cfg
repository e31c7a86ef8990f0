SPECIFICATION TrackerSpec
CONSTANTS
  Videos = {v1}
  MaxRecent = 1
  Pids = {p1, p2}
  MaxGames = 2
  MaxChanges = 2
  MaxLost = 1
  Areas = {"monitor"}
SYMMETRY FramesSymmetry
INVARIANT ExitedIsTrue
