SPECIFICATION ReportsSpec
CONSTANTS
  Video = Video
  Audio = Audio
  Times = {0, 1, 2}
  video_duration = 1
  Gap = 0
  MaxPosted = 2
INVARIANTS
  FieldsReachScreen
CHECK_DEADLOCK FALSE
