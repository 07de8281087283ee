\* Thresholds of vehicle_physics/constants.rs; waits scaled to 1 and 2 ticks.
CONSTANTS
  RpmDrivingThreshold = 1000
  RpmExtreme = 5500
  SpeedExtreme = 160
  LuxOn = 840
  LuxOff = 860
  DefaultLux = 100
  Healthy = TRUE
  OnAckWait = 1
  OffAckWait = 1
  NotWaiting = NotWaiting
  MaxLag = 1
  StressDuration = 2
  NoReply = NoReply
  RpmReadings <- MCRpmReadings
  LuxReadings <- MCLuxReadings
SPECIFICATION FairSpec
INVARIANTS
  TypeOK
  LightingSafety
  QuiescesInTwoHops
  BuzzerMatchesMode
  MovingUnlessWarned
PROPERTIES
  FollowsTurnEdges
  WarningOutlastsCooldown
  AlarmEventuallySilent
  OffLampCleared
