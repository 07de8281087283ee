\* Thresholds of vehicle_physics/constants.rs; waits scaled to one tick.
CONSTANTS
  RpmDrivingThreshold = 1000
  RpmExtreme = 5500
  SpeedExtreme = 160
  LuxOn = 840
  LuxOff = 860
  DefaultLux = 100
  Healthy = TRUE
  OnAckWait = 1
  OffAckWait = 1
  NotWaiting = NotWaiting
  MaxLag = 0
  LuxReadings <- MCLuxReadings
  Sessions <- MCSessions
  ChannelCapacity = 1
  NoCommand = NoCommand
  MaxCommands = 3
  MaxFrames = 2
SPECIFICATION FairSpec
INVARIANTS
  TypeOK
  AcceptsOnlyAnswers
  FreshAnswerIsAccepted
PROPERTIES
  ImplementsAnswerOnce
  BrainResumes
