\* Thresholds of vehicle_physics/constants.rs; waits scaled to one tick.
CONSTANTS
  RpmDrivingThreshold = 1000
  RpmExtreme = 5500
  SpeedExtreme = 160
  LuxOn = 840
  LuxOff = 860
  DefaultLux = 100
  Healthy = TRUE
  OnAckWait = 2
  OffAckWait = 2
  NotWaiting = NotWaiting
  MaxLag = 0
  StressDuration = 1
  NoReply = NoReply
  RpmReadings <- SilentNightRpm
  LuxReadings <- SilentNightLux
  Ingress <- SilentNight
  MaxRetries = 1
  NoTurn = NoTurn
  MaxBacklog = 1
  MaxInFlight = 1
SPECIFICATION TimedFairSpec
PROPERTY RequestTimesOut
