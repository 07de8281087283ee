\* Thresholds of vehicle_physics/constants.rs; waits scaled to one tick.
CONSTANTS
  RpmDrivingThreshold = 1000
  RpmExtreme = 5500
  SpeedExtreme = 160
  LuxOn = 840
  LuxOff = 860
  DefaultLux = 100
  Healthy = TRUE
  OnAckWait = 1
  OffAckWait = 1
  NotWaiting = NotWaiting
  MaxLag = 0
  StressDuration = 1
  NoReply = NoReply
  RpmReadings <- MCRpmReadings
  LuxReadings <- MCLuxReadings
  Ingress <- MCIngress
  MaxRetries = 2
  NoTurn = NoTurn
  MaxBacklog = 1
  MaxInFlight = 1
SPECIFICATION RuntimeSpec
INVARIANT RequestsAreSent
