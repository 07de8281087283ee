\* Thresholds of vehicle_physics/constants.rs; waits scaled to 1 and 2 ticks.
CONSTANTS
  RpmDrivingThreshold = 1000
  RpmExtreme = 5500
  SpeedExtreme = 160
  LuxOn = 840
  LuxOff = 860
  DefaultLux = 100
  Healthy = TRUE
  OnAckWait = 1
  OffAckWait = 1
  NotWaiting = NotWaiting
  MaxLag = 0
  StressDuration = 1
  NoReply = NoReply
  RpmReadings <- MCRpmReadings
  LuxReadings <- MCLuxReadings
  Ingress <- MCIngress
  TellBacks <- MCTellBacks
  SinkCapacity = 1
  NoSnapshot = NoSnapshot
  MaxRows = 5
  MaxCalls = 1
SPECIFICATION LedgerSpec
INVARIANT StatusIsReadOnly
