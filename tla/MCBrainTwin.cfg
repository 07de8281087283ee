\* Thresholds of vehicle_physics/constants.rs; no tick measures the waits here.
CONSTANTS
  RpmDrivingThreshold = 1000
  RpmExtreme = 5500
  SpeedExtreme = 160
  LuxOn = 840
  LuxOff = 860
  DefaultLux = 100
  Healthy = TRUE
  OnAckWait = 0
  OffAckWait = 0
  NotWaiting = NotWaiting
  MaxLag = 0
  StressDuration = 1
  NoReply = NoReply
  RpmReadings <- MCRpmReadings
  LuxReadings <- MCLuxReadings
  Ingress <- MCIngress
  MaxRetries = 1
  NoTurn = NoTurn
  MaxBacklog = 1
  MaxInFlight = 1
SPECIFICATION RuntimeSpec
INVARIANTS
  RuntimeTypeOK
  OneDeadline
  RepliesAnswerTheirTurn
  ResetTurnLandsOff
  RequestHasDeadline
PROPERTY ImplementsDigitalTwin
