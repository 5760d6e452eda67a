\* Heartbeats between the motion edges, which are six ticks apart, and a reset
\* that lets edges pass during a fault.
CONSTANTS
  LuxThreshold = 25
  TempThreshold = 5
  HeartbeatS = 5
  FaultReset = 3
SPECIFICATION Spec
INVARIANTS TypeOK MotionTold
PROPERTIES ActiveNotSilent KeepsTalking
