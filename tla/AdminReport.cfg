CONSTANTS
  Byte = 4
  Registries <- MCRegistries
  Alarms <- MCAlarms
  Messages <- MCMessages
  MaxAlarms = 2
  MaxPushed = 3
  MaxBody = 60
SPECIFICATION Spec
INVARIANTS RoundTrip ShortRefused FramesKept AdminSeesRegistry AdminSeesAlarms
