\* One lamp, long enough for it to be lost, to come back and to fall silent again.
CONSTANTS
  Lamps = {l1}
  Sessions = {c1}
  UriOf <- OfOneLamp
  Sensors = {}
  Zones = {1, 2}
  OnValues = {TRUE}
  ZoneOf <- InZoneOne
  Timeout = 4
  Period = 1
  Late = 1
  MaxNow = 9
  ClockMod = 64
SPECIFICATION Spec
INVARIANTS LampsReachable ReportedFaultSticks EveryFaultAlarmed
PROPERTIES OneLossPerSilence LostIfSilentOrRaced FaultHandlingEnds
