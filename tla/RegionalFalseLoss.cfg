\* The clock read before the lock: a device heard from in between.
CONSTANTS
  Lamps = {l1}
  Sessions = {c1}
  UriOf <- OfOneLamp
  Sensors = {}
  Zones = {1}
  OnValues = {TRUE}
  ZoneOf <- InZoneOne
  Timeout = 4
  Period = 1
  Late = 1
  MaxNow = 4
  ClockMod = 64
SPECIFICATION Spec
PROPERTY LostOnlyAfterSilence
