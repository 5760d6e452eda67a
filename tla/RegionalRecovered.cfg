\* What leaves active_lost at the next check.
CONSTANTS
  Lamps = {l1}
  Sessions = {c1}
  UriOf <- OfOneLamp
  Sensors = {}
  Zones = {1}
  OnValues = {TRUE}
  ZoneOf <- InZoneOne
  Timeout = 4
  Period = 1
  Late = 0
  MaxNow = 9
  ClockMod = 64
SPECIFICATION Spec
PROPERTY RemovedWhenRecovered
