\* A lamp with two sessions and a sensor of one zone: every handler interleaves
\* with every other.  The clock stands still, so that the comm_lost check may run
\* at any moment; the properties do not mention time.  They are invariants, so
\* symmetry is sound.
CONSTANTS
  Lamps = {l1}
  Sessions = {c1, c2}
  UriOf <- OfOneLamp
  Sensors = {s1}
  Zones = {1}
  OnValues = {TRUE}
  ZoneOf <- InZoneOne
  Timeout = 1
  Period = 1
  Late = 0
  MaxNow = 1
  ClockMod = 64
SYMMETRY SessionSymmetry
SPECIFICATION Spec
INVARIANTS TypeOK ReportedFaultSticks EveryFaultAlarmed CommandFitsMotion
