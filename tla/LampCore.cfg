\* SET_INTENSITY with nothing and with what the regional server sends.
CONSTANTS
  Intensities = {0, 60}
  MaxQueue = 3
SPECIFICATION Spec
INVARIANTS TypeOK LitIffOn StatusTold OneWriteAtATime RegisterFirst FaultReportKept NeverStranded
PROPERTIES FaultEndsConnection Retries RegistrationEnds
