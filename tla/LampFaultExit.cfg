\* How a lamp leaves FAULT.
CONSTANTS
  Intensities = {60}
  MaxQueue = 2
SPECIFICATION Spec
PROPERTY FaultLeftByReset
