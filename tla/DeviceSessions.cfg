\* A device that reconnects while two earlier sessions are still there.
CONSTANTS
  MaxConn = 3
  MaxSends = 1
SPECIFICATION Spec
INVARIANT NewestReachable
PROPERTIES ClosedForgotten ClosedSessionEnds
