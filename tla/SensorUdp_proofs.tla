-------------------------- MODULE SensorUdp_proofs --------------------------
(***************************************************************************)
(* What the sensor says, proved for every heartbeat, reset delay and pair  *)
(* of thresholds.                                                          *)
(***************************************************************************)
EXTENDS SensorUdp, TLAPS

\* last_heartbeat is never later than the last thing sent
SilenceWithinAge == Capped(silence + 1) <= heartbeat_age

\* the fault that brought the sensor to FAULT is not made up for there
FaultMissed == st_ = "FAULT" => missed

IInv == TypeOK /\ SilenceWithinAge /\ MotionTold /\ FaultMissed

-----------------------------------------------------------------------------

\* What the proofs use of the constants.
LEMMA Constants ==
  HeartbeatS \in Nat \ {0} /\ FaultReset \in Nat /\ Capped(BootAge) = HeartbeatS
<1>1. BootAge \in Nat
  BY SMT DEF BootAge
<1> QED
  BY <1>1, SensorAssumption DEF Capped

\* What a tick measures (lines 211 to 213) and the second it ends in.
LEMMA Measured ==
  ASSUME NEW s \in 0 .. Period - 1
  PROVE  /\ Motion(s) \in {0, 1}
         /\ Lux(s) \in 180 .. 239
         /\ Temp(s) \in 235 .. 240
         /\ (s + 1) % Period \in 0 .. Period - 1
<1>1. Motion(s) \in {0, 1}
  BY DEF Motion
<1>2. Lux(s) \in 180 .. 239
  BY DEF Lux, Period
<1>3. Temp(s) \in 235 .. 240
  BY DEF Temp, Period
<1>4. (s + 1) % Period \in 0 .. Period - 1
  BY DEF Period
<1> QED
  BY <1>1, <1>2, <1>3, <1>4

\* What switch_to makes of the changes the program asks for (lines 160 to
\* 170, 194 to 198, 225, 236).
LEMMA Switches ==
  /\ Switched(Switched("IDLE", "UNREGISTERED"), "REGISTERING") = "REGISTERING"
  /\ Switched("REGISTERING", "ACTIVE") = "ACTIVE"
  /\ Switched("ACTIVE", "ACTIVE") = "ACTIVE"
  /\ Switched("ACTIVE", "FAULT") = "FAULT"
  /\ Switched(Switched(Switched(Switched("FAULT",
       "IDLE"), "UNREGISTERED"), "REGISTERING"), "ACTIVE") = "ACTIVE"
BY DEF Switched, transitions_

\* The program starts in the invariant.
LEMMA InitIInv == Init => IInv
<1> SUFFICES ASSUME Init
             PROVE  IInv
  OBVIOUS
<1>1. st_ = "REGISTERING" /\ heartbeat_age = HeartbeatS
  BY Constants, Switches DEF Init
<1>2. seconds_elapsed \in 0 .. Period - 1
  BY DEF Init, Period
<1>3. TypeOK
  <2>1. prev_lux \in 180 .. 239 /\ prev_temp_x10 \in 235 .. 240
    BY DEF Init
  <2>2. silence \in 0 .. HeartbeatS /\ heartbeat_age \in 0 .. HeartbeatS
        /\ resetIn \in 0 .. FaultReset
    BY <1>1, Constants DEF Init
  <2>3. missed \in BOOLEAN
    BY DEF Init
  <2> QED
    BY <1>1, <1>2, <2>1, <2>2, <2>3 DEF Init, TypeOK, SensorState
<1>4. SilenceWithinAge
  BY <1>1, Constants DEF Init, SilenceWithinAge, Capped
<1> QED
  BY <1>1, <1>3, <1>4 DEF Init, IInv, MotionTold, FaultMissed

\* The three outcomes of a tick, without what they have in common.
LEMMA TickOutcome ==
  ASSUME IInv, Tick
  PROVE  /\ st_' \in SensorState \ {"IDLE", "UNREGISTERED"}
         /\ heartbeat_age' \in 0 .. HeartbeatS
         /\ resetIn' \in 0 .. FaultReset
         /\ told' \in {0, 1}
         /\ silence' \in 0 .. HeartbeatS
         /\ missed' \in BOOLEAN
         /\ SilenceWithinAge'
         /\ told' # Motion(seconds_elapsed) => missed'
         /\ FaultMissed'
         /\ st_' = "ACTIVE" => silence' < HeartbeatS
<1> DEFINE s == seconds_elapsed
<1>1. s \in 0 .. Period - 1
  BY DEF IInv, TypeOK
<1>2. Motion(s) \in {0, 1}
  BY <1>1, Measured
<1> HIDE DEF s
<1>3. CASE st_ = "ACTIVE" /\ Fault
  <2>1. st_' = "FAULT" /\ silence' = 0 /\ missed' = TRUE /\ told' = told
        /\ resetIn' = FaultReset
    BY <1>3, Switches DEF Fault, ArmFaultReset, SendTelemetry
  <2>2. heartbeat_age' \in 1 .. HeartbeatS
    BY <1>3, Constants DEF IInv, TypeOK, Fault, Capped
  <2>3. missed' \in BOOLEAN /\ FaultMissed' /\ told' \in {0, 1}
    BY <2>1 DEF IInv, TypeOK, FaultMissed
  <2>4. SilenceWithinAge' /\ silence' \in 0 .. HeartbeatS
        /\ resetIn' \in 0 .. FaultReset
    BY <2>1, <2>2, Constants DEF SilenceWithinAge, Capped
  <2>5. heartbeat_age' \in 0 .. HeartbeatS
    BY <2>2, Constants
  <2> QED
    BY <2>1, <2>3, <2>4, <2>5 DEF SensorState
<1>4. CASE st_ = "ACTIVE" /\ Report(s) /\ UNCHANGED resetIn
  <2>0. Motion(s) # Marker
    BY <1>2 DEF Marker
  <2>1. st_' = "ACTIVE" /\ silence' = 0 /\ told' = Motion(s) /\ missed' = FALSE
    BY <1>4, <2>0, Switches DEF Report, SendTelemetry
  <2>2. heartbeat_age' \in 1 .. HeartbeatS
    BY <1>4, Constants DEF IInv, TypeOK, Report, HeartbeatDue, Capped
  <2>3. missed' \in BOOLEAN /\ FaultMissed' /\ told' \in {0, 1}
    BY <1>2, <2>1 DEF FaultMissed
  <2>4. SilenceWithinAge' /\ silence' \in 0 .. HeartbeatS
        /\ silence' < HeartbeatS
    BY <2>1, <2>2, Constants DEF SilenceWithinAge, Capped
  <2>5. heartbeat_age' \in 0 .. HeartbeatS /\ resetIn' \in 0 .. FaultReset
    BY <1>4, <2>2, Constants DEF IInv, TypeOK
  <2> QED
    BY <2>1, <2>3, <2>4, <2>5 DEF SensorState, s
<1>5. CASE /\ ~(st_ = "ACTIVE" /\ EventDetected(s))
           /\ Quiet
           /\ resetIn' = IF resetIn = 0 THEN 0 ELSE resetIn - 1
  <2>1. SilenceWithinAge' /\ heartbeat_age' \in 0 .. HeartbeatS
        /\ silence' \in 0 .. HeartbeatS
    BY <1>5, Constants DEF IInv, TypeOK, SilenceWithinAge, Quiet, Capped
  <2>2. resetIn' \in 0 .. FaultReset
    BY <1>5, Constants DEF IInv, TypeOK
  <2>3. st_ # "REGISTERING"
    BY DEF Tick
  <2>4. told' # Motion(s) => missed'
    BY <1>5, <2>3
       DEF IInv, TypeOK, MotionTold, FaultMissed, Quiet, EventDetected,
           MotionEdge, SensorState
  <2>5. st_' = "ACTIVE" => silence' < HeartbeatS
    BY <1>5, Constants
       DEF IInv, TypeOK, SilenceWithinAge, Quiet, EventDetected, HeartbeatDue,
           Capped
  <2> QED
    BY <1>5, <2>1, <2>2, <2>4, <2>5 DEF IInv, TypeOK, FaultMissed, Quiet, s
<1> QED
  BY <1>3, <1>4, <1>5 DEF Tick, s

\* Every handler preserves the invariant.
LEMMA NextIInv == IInv /\ [Next]_vars => IInv'
<1> SUFFICES ASSUME IInv, [Next]_vars
             PROVE  IInv'
  OBVIOUS
<1>1. CASE AckDemo
  BY <1>1, Switches
     DEF AckDemo, IInv, TypeOK, SilenceWithinAge, MotionTold, FaultMissed,
         Capped, SensorState
<1>2. CASE Tick
  <2>1. seconds_elapsed \in 0 .. Period - 1
    BY DEF IInv, TypeOK
  <2>2. /\ prev_motion' = Motion(seconds_elapsed)
        /\ prev_lux' = Lux(seconds_elapsed)
        /\ prev_temp_x10' = Temp(seconds_elapsed)
        /\ seconds_elapsed' = (seconds_elapsed + 1) % Period
    BY <1>2 DEF Tick
  <2> QED
    BY <1>2, <2>1, <2>2, Measured, TickOutcome DEF IInv, TypeOK, MotionTold
<1>3. CASE ResetFires
  BY <1>3, Switches, Constants
     DEF ResetFires, IInv, TypeOK, SilenceWithinAge, MotionTold, FaultMissed,
         Capped, SensorState
<1>4. CASE UNCHANGED vars
  BY <1>4
     DEF vars, IInv, TypeOK, SilenceWithinAge, MotionTold, FaultMissed, Capped
<1> QED
  BY <1>1, <1>2, <1>3, <1>4 DEF Next

-----------------------------------------------------------------------------

\* The sensor's variables keep their types, and no handler leaves it between
\* its boot and its registration.
THEOREM SensorTypeCorrect == Spec => []TypeOK
<1>1. IInv => TypeOK
  BY DEF IInv
<1> QED
  BY <1>1, InitIInv, NextIInv, PTL DEF Spec

\* The last telemetry told the motion measured last, or a fault has come
\* since.
THEOREM SensorTellsMotion == Spec => []MotionTold
<1>1. IInv => MotionTold
  BY DEF IInv
<1> QED
  BY <1>1, InitIInv, NextIInv, PTL DEF Spec

\* A tick never leaves the sensor ACTIVE and silent for heartbeat_s ticks.
THEOREM SensorNeverSilent == Spec => ActiveNotSilent
<1>1. IInv /\ [Next]_vars
        => [ seconds_elapsed' # seconds_elapsed /\ st_' = "ACTIVE"
               => silence' < HeartbeatS ]_vars
  BY TickOutcome DEF Next, AckDemo, ResetFires, vars
<1> QED
  BY <1>1, InitIInv, NextIInv, PTL DEF Spec, ActiveNotSilent

=============================================================================
