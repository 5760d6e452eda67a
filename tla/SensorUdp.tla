----------------------------- MODULE SensorUdp -----------------------------
(***************************************************************************)
(* The simulated sensor (sensor_udp.cpp): one thread, a tick timer of one  *)
(* second that measures and reports what has changed, and a reset timer    *)
(* that is armed by a fault.  The measurements are functions of            *)
(* seconds_elapsed with a common period, so the model keeps it modulo that *)
(* period.  A fault may be drawn at any tick (fault_prob_per_mille > 0).   *)
(* run_seconds and the signals only stop the process and are left out.     *)
(***************************************************************************)
EXTENDS Integers

CONSTANTS LuxThreshold,    \* lux_threshold
          TempThreshold,   \* temp_threshold_x10
          HeartbeatS,      \* heartbeat_s; the sensor is started with heartbeats on
          FaultReset       \* fault_reset_after_s, 0 for none

\* last_heartbeat starts at minus this: the first heartbeat is due at once
BootAge == 999999

ASSUME SensorAssumption ==
  /\ LuxThreshold \in Nat /\ TempThreshold \in Nat /\ FaultReset \in Nat
  /\ HeartbeatS \in Nat \ {0} /\ HeartbeatS <= BootAge

VARIABLES
  st_,              \* SensorFsm::st_
  seconds_elapsed,  \* modulo Period
  heartbeat_age,    \* seconds_elapsed - last_heartbeat, up to HeartbeatS
  prev_motion, prev_lux, prev_temp_x10,
  resetIn,          \* fault_reset_timer expires before this many more ticks; 0: not armed
  \* history
  told,     \* the motion of the last telemetry
  silence,  \* ticks since anything was sent, up to HeartbeatS
  missed    \* a fault took the place of telemetry since the last telemetry

vars == <<st_, seconds_elapsed, heartbeat_age, prev_motion, prev_lux,
          prev_temp_x10, resetIn, told, silence, missed>>

SensorState == {"IDLE", "UNREGISTERED", "REGISTERING", "ACTIVE", "FAULT"}

\* mutant: UNREGISTERED leads nowhere
TransitionsIncomplete ==
  {<<"IDLE", "UNREGISTERED">>, <<"REGISTERING", "ACTIVE">>,
   <<"REGISTERING", "UNREGISTERED">>, <<"ACTIVE", "ACTIVE">>,
   <<"ACTIVE", "FAULT">>, <<"FAULT", "IDLE">>}

transitions_ ==
  {<<"IDLE", "UNREGISTERED">>, <<"UNREGISTERED", "REGISTERING">>,
   <<"REGISTERING", "ACTIVE">>, <<"REGISTERING", "UNREGISTERED">>,
   <<"ACTIVE", "ACTIVE">>, <<"ACTIVE", "FAULT">>, <<"FAULT", "IDLE">>}

\* a refused transition is logged and leaves the state as it is
Switched(s, next) == IF <<s, next>> \in transitions_ THEN next ELSE s

\* what a tick measures; Period is a multiple of 7, of 60 and of 20 * 6
Period == 840
Motion(s) == IF s % 7 = 0 THEN 1 ELSE 0
Lux(s)    == 180 + (s % 60)
Temp(s)   == 235 + ((s \div 20) % 6)

Distance(a, b) == IF a < b THEN b - a ELSE a - b

Capped(n) == IF n < HeartbeatS THEN n ELSE HeartbeatS

TypeOK ==
  /\ st_ \in SensorState \ {"IDLE", "UNREGISTERED"}
  /\ seconds_elapsed \in 0 .. Period - 1
  /\ heartbeat_age \in 0 .. HeartbeatS
  /\ prev_motion \in {0, 1}
  /\ prev_lux \in 180 .. 239
  /\ prev_temp_x10 \in 235 .. 240
  /\ resetIn \in 0 .. FaultReset
  /\ told \in {0, 1}
  /\ silence \in 0 .. HeartbeatS
  /\ missed \in BOOLEAN

\* main up to io.run: boot_done, then REGISTER_REQ; the 200 ms of ack_demo run
Init ==
  /\ st_ = Switched(Switched("IDLE", "UNREGISTERED"), "REGISTERING")
  /\ seconds_elapsed = 0
  /\ heartbeat_age = Capped(BootAge)
  /\ prev_motion = 0 /\ prev_lux = 200 /\ prev_temp_x10 = 235
  /\ resetIn = 0
  /\ told = 0 /\ silence = 0 /\ missed = FALSE

\* ack_demo expires, 800 ms before the first tick
AckDemo ==
  /\ st_ = "REGISTERING"
  /\ st_' = Switched(st_, "ACTIVE")
  /\ UNCHANGED <<seconds_elapsed, heartbeat_age, prev_motion, prev_lux,
                 prev_temp_x10, resetIn, told, silence, missed>>

-----------------------------------------------------------------------------

\* heartbeat_due
HeartbeatDue == heartbeat_age >= HeartbeatS

\* mutant: the falling edge is not an event
MotionRise(s) == prev_motion = 0 /\ Motion(s) = 1

\* motion_rise || motion_fall
MotionEdge(s) == prev_motion # Motion(s)

\* the condition under which an ACTIVE sensor reports
EventDetected(s) ==
  \/ MotionEdge(s)
  \/ Distance(Lux(s), prev_lux) >= LuxThreshold
  \/ Distance(Temp(s), prev_temp_x10) >= TempThreshold
  \/ HeartbeatDue

\* the motion byte of a fault report
Marker == 254

\* lux and temperature of the datagram are of no use to the properties
SendTelemetry(motion) ==
  /\ silence' = 0
  /\ told' = IF motion = Marker THEN told ELSE motion
  /\ missed' = (motion = Marker)

\* an event_report; last_heartbeat moves only when the heartbeat was due
Report(s) ==
  /\ EventDetected(s)
  /\ st_' = Switched(st_, "ACTIVE")
  /\ SendTelemetry(Motion(s))
  /\ heartbeat_age' = IF HeartbeatDue THEN Capped(1) ELSE heartbeat_age + 1

\* mutant: last_heartbeat is set at every tick, outside the test
QuietMovesHeartbeat ==
  /\ st_' = st_
  /\ silence' = Capped(silence + 1)
  /\ heartbeat_age' = Capped(1)
  /\ UNCHANGED <<told, missed>>

\* the tick sends nothing
Quiet ==
  /\ st_' = st_
  /\ silence' = Capped(silence + 1)
  /\ heartbeat_age' = Capped(heartbeat_age + 1)
  /\ UNCHANGED <<told, missed>>

\* mutant: the timer is armed after a return that should not be there
FaultResetForgotten == resetIn' = 0

ArmFaultReset == resetIn' = FaultReset

\* fault_detected: the marker is all this tick sends
Fault ==
  /\ st_' = Switched(st_, "FAULT")
  /\ SendTelemetry(Marker)
  /\ ArmFaultReset
  /\ heartbeat_age' = Capped(heartbeat_age + 1)

\* The handler of tick_timer.  Ticks are at least a second apart and the
\* reset timer was armed before the next tick, so it expires before the
\* FaultReset-th; ticks that come late let it expire before an earlier one.
Tick ==
  /\ st_ # "REGISTERING" /\ resetIn # 1
  /\ LET s == seconds_elapsed
     IN /\ \/ st_ = "ACTIVE" /\ Fault
           \/ st_ = "ACTIVE" /\ Report(s) /\ UNCHANGED resetIn
           \/ /\ ~(st_ = "ACTIVE" /\ EventDetected(s))
              /\ Quiet
              /\ resetIn' = IF resetIn = 0 THEN 0 ELSE resetIn - 1
        /\ prev_motion' = Motion(s)
        /\ prev_lux' = Lux(s)
        /\ prev_temp_x10' = Temp(s)
        /\ seconds_elapsed' = (s + 1) % Period

\* the handler of fault_reset_timer reboots and registers in one go
ResetFires ==
  /\ resetIn > 0
  /\ resetIn' = 0
  /\ st_' = IF st_ = "FAULT"
            THEN Switched(Switched(Switched(Switched(st_,
                   "IDLE"), "UNREGISTERED"), "REGISTERING"), "ACTIVE")
            ELSE st_
  /\ UNCHANGED <<seconds_elapsed, heartbeat_age, prev_motion, prev_lux,
                 prev_temp_x10, told, silence, missed>>

Next == AckDemo \/ Tick \/ ResetFires

\* a timer that has expired has its handler run by io.run
Fairness == WF_vars(AckDemo) /\ WF_vars(Tick) /\ WF_vars(ResetFires)

Spec == Init /\ [][Next]_vars /\ Fairness

-----------------------------------------------------------------------------

\* An ACTIVE sensor is never silent for heartbeat_s ticks: the heartbeat is
\* counted from the last heartbeat, events in between and faults do not push
\* it out, and it is made up for after a reset (lines 220, 241).
ActiveNotSilent ==
  [][ seconds_elapsed' # seconds_elapsed /\ st_' = "ACTIVE"
        => silence' < HeartbeatS ]_vars

\* The last telemetry the sensor sent tells the motion it measured
\* last, in falling edges as in rising ones, unless it had a fault
\* since it last reported (lines 216, 217, 235, 245).
MotionTold == told # prev_motion => missed

\* A sensor that resets itself is heard from again and again, through any
\* number of faults (lines 188 to 202, 220).
KeepsTalking == FaultReset > 0 => []<>(silence = 0)

=============================================================================
