--------------------------- MODULE RegionalServer ---------------------------
(***************************************************************************)
(* The regional server (regional_server.cpp) around its registry: the      *)
(* handlers of device sessions (tls_device_server.hpp), the UDP telemetry  *)
(* receiver (udp_telemetry_server.hpp), the comm_lost timer and the server *)
(* FSM, as they interleave on the two or more threads that run the         *)
(* io_context (regional_server.cpp:295).                                   *)
(*                                                                         *)
(* A handler is cut wherever another thread can get in between two of its  *)
(* accesses to shared state: between a registry get and the upsert that    *)
(* follows it, between the comm_lost check's now_ms() and the lock it then *)
(* waits for, and inside ServerFsm::switch_to, which reads, checks and     *)
(* writes state_ without a lock.                                           *)
(*                                                                         *)
(* One session handles one message at a time (the next header is read      *)
(* after on_message returns), but a lamp that reconnects has a new session *)
(* while handlers of the old one may still be running: Sessions are those  *)
(* that exist at a time and UriOf is the lamp at their other end.  A name  *)
(* stands for a later session too, once its handler is done.  DbWriter and *)
(* RegionSyncClient receive the rows and alarms sent here; owed records    *)
(* the alarms a handler has still to send.                                 *)
(***************************************************************************)
EXTENDS Registry

CONSTANTS Sessions, \* sessions of the device server that exist at the same time
          UriOf,    \* the lamp each session is of
          ZoneOf,   \* the zone each sensor was started with, 0 if none
          OnValues, \* the values of the on field that lamps report
          Period,   \* the 5 s of the comm_lost timer, in clock units
          Late,     \* bound on the delay of a handler: see Advance
          MaxNow    \* bound: the clock stops there

\* The deployments in README.md and tests/ run with a timeout of 6 s or more;
\* the argument is not validated by the code.
ASSUME TimerAssumption == /\ Period \in Nat \ {0}
                          /\ Late \in Nat
                          /\ Period + 3 * Late <= Timeout
ASSUME SessionAssumption == UriOf \in [Sessions -> Lamps]
ASSUME OnAssumption == OnValues \subseteq BOOLEAN
ASSUME SensorAssumption == ZoneOf \in [Sensors -> ZoneIds]
ASSUME HorizonAssumption == MaxNow \in Nat /\ MaxNow < ClockMod

VARIABLES
  now,          \* steady clock, as now_ms() reads it
  state_,       \* ServerFsm::state_
  sess,         \* per session: the handler it is running
  sessions,     \* sessions_: lamps that have a session in the session map
  cmd,          \* per lamp: last motion command put in the queue of that session
  udp,          \* the one outstanding datagram handler
  last_motion,  \* last_motion_
  tick,         \* the comm_lost timer handler
  due,          \* when the comm_lost timer expires
  active_lost,  \* active_lost
  \* history
  reported,     \* devices whose own fault report is newer than their last registration
  raced,        \* lamps that reported their fault while a handler of another session
                \* held a copy of the entry from before
  heard,        \* devices heard from since they were last marked lost
  owed,         \* faults and losses whose alarm is not yet sent, by session for a
                \* device_fault and by uri for the others
  missed        \* TRUE once a motion edge met an FSM outside NORMAL_OPERATION

hist == <<reported, raced, heard, owed, missed>>
vars == <<dev, zone_to_lamps, now, state_, sess, sessions, cmd, udp,
          last_motion, tick, due, active_lost, reported, raced, heard, owed, missed>>

Normal  == "NORMAL_OPERATION"
Fault   == "FAULT_HANDLING"
Reg     == "REGISTRATION_HANDLING"
ServerState == {"IDLE", Reg, Normal, Fault}

transitions == {<<"IDLE", Reg>>, <<Reg, Reg>>, <<Reg, Normal>>,
                <<Normal, Normal>>, <<Normal, Fault>>,
                <<Fault, Normal>>, <<Fault, "IDLE">>}

Motions   == {0, 1, 254}
AlarmKind == {"device_fault", "sensor_fault", "comm_lost"}

SessPc == {"idle", "status", "fault", "fault_cb", "fault_switch"}
UdpPc  == {"idle", "put", "motion", "fault", "fault_cb", "fault_switch", "fault_put"}
TickPc == {"wait", "detect", "loop", "switch", "recover_switch"}

IdleSession == [pc |-> "idle", st |-> NoDevice, at |-> 0]
IdleUdp     == [pc |-> "idle", uri |-> "none", zone |-> 0, motion |-> 0,
                st |-> NoDevice, at |-> 0]

TypeOK ==
  /\ dev \in [Uris -> DeviceState]
  /\ zone_to_lamps \in [Zones -> SUBSET Uris]
  /\ now \in Nat
  /\ state_ \in ServerState
  /\ sess \in [Sessions -> [pc : SessPc, st : DeviceState, at : Nat]]
  /\ sessions \subseteq Lamps
  /\ cmd \in [Lamps -> {"none", "ON", "OFF"}]
  /\ udp \in [pc : UdpPc, uri : Sensors \cup {"none"}, zone : ZoneIds, motion : Motions,
              st : DeviceState, at : Nat]
  /\ last_motion \in [Sensors -> {0, 1}]
  /\ tick \in [pc : TickPc, at : Nat, uri : Uris \cup {"none"},
               lost : SUBSET Uris, todo : SUBSET Uris]
  /\ due \in Nat
  /\ active_lost \subseteq Uris
  /\ reported \subseteq Uris
  /\ raced \subseteq Lamps
  /\ heard \subseteq Uris
  /\ owed \subseteq (Uris \cup Sessions) \X AlarmKind
  /\ missed \in BOOLEAN

Init ==
  /\ RegInit
  /\ now = 1
  /\ state_ = "IDLE"
  /\ sess = [c \in Sessions |-> IdleSession]
  /\ sessions = {}
  /\ cmd = [u \in Lamps |-> "none"]
  /\ udp = IdleUdp
  /\ last_motion = [s \in Sensors |-> 0]
  /\ tick = [pc |-> "wait", at |-> 0, uri |-> "none", lost |-> {}, todo |-> {}]
  /\ due = 0
  /\ active_lost = {}
  /\ reported = {}
  /\ raced = {}
  /\ heard = {}
  /\ owed = {}
  /\ missed = FALSE

-----------------------------------------------------------------------------
(* ServerFsm: switch_to reads state_ once, looks the pair up and writes.   *)

\* the check of switch_to(next)
MaySwitch(next) == <<state_, next>> \in transitions

\* main up to io.run(): both switches happen before any other thread exists
Boot ==
  /\ state_ = "IDLE"
  /\ MaySwitch(Reg) /\ <<Reg, Normal>> \in transitions
  /\ state_' = Normal
  /\ due' = now + Period
  /\ UNCHANGED <<regvars, now, sess, sessions, cmd, udp, last_motion, tick, active_lost, hist>>

Running == state_ # "IDLE"

-----------------------------------------------------------------------------
(* Device sessions: DeviceSession::on_message                              *)

\* now_ms() is read between the get and the upsert's lock
Stamped(st, from) == {[st EXCEPT !.seen = t] : t \in from .. now}

\* handle_register for an acceptable request.  register_lamp(uri, zone) adds
\* what the upsert of a LUMINAIRE has just added.  An empty uri or zone 0
\* gets a NACK and changes nothing.
Register(c, z) ==
  LET u == UriOf[c] IN
  /\ Running
  /\ sess[c].pc = "idle"
  /\ Upsert(u, [FreshDevice("LUMINAIRE", z) EXCEPT !.seen = now])
  /\ sessions' = sessions \cup {u}
  /\ cmd' = [cmd EXCEPT ![u] = "none"]
  /\ reported' = reported \ {u}
  /\ heard' = heard \cup {u}
  /\ UNCHANGED <<now, state_, sess, udp, last_motion, tick, due, active_lost, raced, owed, missed>>

\* handle_status up to the get.  A uri the registry does not know is dropped:
\* the branch for the session's own uri is dead, as registering put it there.
StatusGet(c, z, on) ==
  LET u == UriOf[c] IN
  /\ Running
  /\ sess[c].pc = "idle"
  /\ Known(u)
  /\ sess' = [sess EXCEPT ![c] = [pc |-> "status", at |-> now,
                                  st |-> [dev[u] EXCEPT !.zone = z, !.on = on]]]
  /\ UNCHANGED <<regvars, now, state_, sessions, cmd, udp, last_motion, tick, due, active_lost, hist>>

\* A plausible slip: a status report proves the device alive and clears its fault.
StatusPutClearsFault(c) ==
  LET u == UriOf[c] IN
  /\ sess[c].pc = "status"
  /\ \E st \in Stamped([sess[c].st EXCEPT !.fault = FALSE], sess[c].at) : Upsert(u, st)
  /\ sess' = [sess EXCEPT ![c] = IdleSession]
  /\ heard' = heard \cup {u}
  /\ UNCHANGED <<now, state_, sessions, cmd, udp, last_motion, tick, due, active_lost,
                 reported, raced, owed, missed>>

\* ... and the upsert of the copy, with the fault flag the get saw
StatusPut(c) ==
  LET u == UriOf[c] IN
  /\ sess[c].pc = "status"
  /\ \E st \in Stamped(sess[c].st, sess[c].at) : Upsert(u, st)
  /\ sess' = [sess EXCEPT ![c] = IdleSession]
  /\ heard' = heard \cup {u}
  /\ UNCHANGED <<now, state_, sessions, cmd, udp, last_motion, tick, due, active_lost,
                 reported, raced, owed, missed>>

\* handle_fault up to the get; an unknown uri is taken for a luminaire
FaultGet(c, z) ==
  LET u == UriOf[c] IN
  /\ Running
  /\ sess[c].pc = "idle"
  /\ LET st == IF Known(u) THEN dev[u] ELSE FreshDevice("LUMINAIRE", z)
     IN  sess' = [sess EXCEPT ![c] = [pc |-> "fault", at |-> now,
                                      st |-> [st EXCEPT !.zone = z, !.fault = TRUE]]]
  /\ UNCHANGED <<regvars, now, state_, sessions, cmd, udp, last_motion, tick, due, active_lost, hist>>

\* a handler of another session will write back an entry without the fault
OlderCopy(u) ==
  \E d \in Sessions : UriOf[d] = u /\ sess[d].pc = "status" /\ ~sess[d].st.fault

FaultPut(c) ==
  LET u == UriOf[c] IN
  /\ sess[c].pc = "fault"
  /\ \E st \in Stamped(sess[c].st, sess[c].at) : Upsert(u, st)
  /\ sess' = [sess EXCEPT ![c].pc = "fault_cb"]
  /\ reported' = reported \cup {u}
  /\ raced' = IF OlderCopy(u) THEN raced \cup {u} ELSE raced \ {u}
  /\ heard' = heard \cup {u}
  /\ owed' = owed \cup {<<c, "device_fault">>}
  /\ UNCHANGED <<now, state_, sessions, cmd, udp, last_motion, tick, due, active_lost, missed>>

\* A plausible slip: the alarm is sent only when the FSM accepts the switch.
FaultCallbackIfSwitched(c) ==
  /\ sess[c].pc = "fault_cb"
  /\ sess' = [sess EXCEPT ![c] = IF MaySwitch(Fault)
                                 THEN [@ EXCEPT !.pc = "fault_switch"] ELSE IdleSession]
  /\ UNCHANGED <<regvars, now, state_, sessions, cmd, udp, last_motion, tick, due,
                 active_lost, hist>>

\* the fault callback: check of switch_to(FAULT_HANDLING); when it is refused
\* (the FSM is there already) the alarm is sent all the same
FaultCallback(c) ==
  /\ sess[c].pc = "fault_cb"
  /\ IF MaySwitch(Fault)
     THEN /\ sess' = [sess EXCEPT ![c].pc = "fault_switch"]
          /\ UNCHANGED owed
     ELSE /\ sess' = [sess EXCEPT ![c] = IdleSession]
          /\ owed' = owed \ {<<c, "device_fault">>}
  /\ UNCHANGED <<regvars, now, state_, sessions, cmd, udp, last_motion, tick, due,
                 active_lost, reported, raced, heard, missed>>

\* ... its write, send_alarm_now and the FAULT_ACK
FaultSwitch(c) ==
  /\ sess[c].pc = "fault_switch"
  /\ state_' = Fault
  /\ sess' = [sess EXCEPT ![c] = IdleSession]
  /\ owed' = owed \ {<<c, "device_fault">>}
  /\ UNCHANGED <<regvars, now, sessions, cmd, udp, last_motion, tick, due, active_lost,
                 reported, raced, heard, missed>>

\* on_close after a failed read or write: this session leaves the map
SessionClose(u) ==
  /\ u \in sessions
  /\ sessions' = sessions \ {u}
  /\ UNCHANGED <<regvars, now, state_, sess, cmd, udp, last_motion, tick, due, active_lost, hist>>

SessionStep(c) == StatusPut(c) \/ FaultPut(c) \/ FaultCallback(c) \/ FaultSwitch(c)

-----------------------------------------------------------------------------
(* UdpTelemetryServer::do_receive.  The next async_receive_from is issued  *)
(* at the end of the handler, so at most one datagram is being handled.    *)

\* a well-formed datagram arrives: get, and the entry to be written back as SENSOR
UdpReceive(s, m) ==
  /\ Running
  /\ udp.pc = "idle"
  /\ LET z  == ZoneOf[s]
         st == IF Known(s) THEN [dev[s] EXCEPT !.type = "SENSOR", !.zone = z]
               ELSE FreshDevice("SENSOR", z)
     IN  udp' = [pc |-> "put", uri |-> s, zone |-> z, motion |-> m, st |-> st, at |-> now]
  /\ UNCHANGED <<regvars, now, state_, sess, sessions, cmd, last_motion, tick, due, active_lost, hist>>

\* A plausible slip: the fault marker is taken for a motion value.
UdpPutIgnoresMarker ==
  /\ udp.pc = "put"
  /\ \E st \in Stamped(udp.st, udp.at) : Upsert(udp.uri, st)
  /\ udp' = [udp EXCEPT !.pc = "motion"]
  /\ heard' = heard \cup {udp.uri}
  /\ UNCHANGED <<now, state_, sess, sessions, cmd, last_motion, tick, due, active_lost,
                 reported, raced, owed, missed>>

\* the upsert; motion = 254 is the sensor's fault marker
UdpPut ==
  /\ udp.pc = "put"
  /\ \E st \in Stamped(udp.st, udp.at) : Upsert(udp.uri, st)
  /\ udp' = [udp EXCEPT !.pc = IF udp.motion = 254 THEN "fault" ELSE "motion"]
  /\ heard' = heard \cup {udp.uri}
  /\ UNCHANGED <<now, state_, sess, sessions, cmd, last_motion, tick, due, active_lost,
                 reported, raced, owed, missed>>

\* do_receive() again
UdpIdle == udp' = IdleUdp

\* the lamps the motion_on and motion_off callbacks send commands to: none
\* unless the FSM is in NORMAL_OPERATION, else those of the zone whose session
\* is in the map
Commanded(z) == IF state_ = Normal THEN GetLampsInZone(z) \cap sessions ELSE {}

\* A plausible slip: only a rising edge is recorded.
UdpMotionKeepsLast ==
  /\ udp.pc = "motion"
  /\ LET edge == last_motion[udp.uri] # udp.motion
         to   == IF edge THEN Commanded(udp.zone) ELSE {}
     IN  /\ cmd' = [u \in Lamps |-> IF u \in to
                                    THEN IF udp.motion = 1 THEN "ON" ELSE "OFF"
                                    ELSE cmd[u]]
         /\ missed' = (missed \/ (edge /\ state_ # Normal))
  /\ last_motion' = [last_motion EXCEPT ![udp.uri] = IF udp.motion = 1 THEN 1 ELSE @]
  /\ UdpIdle
  /\ UNCHANGED <<regvars, now, state_, sess, sessions, tick, due, active_lost,
                 reported, raced, heard, owed>>

\* motion 0 or 1: the edge against last_motion_, the callback's commands
\* (SWITCH_ON and SET_INTENSITY 60, or SWITCH_OFF) and, in every case, the new
\* last_motion_.  The callback's locks are taken one by one; each lamp sees
\* only its own session lookup, so one step has the same outcomes.
UdpMotion ==
  /\ udp.pc = "motion"
  /\ LET edge == last_motion[udp.uri] # udp.motion
         to   == IF edge THEN Commanded(udp.zone) ELSE {}
     IN  /\ cmd' = [u \in Lamps |-> IF u \in to
                                    THEN IF udp.motion = 1 THEN "ON" ELSE "OFF"
                                    ELSE cmd[u]]
         /\ missed' = (missed \/ (edge /\ state_ # Normal))
  /\ last_motion' = [last_motion EXCEPT ![udp.uri] = udp.motion]
  /\ UdpIdle
  /\ UNCHANGED <<regvars, now, state_, sess, sessions, tick, due, active_lost,
                 reported, raced, heard, owed>>

\* motion 254: get and upsert with the fault set.  Only the comm_lost check
\* also writes a sensor's entry, and it writes fault = TRUE too, so the pair
\* is one step.
UdpFault ==
  /\ udp.pc = "fault"
  /\ Upsert(udp.uri, [dev[udp.uri] EXCEPT !.fault = TRUE, !.seen = now])
  /\ udp' = [udp EXCEPT !.pc = "fault_cb"]
  /\ reported' = reported \cup {udp.uri}
  /\ heard' = heard \cup {udp.uri}
  /\ owed' = owed \cup {<<udp.uri, "sensor_fault">>}
  /\ UNCHANGED <<now, state_, sess, sessions, cmd, last_motion, tick, due, active_lost, raced, missed>>

\* the sensor_fault callback: check of switch_to(FAULT_HANDLING)
UdpFaultCallback ==
  /\ udp.pc = "fault_cb"
  /\ udp' = [udp EXCEPT !.pc = IF MaySwitch(Fault) THEN "fault_switch" ELSE "fault_put"]
  /\ UNCHANGED <<regvars, now, state_, sess, sessions, cmd, last_motion, tick, due,
                 active_lost, hist>>

UdpFaultSwitch ==
  /\ udp.pc = "fault_switch"
  /\ state_' = Fault
  /\ udp' = [udp EXCEPT !.pc = "fault_put"]
  /\ UNCHANGED <<regvars, now, sess, sessions, cmd, last_motion, tick, due, active_lost, hist>>

\* ... the upsert of a zeroed, faulted SENSOR and the alarm
UdpFaultPut ==
  /\ udp.pc = "fault_put"
  /\ Upsert(udp.uri, [FreshDevice("SENSOR", udp.zone) EXCEPT !.fault = TRUE, !.seen = now])
  /\ owed' = owed \ {<<udp.uri, "sensor_fault">>}
  /\ UdpIdle
  /\ UNCHANGED <<now, state_, sess, sessions, cmd, last_motion, tick, due, active_lost,
                 reported, raced, heard, missed>>

UdpStep == UdpPut \/ UdpMotion \/ UdpFault \/ UdpFaultCallback \/ UdpFaultSwitch \/ UdpFaultPut

-----------------------------------------------------------------------------
(* schedule_comm_lost_check                                                *)

\* the timer fires (at the horizon of the model it keeps firing) and the
\* handler reads now_ms() before it waits for the registry's lock
TickFire ==
  /\ Running
  /\ tick.pc = "wait"
  /\ now >= due \/ now = MaxNow
  /\ tick' = [tick EXCEPT !.pc = "detect", !.at = now]
  /\ UNCHANGED <<regvars, now, state_, sess, sessions, cmd, udp, last_motion, due, active_lost, hist>>

\* detect_comm_lost(at, timeout).  An alarm is owed for the devices that
\* really were silent for longer than the timeout.
TickDetect ==
  /\ tick.pc = "detect"
  /\ DetectCommLost(tick.at)
  /\ LET lost == CommLost(tick.at)
     IN  /\ tick' = [tick EXCEPT !.pc = "loop", !.lost = lost, !.todo = lost]
         /\ heard' = heard \ lost
         /\ owed' = owed \cup {<<u, "comm_lost">> :
                                 u \in {v \in lost : tick.at - dev[v].seen > Timeout}}
  /\ UNCHANGED <<now, state_, sess, sessions, cmd, udp, last_motion, due, active_lost,
                 reported, raced, missed>>

\* one round of the loop over lost: for a uri new in active_lost the FSM is
\* asked to switch and an alarm is sent, whatever the FSM answers
TickLoop(u) ==
  /\ tick.pc = "loop"
  /\ u \in tick.todo
  /\ active_lost' = active_lost \cup {u}
  /\ IF u \in active_lost
     THEN tick' = [tick EXCEPT !.todo = @ \ {u}] /\ UNCHANGED owed
     ELSE IF MaySwitch(Fault)
          THEN tick' = [tick EXCEPT !.pc = "switch", !.uri = u, !.todo = @ \ {u}] /\ UNCHANGED owed
          ELSE tick' = [tick EXCEPT !.todo = @ \ {u}] /\ owed' = owed \ {<<u, "comm_lost">>}
  /\ UNCHANGED <<regvars, now, state_, sess, sessions, cmd, udp, last_motion, due,
                 reported, raced, heard, missed>>

TickSwitch ==
  /\ tick.pc = "switch"
  /\ state_' = Fault
  /\ tick' = [tick EXCEPT !.pc = "loop", !.uri = "none"]
  /\ owed' = owed \ {<<tick.uri, "comm_lost">>}
  /\ UNCHANGED <<regvars, now, sess, sessions, cmd, udp, last_motion, due, active_lost,
                 reported, raced, heard, missed>>

\* (*tick)(): the timer is armed again
Rearm == /\ tick' = [tick EXCEPT !.pc = "wait", !.at = 0, !.lost = {}, !.todo = {}]
         /\ due' = now + Period

\* A plausible slip: the set of lost devices is never emptied.
TickRecoverKeepsLost ==
  /\ tick.pc = "loop"
  /\ tick.todo = {}
  /\ IF active_lost = {} /\ state_ = Fault
     THEN tick' = [tick EXCEPT !.pc = "recover_switch"] /\ UNCHANGED due
     ELSE Rearm
  /\ UNCHANGED <<regvars, now, state_, sess, sessions, cmd, udp, last_motion, active_lost, hist>>

\* what this check did not newly find leaves active_lost; when it is empty
\* and fsm.get() is FAULT_HANDLING the FSM is switched back
TickRecover ==
  /\ tick.pc = "loop"
  /\ tick.todo = {}
  /\ active_lost' = active_lost \cap tick.lost
  /\ IF active_lost' = {} /\ state_ = Fault
     THEN tick' = [tick EXCEPT !.pc = "recover_switch"] /\ UNCHANGED due
     ELSE Rearm
  /\ UNCHANGED <<regvars, now, state_, sess, sessions, cmd, udp, last_motion, hist>>

\* switch_to(NORMAL_OPERATION): allowed from either state it can find
TickRecoverSwitch ==
  /\ tick.pc = "recover_switch"
  /\ MaySwitch(Normal)
  /\ state_' = Normal
  /\ Rearm
  /\ UNCHANGED <<regvars, now, sess, sessions, cmd, udp, last_motion, active_lost, hist>>

TickStep == \/ TickFire \/ TickDetect \/ TickSwitch \/ TickRecover \/ TickRecoverSwitch
            \/ \E u \in Uris : TickLoop(u)

\* The clock.  No handler is held up for longer than Late: the comm_lost
\* handler ends at most Late after its timer was due, the others at most Late
\* after they started.
Advance ==
  /\ Running
  /\ now < MaxNow
  /\ now < due + Late
  /\ \A c \in Sessions : sess[c].pc # "idle" => now < sess[c].at + Late
  /\ udp.pc # "idle" => now < udp.at + Late
  /\ now' = now + 1
  /\ UNCHANGED <<regvars, state_, sess, sessions, cmd, udp, last_motion, tick, due,
                 active_lost, hist>>

-----------------------------------------------------------------------------

\* what devices may send: a lamp whose zone is 0 is refused at registration
Messages ==
  \/ \E c \in Sessions, z \in Zones : Register(c, z) \/ FaultGet(c, z)
  \/ \E c \in Sessions, z \in Zones, on \in OnValues : StatusGet(c, z, on)
  \/ \E u \in Lamps : SessionClose(u)
  \/ \E s \in Sensors, m \in Motions : UdpReceive(s, m)

Next == \/ Boot \/ Advance \/ Messages
        \/ \E c \in Sessions : SessionStep(c)
        \/ UdpStep
        \/ TickStep

\* Threads run what is ready, the timer expires, time goes by; nothing is
\* assumed of the devices.
Fairness == /\ WF_vars(Boot) /\ WF_vars(Advance)
            /\ \A c \in Sessions : WF_vars(SessionStep(c))
            /\ WF_vars(UdpStep)
            /\ WF_vars(TickStep)

Spec == Init /\ [][Next]_vars /\ Fairness

-----------------------------------------------------------------------------
(* Properties                                                              *)

\* A motion command reaches every lamp the registry knows in the zone: whatever
\* handler last wrote the entry of a luminaire, get_lamps_in_zone of its zone
\* returns it (registry.hpp:36).
LampsReachable ==
  \A u \in Uris : dev[u].type = "LUMINAIRE" /\ dev[u].zone # 0
                    => u \in zone_to_lamps[dev[u].zone]

\* A fault a device reported itself (FAULT_REPORT, or motion = 254) stays in
\* the registry until the device registers again, whatever copies of the entry
\* the status, telemetry and comm_lost handlers write back; except when, at
\* the time of the report, handle_status of another session of the lamp was
\* between its get and its upsert (tls_device_server.hpp:139,154), which then
\* writes fault = false over it.
ReportedFaultSticks == \A u \in reported \ raced : dev[u].fault

\* Every fault and every real communication loss is alarmed by the time the
\* handler that found it is done, also when the FSM refused the switch to
\* FAULT_HANDLING because it is there already (regional_server.cpp:194,255,102).
EveryFaultAlarmed ==
  /\ \A c \in Sessions : sess[c].pc = "idle" => <<c, "device_fault">> \notin owed
  /\ udp.pc = "idle" => \A s \in Sensors : <<s, "sensor_fault">> \notin owed
  /\ tick.pc = "wait" => \A u \in Uris : <<u, "comm_lost">> \notin owed

\* A lamp that was sent a motion command since it registered was last sent the
\* one that fits the zone's last motion, unless an edge was dropped while the
\* FSM was in FAULT_HANDLING.  Stated for a region with one sensor.
CommandFitsMotion ==
  \A s \in Sensors, u \in Lamps :
    udp.pc = "idle" /\ ~missed /\ cmd[u] # "none" /\ u \in sessions
      => (cmd[u] = "ON" <=> last_motion[s] = 1)

\* One silence is one loss: a device is marked lost again only after it was
\* heard from again, so it is not alarmed every 5 seconds (regional_server.cpp:89).
OneLossPerSilence ==
  [][\A u \in Uris : tick.pc = "detect" /\ u \in tick'.lost => u \in heard]_vars

\* FAULT_HANDLING lasts only while checks find further losses: the comm_lost
\* timer is always armed again, and its next check finds another device lost
\* or brings the FSM back (regional_server.cpp:136).
FaultHandlingEnds ==
  state_ = Fault ~> state_ = Normal \/ (tick.pc = "loop" /\ tick.lost # {})

\* The race of a message with the check is the only way to a false loss: a device
\* detect_comm_lost takes for lost had been silent for longer than the timeout
\* when the check read the clock, or was stamped after that and before now.
LostIfSilentOrRaced ==
  [][\A u \in Uris : tick.pc = "detect" /\ u \in tick'.lost =>
       \/ tick.at - dev[u].seen > Timeout
       \/ tick.at < dev[u].seen /\ dev[u].seen <= now]_vars

\* registry.hpp:125: a device is lost "if no status/telemetry is received for
\* an extended period".
LostOnlyAfterSilence ==
  [][\A u \in Uris : tick.pc = "detect" /\ u \in tick'.lost
                       => now - dev[u].seen > Timeout]_vars

\* regional_server.cpp:127: "recovered -> remove from active_lost".
RemovedWhenRecovered ==
  [][\A u \in active_lost \ active_lost' : ~dev[u].fault]_vars
=============================================================================
