# A TLA+ model of the Smart Lighting System

The modules here model the Smart Lighting System (SLS): simulated luminaires and
sensors, the regional server they talk to, and the central server the regions
report to. TLC checks the modules on small instances, and TLAPS proves the
invariants that matter most for all instances. Every definition was translated
from the C++ source; `PROJECT.json` gives the lines each one models.

## 1. The system

    sensor_udp --UDP telemetry--> regional_server <==TLS==> luminaire_client
                                        |  (sync and alarms, one TLS connection each)
                                        v
    admin_cli --TLS query--> central_server --> SQLite

| Component | State | Operations | What is hard |
|---|---|---|---|
| Registry (`registry.hpp`) | device map, zone to lamps index, one mutex | upsert, get, detect_comm_lost, get_lamps_in_zone, aggregates | a handler's get and upsert are two critical sections; the index only grows; unsigned clock difference |
| Device sessions (`tls_device_server.hpp`) | session map of weak pointers; per session socket, uri, write queue | accept, handshake, REGISTER_REQ, STATUS_REPORT, FAULT_REPORT, on_close, send_cmd_to_uri | a device reconnects while its old session is alive; a write fails in the middle of a registration; the write queue on several threads without a strand |
| UDP telemetry server (`udp_telemetry_server.hpp`) | last_motion_ per uri | do_receive: upsert, motion edges, fault marker 254 | get and upsert race with the comm_lost check |
| Regional server (`regional_server.cpp`) | FSM, active_lost, comm_lost timer | fault, motion and sensor-fault callbacks, check every 5 s | switch_to without a lock on two or more threads; a clock read before a lock |
| Luminaire client (`luminaire_client.cpp`) | FSM, intensity, write queue, pending fault, four timers | connect, register, heartbeat, commands, fault, manual reset, reconnect | handlers already queued when their timer or socket is cancelled |
| Sensor (`sensor_udp.cpp`) | FSM, seconds, previous measurements, last heartbeat | tick, fault, reset | edges that pass while it is in FAULT |
| Region sync client (`region_sync_client.hpp`) | version_, two sockets | periodic sync, alarms | alarms share one socket; no timeout on the acknowledgement; version restarts at 0 |
| Central server (`central_server.cpp`, `central_tls_server.hpp`, `central_store.hpp`) | regions, at most 2000 alarms | REGION_SYNC_UP, ALARM_UP, queries | an older sync overwrites a newer one; acknowledged before stored |
| Database writer (`db.cpp`) | queue, worker thread, prepared statements | start, stop, enqueue, handle | rows of one event without a transaction; alarms written beside the worker |
| Protocol (`proto.hpp`), framing (`framed_tls.hpp`), TLS set-up (`pqc_tls.hpp`), `admin_cli.cpp` | none | encode, decode, read and write frames, print | u16 counts |

What makes each of them correct:

- registry and regional server: a reported fault is not lost to a stale copy, except
  when two sessions of the lamp overlap; every fault and loss is alarmed, a loss once;
  lamps are found by their zone; commands follow motion; FAULT_HANDLING ends unless
  there are further losses;
- sessions: commands go to the session that registered last; a closed session is
  forgotten and destroyed; one frame is written at a time;
- luminaire: what it reports is what it is; REGISTER_REQ is first on each
  connection; a fault report is not lost while the connection stands; a registration,
  a lamp in service and a closed connection each have their timer (resolve, connect
  and handshake have none in the code);
- sensor: edges and heartbeats are reported, and it returns from FAULT;
- sync and central: central shows whole reports, each at most once, and confirms
  only what it shows; it keeps up with a region that meets no error; the chain of
  syncs goes on;
- database: an event that was logged is written, or lost to a failed insert or a
  restart and to nothing else; no row is without its header;
- protocol and snapshot: what is decoded is what was encoded, and the
  administrator sees what the registries held at the last report central took, and
  the newest alarms.

`PROJECT.json` lists under "hazards" where each of these could go wrong.

## 2. Modules

**Registry** holds `dev` (the map of DeviceState, with a NONE entry for an unknown
uri) and `zone_to_lamps`. `Upsert` and `DetectCommLost` are the critical sections.
`Elapsed` is the difference of the clock values modulo `ClockMod`, which stands for
2^64. The address of a session and the text fields are left out.

**RegionalServer** extends it with the handlers that share it. A handler is cut
where another thread can get in: `StatusGet` and `StatusPut`, `FaultGet`,
`FaultPut`, `FaultCallback` and `FaultSwitch`, `UdpReceive`, `UdpPut`, `UdpMotion`,
`UdpFault...`, and `TickFire` (the clock is read), `TickDetect` (the lock is held),
`TickLoop`, `TickSwitch`, `TickRecover`, `TickRecoverSwitch` (the write of state_
after its check). `sess`, `udp` and `tick` hold what a running handler has in its
local variables. One datagram handler is outstanding at a time because do_receive
is called again at the end of the previous one; a session reads its next message
after on_message has returned. But a lamp that reconnects has a new session beside the
old one, whose handler may be between its get and its upsert: `Sessions` are the
sessions that exist at a time and `UriOf` is the lamp of each. `reported`, `raced`,
`heard`, `owed` and `missed` are history variables the properties speak of; `raced` has
the lamps that reported their fault while handle_status of another of their sessions
held an older copy of the entry.

**DeviceSessions** models the session map for one uri. A session is alive while its
chain of reads, a posted function or a write, or the shared_ptr of send_cmd_to_uri
holds it. Session names are used again once nobody holds them, so the number of
reconnects is not bounded.

**SessionWriteQueue** models `queue_send` and `do_write` access by access, for any
set of threads: neither a lock nor a strand orders them.

**LuminaireClient** models the lamp's process. Its io_context runs on one thread,
so a handler is one action and `ready`, the queue of handlers that may run, is what
the order of things comes from. A cancelled timer or a closed socket does not take
back a handler already in the queue. The network may fail at any step and deliver
any message. Each `Run...` action is a whole handler, with what it posts.

**SensorUdp** models the sensor: `AckDemo`, `Tick` (with the outcomes `Fault`,
`Report` and `Quiet`) and `ResetFires`. The measurements are functions of
`seconds_elapsed` with period 840, and the model keeps it modulo that. Ticks may
come late, so the reset timer, armed for FaultReset seconds, may expire after any
number of ticks below FaultReset.

**CentralStore** and **DbWriter** are the two parts of the central server that its
sessions share. The store's methods run under one lock and are operators from the
old contents to the new. The writer has its own variables: the queue `q_`, where the
worker is (`worker`, `ev`, `todo`) and the tables. Each insert is a step of its own
and may fail (`StepFails`), since central and regional servers write the same
`sls.db` without a busy timeout; `DbCrash` leaves only the tables.

**CentralSync** composes both with the regions' sync chains and the central
sessions. `stage` says what a region's chain waits for; `sess` holds the connections
central has a session for, with the report each one carries and how far it got.
`SessionLogs` and `SessionShows` are the two effects of on_message, cut between them
because another session may run there. `ChainFails` is every `if(ec)` branch of the
chain; the session at the other end goes on with a report it already has
(`GivenUp`). Both servers can be restarted at any point (`RegionRestarts`,
`CentralRestarts`). What the registry's two reads return is an input (`Figures`).

**RegionReports** is the abstract specification of the above: reports are issued,
shown, confirmed or lost. CentralSync implements it (`ReportsRefined`) with the
mapping `Pending`, `Answered`, `regions_`, `confirmed`. It deliberately promises
nothing about the order of two reports of one region: the code does not.

**RegionAlarms** models alarms operation by operation, because their chains share
`alarm_sock_`: `conn` is the connection the stream has, `tls` and `hello` its TLS
engine, `result` what a chain's handler will be given. `PostAlarm` destroys the stream
that is there: the operations under way on it (`UnderWay`) are aborted, one that had
completed keeps its result or fails, and since composed operations still refer to the
destroyed stream the process may end.

**WireFields** models the put_ and get_ functions of proto.hpp and the frames of
framed_tls.hpp over bytes to the base `Byte`; it has no recursion, so that it can be
proved about. `ReadFrame` is read_frame, which takes any length, as the region's client
does with its acknowledgements; `ReadFrameUpTo` is read_header and read_body of the
servers' sessions and the lamp, which refuse a length of 0 or over 1 MB. **ProtoCodec** extends it with the messages. An encode or decode function
is the list of its put_ or get_ calls, written down from that function, and `Encode`
and `Decode` run them. **AdminReport** sends the contents
of registries, the alarms and all other messages through it: zone_power_sum and
zone_device_summary, REGION_SYNC_UP, upsert_region, encode_admin_snapshot,
print_snapshot. A transfer is one step there; CentralSync and RegionAlarms have the
interleavings. `Limit` says which reader a message has; a report over central's limit
is refused (`SyncRefused`) and the last one stays. print_snapshot prints while it
decodes; the model has what it prints of a whole snapshot, and of one cut short only
that it ends in "decode snapshot fail".

The `..._proofs` modules hold the theorems about the module they are named after.
`MCRegionalServer` gives the sensors their zone, `MCCentralSync` and `MCAdminReport`
give figures, registries and messages. Definitions whose comment calls them a mutant,
or a plausible slip, are variants of a definition with a mistake in it. They are not part of a specification;
each shows that a property fails when the code has that mistake.

## 3. Runs

| Run | Checks | Result |
|---|---|---|
| `regional_core` (RegionalCore.cfg, 0.8 M states) | TypeOK, ReportedFaultSticks, EveryFaultAlarmed, CommandFitsMotion | a lamp with two sessions and a sensor of one zone, all handlers interleaved: holds |
| `regional_loss` (RegionalLoss.cfg, 0.4 M) | LampsReachable, ReportedFaultSticks, EveryFaultAlarmed, OneLossPerSilence, LostIfSilentOrRaced, FaultHandlingEnds | a lamp lost, back in another zone, silent again: holds |
| `regional_false_loss` | LostOnlyAfterSilence | violated; the race is the only cause (section 4) |
| `regional_recovered` | RemovedWhenRecovered | violated |
| `lamp` (LampCore.cfg, 0.3 M) | TypeOK, LitIffOn, StatusTold, OneWriteAtATime, RegisterFirst, FaultReportKept, NeverStranded, FaultEndsConnection, Retries, RegistrationEnds | holds |
| `lamp_fault_exit` | FaultLeftByReset | violated; the lost connection is the only other way out (FaultEndsConnection) |
| `device_sessions` (31 k) | NewestReachable, ClosedForgotten, ClosedSessionEnds | holds |
| `session_write_queue` | OneWriteAtATime | violated; holds of handlers that do not overlap (section 4) |
| `sensor` (Sensor.cfg, 27 k) | TypeOK, MotionTold, ActiveNotSilent, KeepsTalking | holds |
| `central_sync` (CentralSync.cfg, 23 k) | TypeOK, NewestShown, OneFigurePerVersion, NoOrphanRows, LoggedIsRecorded, ReportsRefined, SyncGoesOn, EventIsWritten | a region, central and the database with errors, failing inserts and restarts: holds |
| `region_alarms` | AlarmArrives | violated; holds of chains that do not overlap (section 4) |
| `admin_report` (AdminReport.cfg, 4 k) | RoundTrip, ShortRefused, FramesKept, AdminSeesRegistry, AdminSeesAlarms | two regions and their alarms, through the codec to the screen: holds |

The violations are disagreements between the code and what it says of itself:

- `registry.hpp:125` calls a device lost "if no status/telemetry is received for an
  extended period". The check reads the clock before it has the lock; a device
  heard from in between has a later last_seen_ms, the unsigned difference wraps and
  the device is lost at once.
- `regional_server.cpp:127` says "recovered -> remove from active_lost". The code
  removes every device the check did not newly find, and a lost device is not found
  again, so it is removed one check later while still lost.
- `luminaire_client.cpp:8` gives "FAULT -> IDLE (manual_reset)" as the exit from
  FAULT. A lost connection takes the lamp out of FAULT as well, and it registers
  again as if nothing had happened.
- `tls_device_server.hpp:66` is headed "WRITE QUEUE (SERIALIZE)". Two threads can
  both find writing_ false and write at the same time.
- `tests/test_06_alarm_lamp.sh:92` fails with "Expected alarm for ... not observed"
  when a fault's alarm does not reach central. Two alarms in a row, which the
  comm_lost check posts in a loop, share `alarm_sock_`: the second post_alarm
  (`region_sync_client.hpp:189`) destroys the stream on which the connect of the first
  is pending, which ends aborted, and nothing repeats it. Two chains that are both
  still resolving lose an alarm as well: the connect of one (line 198) closes the
  socket of the other.

Some properties hold with a qualification the code needs. ReportedFaultSticks excepts
a report that came while another session of the lamp was handling a status: that
handler read the entry before (`tls_device_server.hpp:139`) and writes fault = false
over the report afterwards (line 154). FaultHandlingEnds says that FAULT_HANDLING ends
or a check finds a further loss: devices lost in turn keep active_lost filled
(`regional_server.cpp:128`), and then the server stays in it. CommandFitsMotion excepts
edges dropped in FAULT_HANDLING (`regional_server.cpp:217,234`), which nothing makes
up for, and is stated for a region with one sensor: two sensors of
a zone command the same lamps. MotionTold excepts edges that pass
while the sensor is in FAULT. NewestShown is about regions that met no error: after
one, a report that was given up may be shown over a newer one. OneFigurePerVersion
ends with a restart of the region, whose versions begin at 1 again. SyncGoesOn
excepts a region that waits on a connection central no longer knows: read_ack has no
timeout. AdminSeesRegistry leaves out zones that have sensors only, which the
snapshot does not list.

### Bounds

- Regional server: one lamp, one sensor. All handlers work on one device entry, so
  the races between two of them show with one; the third party is the timer.
  `regional_core` has two sessions of the lamp, an old one and its replacement; they
  are interchangeable, so their symmetry is used (it checks invariants only). Its clock
  stands still and the check may run at any moment, so that losses aside every order of
  the handlers happens; its properties do not speak of time, and losses are the subject
  of `regional_loss`. There, one session is enough for a lamp that is lost, comes back and
  is lost again (Timeout 4, Period 1, MaxNow 9); two sessions are over 3 M states. The
  clock stops at MaxNow and the timer goes on firing there, so FaultHandlingEnds is
  checked for the losses that happen up to MaxNow, and its formula leaves room for
  those that a clock that goes on would bring. The invariants are proved for any number
  of lamps and sessions and any MaxNow. `Late` bounds how long a handler is held up. TimerAssumption asks for a timeout longer than a timer period with
  its delays, as in the README's and the tests' deployments (the argument is not
  validated).
- `ClockMod` 64 is far above MaxNow: the wrap of the 64-bit difference shows, the
  wrap of the clock itself (after 580 million years) does not.
- Luminaire: MaxQueue 3 holds back new input while the io_context's queue is that
  long, so that handlers of an old connection, an expired timer and a new message
  are queued together. Intensities 0 and 60 are the two cases SET_INTENSITY
  tells apart.
- Sessions: three at a time, one send each. Three are an old one, its replacement
  and the replacement's replacement; MaxSends 1 still lets a write fail beside a
  registration.
- Sensor: the whole period. HeartbeatS 5 puts heartbeats between the motion edges
  (six ticks apart), FaultReset 3 lets edges pass in FAULT.
- Central: one region, two syncs (one after a restart), one restart of the region and
  any number of central's. Two reports are what one needs to overwrite the other, and
  a restart with one report repeats a version. Regions share only the store's lock
  and the worker; the theorems are for any number of them. The two figures differ in
  their zones, and one was read while a lamp moved.
- Alarms: two, the smallest number that shares the socket.
- Codec: `Byte` 4, so that an u16 ends at 16 and an u32 at 256: MCAdminReport's
  powers overflow it and its fields reach both ends. The length of a list, at most
  three, does not reach the wrap of its count (65536 zones). MaxAlarms 2 with three
  alarms pushes the oldest out and leaves two in an order. MaxBody 60 takes every report
  about two zones and refuses the one about three; snapshots are longer than that and
  are read all the same.

### Fairness

Weak fairness is given to what the process runs by itself: ready handlers, expired
timers, the clock. Asio runs a ready handler while a thread is in io.run(), and no
handler blocks for ever. Nothing is assumed of devices, the network or messages:
a lamp need never connect, a server need never answer. In CentralSync it is given to
a region's chain while it can go on, to the sessions that have a report and to the
database worker. A handshake or a read that never completes stays so, and neither
errors nor restarts have to happen.

## 4. Theorems

The proofs hold for all values of the constants that satisfy the named assumptions,
which TLC evaluates in the runs. Where a theorem needs more of the constants, it says
so itself (ASSUME ... PROVE).

- `RegionalServer_proofs`: TypeCorrect, MotionFindsEveryLamp (LampsReachable) and
  ReportedFaultLostOnlyToOverlap (ReportedFaultSticks), from
  `IInv == TypeOK /\ LampsReachable /\ ReportedFaultSticks /\ Copies`. ReportedFaultSticks
  alone is not inductive: a handler may hold an old copy of the entry without the
  fault. `Copies` says that a copy under way has the fault if it has been reported,
  whichever session of the lamp holds it, unless the report met a status handler of
  another session on its way (`raced`). The theorem is for any number of sessions of any
  lamps: the overlap of two sessions is the only way to lose a reported fault.
  OneSilenceOneLoss (OneLossPerSilence) adds
  `Listened`: an entry without a fault has been heard from since it was last marked.
- `RegionalServer_proofs`, for every timing that TimerAssumption allows:
  EveryFaultIsAlarmed (EveryFaultAlarmed). The loop of the comm_lost check alarms a
  device only if it is new in active_lost, so a real loss would go unalarmed if the
  device was still there from the check before. `Clock` bounds how late handlers and
  the timer are; `Silences` follows from it that a device in active_lost is either
  still marked, and then not found again, or was stamped so recently that it cannot
  be over the timeout at the next check; `Owing` names the handler that still has
  each alarm to send. This is where Period + 3 * Late <= Timeout is needed: with a
  timeout shorter than the period a device that comes back during a check and falls
  silent again is found by the next one, and its second loss is not alarmed.
- `RegionalServer_proofs`: CommandsFitMotion (CommandFitsMotion),
  with the hypothesis OneSensor, from `Fits`: the zone a running handler will command
  is its sensor's, and a lamp once commanded is commanded by every later edge while
  its session is in the map, because the index never loses a lamp (IndexGrows).
  FalseLossIsARace (LostIfSilentOrRaced), for every timing: a device the check takes
  for lost was silent for longer than the timeout when the clock was read, or was
  stamped after that and before the lock. `Stamps` says that no stamp is ahead of the
  clock and the clock is below ClockMod, so the difference wraps only in that race:
  the violation of `regional_false_loss` has no other cause.
- `LuminaireClient_proofs`: LampTypeCorrect, LampLit, LampTellsItsStatus from
  `Service == TypeOK /\ LitIffOn /\ StatusTold`, for any length of the queues.
- `LuminaireClient_proofs`, for any length of the queue of ready handlers: LampOneWrite,
  LampRegistersFirst, LampNeverStranded, LampFaultReportKept (OneWriteAtATime,
  RegisterFirst, NeverStranded, FaultReportKept). None of them is inductive, since
  handlers of a closed socket or a cancelled timer stay in the queue and run later.
  `Link` says what can be in the queue in each state of the connection: one completed
  or outstanding write for writing_ (`Serial`), nothing of the previous connection once
  the next is being made (`Clean`), a posted REGISTER_REQ with only timers before it
  until something is written (`RegisterNext`), one reconnect for a closed connection
  (`Redial`). Clean rests on the 2 s of timer_reconnect_ outlasting the handlers
  schedule_reconnect left in the queue, which is the guard of TimerExpires. The proofs
  use the laws of two predicates on queues, `In` and `Sole`, and not their elements.
  LampFaultEndsConnection (FaultEndsConnection): of all handlers only
  schedule_reconnect takes the lamp out of FAULT, and it closes the connection. The
  manual reset takes this way too, as its handler ends in schedule_reconnect.
- `DeviceSessions_proofs`: NewestSessionReachable, from TypeOK, NewestReachable and
  OpenIsAlive, which says that an open socket still has its chain of reads.
- `SensorUdp_proofs`: SensorTypeCorrect, SensorTellsMotion, SensorNeverSilent, for
  any thresholds, heartbeat and reset delay, from an invariant that adds
  SilenceWithinAge (last_heartbeat is no later than the last thing sent) and
  FaultMissed.
- `CentralSync_proofs`, for any regions, zones, figures, versions and restarts:
  TypeCorrect; Refinement (ReportsRefined), from `Chains`: a chain under way carries
  the newest version of its region, no session has a report from the future, a report
  has at most one session and none before connect, so that a report is issued and
  shown once; KeepsUp (NewestShown), from `Fresh`: while a region meets no error all
  its sessions are for the report it waits with; OneFigure (OneFigurePerVersion), from
  `Figured`: of all events logged or still to be logged, one has a given region, run
  and version, and the rows are theirs; NoOrphans and NothingForgotten (NoOrphanRows,
  LoggedIsRecorded), from `InHand`: what the worker has inserted of the event in its
  hands.
- `RegionAlarms_proofs`, about the chains whose loss of alarms the run `region_alarms`
  shows: CentralKeepsAlarmOnce, whatever the chains do to each other (an alarm is
  unsent, in one frame, or in central's list: `Once`), and LoneAlarmArrives: an alarm
  whose chain is active while no other is does arrive unless the network fails,
  whatever the chains before and after it did (`Own`: it finds its own stream,
  connection and handshake at every stage). AlarmsFarApartArrive concludes
  AlarmArrives when no two chains overlap. So sharing `alarm_sock_` is the only cause
  of the violation. NumAlarms <= MaxAlarms is a hypothesis of the last two, as
  push_alarm drops the oldest alarm of a full list. NewestAlarmsKept says what it keeps
  for every list and limit: pushing onto the newest `max` of some alarms gives the
  newest `max` of them and the new one.
- `SessionWriteQueue_proofs`: StrandSerializes, for any number of threads and frames.
  The run `session_write_queue` violates OneWriteAtATime; here the hypothesis
  `HandlersInTurn`, that no two handlers of the session overlap, is what a strand or a
  single thread would give, and under it OneWriteAtATime holds and do_write never pops
  from an empty queue (`Serial`: writing_ is set while a frame is being written, and
  do_write is entered only when none is). So the missing strand is the only cause.
- `WireFields_proofs`, for every base, value and following bytes: NumberReadBack,
  StringReadBack and FrameReadBack. `Reads` says what a get_ on the first n bytes of a
  field and its rest gives: Underflow if the field is cut, else the value and exactly
  the rest. A number comes back modulo its width, a string if it is shorter than the
  u16 length allows (put_str throws otherwise), a frame if its length fits the u32:
  read_frame takes it whatever the length, the readers with a limit exactly when it is
  within it. These are the steps of RoundTrip, ShortRefused and FramesKept for
  one field and one frame.

Only model-checked: all liveness (FaultHandlingEnds, Retries, RegistrationEnds,
ClosedForgotten, ClosedSessionEnds, KeepsTalking, SyncGoesOn, EventIsWritten), as the
installed prover has no support for fairness and ENABLED; and the properties of
AdminReport (RoundTrip, ShortRefused, FramesKept, AdminSeesRegistry, AdminSeesAlarms),
as a message, a stream of frames and the aggregates are recursive over data and their
correctness for every input is an induction the prover cannot do. What each field,
each frame and each push onto the alarm list does is proved (WireFields_proofs,
NewestAlarmsKept). Every other property of a passing run has a theorem.

## 5. Not modelled

- TLS and PQC settings (`pqc_tls.hpp`): OpenSSL configuration at start. A handshake
  succeeds or fails.
- The single-row events of DbWriter (device, lamp status, fault, command), which the
  regional servers log and nothing reads back; DbWriter's stop, which no process
  reaches, as both servers run until they are killed. SQL statements are SQLite's.
- put_str's exception for strings over 65535 bytes (StringReadBack is about the
  others), and values of 2^31 and more as such in the runs: the codec's numbers wrap at
  powers of `Byte`, not of 256.
- The data race of two threads on the unique_ptr `alarm_sock_` itself. That a stream is
  destroyed under an operation that still refers to it (a connect, or an operation of the
  TLS layer) is modelled: a choice between the result it had, an aborted operation and
  the end of the process.
- Connecting in `admin_cli.cpp`: blocking, and it ends the process when it fails.
- Log output, the process's stop timers and signals: they end the process.
- Lux and temperature at the server: logged only.

## 6. Plan

1. The regional servers' database events, with `devices` ("zadnje poznato stanje po
   URI", `schema.sql:4`) against the registry.
2. A composition of sensor, lossy and reordering UDP, regional server and lamp, with
   an abstract specification of "lamps follow motion" it implements outside faults.
