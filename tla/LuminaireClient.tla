-------------------------- MODULE LuminaireClient ---------------------------
(***************************************************************************)
(* The luminaire process (luminaire_client.cpp, class LuminaireClient).    *)
(*                                                                         *)
(* One thread runs the io_context, so a completion handler is one atomic   *)
(* action, and what is hard is their order.  ready is the io_context's     *)
(* queue of handlers that may run, first in first out: a posted function,  *)
(* a timer that expired, an operation on the socket that completed.        *)
(* Cancelling a timer or closing the socket does not take back a handler   *)
(* that is in the queue already; closing makes the operations outstanding  *)
(* on the socket complete with an error, and so does starting one on a     *)
(* closed socket.  A cancelled timer wait returns at once (if(ec) return)  *)
(* and is left out.                                                        *)
(*                                                                         *)
(* The network and the regional server are the environment: a connection   *)
(* attempt, a write or a read may fail at any point and any message may be *)
(* received.  The header and the body of a frame are read as one step.     *)
(* timer_stop_ ends the process and is not modelled, and heartbeat_s_ is   *)
(* positive (the default is 10).                                           *)
(***************************************************************************)
EXTENDS Integers, Sequences

CONSTANTS Intensities,  \* the values SET_INTENSITY carries
          MaxQueue      \* bound: no new input while this much work is queued

ASSUME IntensityAssumption == Intensities \subseteq 0 .. 255
ASSUME QueueAssumption == MaxQueue \in Nat

VARIABLES
  state_,          \* LampState
  intensity_,
  conn,            \* the socket: the stage of do_connect, "open" or "closed"
  reading,         \* an async_read is outstanding
  inflight,        \* async writes outstanding
  out_q_, writing_,
  pending_fault_,
  armed,           \* timers waiting to expire
  ready,           \* the io_context's queue of handlers
  \* history
  first,           \* the first message written on this connection
  told,            \* on and intensity of the last STATUS_REPORT
  fault_out        \* a FAULT_REPORT was written since the last fault was detected

link == <<conn, reading, inflight>>
vars == <<state_, intensity_, conn, reading, inflight, out_q_, writing_, pending_fault_,
          armed, ready, first, told, fault_out>>

LampState == {"IDLE", "UNREGISTERED", "REGISTERING", "OFF", "ON", "FAULT"}

transitions_ == {<<"IDLE", "UNREGISTERED">>, <<"UNREGISTERED", "REGISTERING">>,
                 <<"REGISTERING", "OFF">>, <<"REGISTERING", "UNREGISTERED">>,
                 <<"OFF", "ON">>, <<"ON", "OFF">>,
                 <<"ON", "FAULT">>, <<"OFF", "FAULT">>, <<"FAULT", "IDLE">>}

Conn   == {"resolving", "connecting", "handshaking", "open", "closed"}
Timers == {"register", "reconnect", "heartbeat", "reset"}
OutMsg == {"REGISTER_REQ", "STATUS_REPORT", "FAULT_REPORT"}
InMsg  == {"REGISTER_ACK", "REGISTER_NACK", "SWITCH_ON", "SWITCH_OFF", "SET_INTENSITY",
           "FAULT_ACK"}
Result == {"ok", "error"}

\* a handler in the queue: what completed, with what, and a command's value
Handler == [k : {"post", "timer", "read", "write", "connect"},
            m : OutMsg \cup Timers \cup InMsg \cup Result, v : 0 .. 255]

H(k, m) == [k |-> k, m |-> m, v |-> 0]

\* IDLE is left again by every handler that enters it
TypeOK ==
  /\ state_ \in LampState \ {"IDLE"}
  /\ intensity_ \in 0 .. 255
  /\ conn \in Conn
  /\ reading \in BOOLEAN
  /\ inflight \in Nat
  /\ out_q_ \in Seq(OutMsg)
  /\ writing_ \in BOOLEAN
  /\ pending_fault_ \in BOOLEAN
  /\ armed \subseteq Timers
  /\ ready \in Seq(Handler)
  /\ first \in OutMsg \cup {"none"}
  /\ told \in [on : BOOLEAN, intensity : 0 .. 255]
  /\ fault_out \in BOOLEAN

\* start(): IDLE -> UNREGISTERED, do_connect and the reset timer
Init ==
  /\ state_ = "UNREGISTERED"
  /\ intensity_ = 0
  /\ conn = "resolving"
  /\ reading = FALSE
  /\ inflight = 0
  /\ out_q_ = <<>>
  /\ writing_ = FALSE
  /\ pending_fault_ = FALSE
  /\ armed \in {{}, {"reset"}}
  /\ ready = <<>>
  /\ first = "none"
  /\ told = [on |-> FALSE, intensity |-> 0]
  /\ fault_out = FALSE

-----------------------------------------------------------------------------
(* Parts of handlers                                                       *)

\* the handler of kind k for m is the next to run
Runs(k, m) == ready # <<>> /\ Head(ready).k = k /\ Head(ready).m = m

\* SwitchToState: refused unless the pair is in the matrix
MaySwitch(next) == <<state_, next>> \in transitions_

\* what closing the socket adds to the queue
Aborted == (IF reading THEN <<H("read", "error")>> ELSE <<>>)
           \o [i \in 1 .. inflight |-> H("write", "error")]

\* A plausible slip: the send queue is not reset.
ReconnectKeepsQueue(more) ==
  /\ conn' = "closed" /\ reading' = FALSE /\ inflight' = 0
  /\ ready' = Tail(ready) \o Aborted \o more
  /\ armed' = (armed \ {"register", "heartbeat"}) \cup {"reconnect"}
  /\ out_q_' = out_q_
  /\ writing_' = FALSE
  /\ state_' = "UNREGISTERED"

\* A plausible slip: the connection is closed and the timer not set.
ReconnectUntimed(more) ==
  /\ conn' = "closed" /\ reading' = FALSE /\ inflight' = 0
  /\ ready' = Tail(ready) \o Aborted \o more
  /\ armed' = armed \ {"register", "heartbeat"}
  /\ out_q_' = <<>>
  /\ writing_' = FALSE
  /\ state_' = "UNREGISTERED"

\* schedule_reconnect: close, cancel, clear the queue, force UNREGISTERED past
\* the matrix, wait 2 s.  pending_fault_ is left as it is.
ScheduleReconnect(more) ==
  /\ conn' = "closed" /\ reading' = FALSE /\ inflight' = 0
  /\ ready' = Tail(ready) \o Aborted \o more
  /\ armed' = (armed \ {"register", "heartbeat"}) \cup {"reconnect"}
  /\ out_q_' = <<>>
  /\ writing_' = FALSE
  /\ state_' = "UNREGISTERED"

\* do_write with the queue q: the next message is handed to the socket, and
\* on a closed socket the write's failure is ready at once
DoWrite(q, posts) ==
  IF q = <<>>
  THEN /\ writing_' = FALSE
       /\ out_q_' = q
       /\ ready' = Tail(ready) \o posts
       /\ UNCHANGED <<inflight, first, fault_out>>
  ELSE /\ writing_' = TRUE
       /\ out_q_' = Tail(q)
       /\ IF conn = "open"
          THEN /\ inflight' = inflight + 1
               /\ ready' = Tail(ready) \o posts
               /\ first' = IF first = "none" THEN Head(q) ELSE first
               /\ fault_out' = (fault_out \/ Head(q) = "FAULT_REPORT")
          ELSE /\ ready' = Tail(ready) \o posts \o <<H("write", "error")>>
               /\ UNCHANGED <<inflight, first, fault_out>>

\* read_loop at the end of a read handler, after the handler's posts
ReadLoop(posts) ==
  /\ reading' = (conn = "open")
  /\ ready' = Tail(ready) \o posts
              \o (IF conn = "open" THEN <<>> ELSE <<H("read", "error")>>)

StatusOf(state, intensity) == [on |-> state = "ON", intensity |-> intensity]

\* send_status and then maybe_simulate_fault in state s with intensity i, in
\* a read handler.  A simulated fault's report is posted, or left pending
\* while the write queue is busy.
StatusThenMaybeFault(s, i) ==
  LET status == <<H("post", "STATUS_REPORT")>>
      report == <<H("post", "FAULT_REPORT")>>
      busy   == writing_ \/ out_q_ # <<>>
  IN  /\ intensity_' = i
      /\ told' = StatusOf(s, i)
      /\ \/ /\ state_' = s
            /\ ReadLoop(status)
            /\ UNCHANGED <<pending_fault_, fault_out>>
         \/ /\ <<s, "FAULT">> \in transitions_
            /\ state_' = "FAULT"
            /\ pending_fault_' = (pending_fault_ \/ busy)
            /\ fault_out' = FALSE
            /\ ReadLoop(IF busy THEN status ELSE status \o report)

-----------------------------------------------------------------------------
(* The environment: operations complete and timers expire                  *)

Queued(k, m) == \E i \in 1 .. Len(ready) : ready[i].k = k /\ ready[i].m = m

Room == Len(ready) + Len(out_q_) < MaxQueue

\* resolve, connect or handshake completes
ConnectCompletes(r) ==
  /\ conn \in {"resolving", "connecting", "handshaking"}
  /\ \A x \in Result : ~Queued("connect", x)
  /\ ready' = Append(ready, H("connect", r))
  /\ UNCHANGED <<state_, intensity_, link, out_q_, writing_, pending_fault_, armed,
                 first, told, fault_out>>

ReadCompletes(m, v) ==
  /\ reading
  /\ Room
  /\ reading' = FALSE
  /\ ready' = Append(ready, [k |-> "read", m |-> m, v |-> v])
  /\ UNCHANGED <<state_, intensity_, conn, inflight, out_q_, writing_, pending_fault_, armed,
                 first, told, fault_out>>

WriteCompletes(r) ==
  /\ inflight > 0
  /\ inflight' = inflight - 1
  /\ ready' = Append(ready, H("write", r))
  /\ UNCHANGED <<state_, intensity_, conn, reading, out_q_, writing_, pending_fault_, armed,
                 first, told, fault_out>>

\* The 2 s of timer_reconnect_ outlast the handlers that schedule_reconnect
\* left in the queue; the other timers may expire at any moment.
TimerExpires(t) ==
  /\ t \in armed
  /\ t = "reconnect" => \A i \in 1 .. Len(ready) : ready[i].k = "timer"
  /\ t = "heartbeat" => Room
  /\ armed' = armed \ {t}
  /\ ready' = Append(ready, H("timer", t))
  /\ UNCHANGED <<state_, intensity_, link, out_q_, writing_, pending_fault_,
                 first, told, fault_out>>

-----------------------------------------------------------------------------
(* Handlers                                                                *)

\* do_connect: resolved, then connected
RunConnectStage ==
  /\ Runs("connect", "ok")
  /\ conn \in {"resolving", "connecting"}
  /\ conn' = IF conn = "resolving" THEN "connecting" ELSE "handshaking"
  /\ ready' = Tail(ready)
  /\ UNCHANGED <<state_, intensity_, reading, inflight, out_q_, writing_, pending_fault_, armed,
                 first, told, fault_out>>

\* A plausible slip: the registration is not timed.
RunHandshakeUntimed ==
  /\ Runs("connect", "ok")
  /\ conn = "handshaking"
  /\ conn' = "open"
  /\ reading' = TRUE
  /\ state_' = "REGISTERING"
  /\ ready' = Append(Tail(ready), H("post", "REGISTER_REQ"))
  /\ UNCHANGED <<intensity_, inflight, out_q_, writing_, pending_fault_, armed, first, told,
                 fault_out>>

\* handshake done: send_register (a state other than the first two is put back
\* to UNREGISTERED; from REGISTERING the switch is refused) and read_loop
RunHandshakeDone ==
  /\ Runs("connect", "ok")
  /\ conn = "handshaking"
  /\ conn' = "open"
  /\ reading' = TRUE
  /\ IF state_ = "REGISTERING"
     THEN ready' = Tail(ready) /\ UNCHANGED <<state_, armed>>
     ELSE /\ state_' = "REGISTERING"
          /\ ready' = Append(Tail(ready), H("post", "REGISTER_REQ"))
          /\ armed' = armed \cup {"register"}
  /\ UNCHANGED <<intensity_, inflight, out_q_, writing_, pending_fault_, first, told, fault_out>>

\* any stage failed, or a read or a write did
RunFailure ==
  /\ \E k \in {"connect", "read", "write"} : Runs(k, "error")
  /\ ScheduleReconnect(<<>>)
  /\ UNCHANGED <<intensity_, pending_fault_, first, told, fault_out>>

\* A plausible slip: the posted function does not look at writing_.
RunPostUnserialised(m) ==
  /\ Runs("post", m)
  /\ DoWrite(Append(out_q_, m), <<>>)
  /\ UNCHANGED <<state_, intensity_, conn, reading, pending_fault_, armed, told>>

\* the function queue_send posts
RunPost(m) ==
  /\ Runs("post", m)
  /\ IF writing_
     THEN /\ out_q_' = Append(out_q_, m)
          /\ ready' = Tail(ready)
          /\ UNCHANGED <<inflight, writing_, first, fault_out>>
     ELSE DoWrite(Append(out_q_, m), <<>>)
  /\ UNCHANGED <<state_, intensity_, conn, reading, pending_fault_, armed, told>>

\* A plausible slip: a pending fault is sent only when the queue has run dry.
RunWriteDonePendingLater ==
  /\ Runs("write", "ok")
  /\ LET send == pending_fault_ /\ out_q_ # <<>>
     IN  /\ DoWrite(out_q_, IF send THEN <<H("post", "FAULT_REPORT")>> ELSE <<>>)
         /\ pending_fault_' = (pending_fault_ /\ ~send)
  /\ UNCHANGED <<state_, intensity_, conn, reading, armed, told>>

\* a write succeeded: a pending fault is sent now, and the queue goes on
RunWriteDone ==
  /\ Runs("write", "ok")
  /\ DoWrite(out_q_, IF pending_fault_ THEN <<H("post", "FAULT_REPORT")>> ELSE <<>>)
  /\ pending_fault_' = FALSE
  /\ UNCHANGED <<state_, intensity_, conn, reading, armed, told>>

\* REGISTER_ACK: the matrix lets it in from REGISTERING, and from ON
RunRegisterAck ==
  /\ Runs("read", "REGISTER_ACK")
  /\ IF MaySwitch("OFF")
     THEN /\ state_' = "OFF"
          /\ intensity_' = 0
          /\ told' = StatusOf("OFF", 0)
          /\ armed' = (armed \ {"register"}) \cup {"heartbeat"}
          /\ ReadLoop(<<H("post", "STATUS_REPORT")>>)
     ELSE /\ armed' = armed \ {"register"}
          /\ ReadLoop(<<>>)
          /\ UNCHANGED <<state_, intensity_, told>>
  /\ UNCHANGED <<conn, inflight, out_q_, writing_, pending_fault_, first, fault_out>>

\* REGISTER_NACK: reconnect, and then read_loop on the socket just closed
RunRegisterNack ==
  /\ Runs("read", "REGISTER_NACK")
  /\ ScheduleReconnect(<<H("read", "error")>>)
  /\ UNCHANGED <<intensity_, pending_fault_, first, told, fault_out>>

\* A plausible slip: the lamp is switched on and does not say so.
RunSwitchOnUnreported ==
  /\ Runs("read", "SWITCH_ON")
  /\ IF state_ = "OFF"
     THEN state_' = "ON" /\ intensity_' = IF intensity_ > 30 THEN intensity_ ELSE 30
     ELSE UNCHANGED <<state_, intensity_>>
  /\ ReadLoop(<<>>)
  /\ UNCHANGED <<told, pending_fault_, fault_out, conn, inflight, out_q_, writing_, armed, first>>

\* A plausible slip: SWITCH_ON is heeded in every state but ON.
RunSwitchOnUnlessOn ==
  /\ Runs("read", "SWITCH_ON")
  /\ IF state_ # "ON"
     THEN StatusThenMaybeFault("ON", IF intensity_ > 30 THEN intensity_ ELSE 30)
     ELSE ReadLoop(<<>>) /\ UNCHANGED <<state_, intensity_, told, pending_fault_, fault_out>>
  /\ UNCHANGED <<conn, inflight, out_q_, writing_, armed, first>>

\* CMD SWITCH_ON, heeded only in OFF
RunSwitchOn ==
  /\ Runs("read", "SWITCH_ON")
  /\ IF state_ = "OFF"
     THEN StatusThenMaybeFault("ON", IF intensity_ > 30 THEN intensity_ ELSE 30)
     ELSE ReadLoop(<<>>) /\ UNCHANGED <<state_, intensity_, told, pending_fault_, fault_out>>
  /\ UNCHANGED <<conn, inflight, out_q_, writing_, armed, first>>

\* A plausible slip: the intensity is left as it was.
RunSwitchOffKeepsIntensity ==
  /\ Runs("read", "SWITCH_OFF")
  /\ IF state_ = "ON"
     THEN /\ state_' = "OFF"
          /\ told' = StatusOf("OFF", intensity_)
          /\ ReadLoop(<<H("post", "STATUS_REPORT")>>)
     ELSE ReadLoop(<<>>) /\ UNCHANGED <<state_, told>>
  /\ UNCHANGED <<intensity_, conn, inflight, out_q_, writing_, pending_fault_, armed, first, fault_out>>

\* CMD SWITCH_OFF, heeded only in ON
RunSwitchOff ==
  /\ Runs("read", "SWITCH_OFF")
  /\ IF state_ = "ON"
     THEN /\ state_' = "OFF"
          /\ intensity_' = 0
          /\ told' = StatusOf("OFF", 0)
          /\ ReadLoop(<<H("post", "STATUS_REPORT")>>)
     ELSE ReadLoop(<<>>) /\ UNCHANGED <<state_, intensity_, told>>
  /\ UNCHANGED <<conn, inflight, out_q_, writing_, pending_fault_, armed, first, fault_out>>

\* CMD SET_INTENSITY: taken in every state, and switches ON or OFF
RunSetIntensity ==
  /\ Runs("read", "SET_INTENSITY")
  /\ LET v == Head(ready).v
         s == IF v = 0 /\ state_ = "ON" THEN "OFF"
              ELSE IF v > 0 /\ state_ = "OFF" THEN "ON" ELSE state_
     IN  IF s \in {"ON", "OFF"}
         THEN StatusThenMaybeFault(s, v)
         ELSE /\ intensity_' = v
              /\ ReadLoop(<<>>)
              /\ UNCHANGED <<state_, told, pending_fault_, fault_out>>
  /\ UNCHANGED <<conn, inflight, out_q_, writing_, armed, first>>

\* FAULT_ACK and every other type: logged or ignored
RunOtherMessage ==
  /\ Runs("read", "FAULT_ACK")
  /\ ReadLoop(<<>>)
  /\ UNCHANGED <<state_, intensity_, conn, inflight, out_q_, writing_, pending_fault_, armed,
                 first, told, fault_out>>

Ignored == /\ ready' = Tail(ready)
           /\ UNCHANGED <<state_, link, out_q_, writing_, armed>>

\* timer_register_timeout_: only a lamp still REGISTERING reconnects
RunRegisterTimeout ==
  /\ Runs("timer", "register")
  /\ IF state_ = "REGISTERING" THEN ScheduleReconnect(<<>>) ELSE Ignored
  /\ UNCHANGED <<intensity_, pending_fault_, first, told, fault_out>>

\* timer_heartbeat_: a status in ON, OFF or FAULT, and the next heartbeat
RunHeartbeat ==
  /\ Runs("timer", "heartbeat")
  /\ IF state_ \in {"ON", "OFF", "FAULT"}
     THEN /\ ready' = Append(Tail(ready), H("post", "STATUS_REPORT"))
          /\ told' = StatusOf(state_, intensity_)
     ELSE ready' = Tail(ready) /\ UNCHANGED told
  /\ armed' = armed \cup {"heartbeat"}
  /\ UNCHANGED <<state_, intensity_, link, out_q_, writing_, pending_fault_, first, fault_out>>

\* timer_reconnect_: do_connect with a new socket
RunReconnect ==
  /\ Runs("timer", "reconnect")
  /\ conn' = "resolving"
  /\ ready' = Tail(ready)
  /\ first' = "none"
  /\ UNCHANGED <<state_, intensity_, reading, inflight, out_q_, writing_, pending_fault_, armed,
                 told, fault_out>>

\* A plausible slip: manual_reset ends with the switch to IDLE.
RunManualResetStaysIdle ==
  /\ Runs("timer", "reset")
  /\ state_' = IF state_ = "FAULT" THEN "IDLE" ELSE state_
  /\ ready' = Tail(ready)
  /\ UNCHANGED <<link, out_q_, writing_, armed, intensity_, pending_fault_, first, told, fault_out>>

\* timer_reset_ (set once, in start): manual_reset, FAULT -> IDLE ->
\* UNREGISTERED and a reconnect
RunManualReset ==
  /\ Runs("timer", "reset")
  /\ IF state_ = "FAULT" THEN ScheduleReconnect(<<>>) ELSE Ignored
  /\ UNCHANGED <<intensity_, pending_fault_, first, told, fault_out>>

-----------------------------------------------------------------------------

Environment ==
  \/ \E r \in Result : ConnectCompletes(r) \/ WriteCompletes(r)
  \/ \E m \in (InMsg \cup {"error"}) \ {"SET_INTENSITY"} : ReadCompletes(m, 0)
  \/ \E v \in Intensities : ReadCompletes("SET_INTENSITY", v)
  \/ \E t \in Timers : TimerExpires(t)

RunHandler ==
  \/ RunConnectStage \/ RunHandshakeDone \/ RunFailure
  \/ \E m \in OutMsg : RunPost(m)
  \/ RunWriteDone
  \/ RunRegisterAck \/ RunRegisterNack
  \/ RunSwitchOn \/ RunSwitchOff \/ RunSetIntensity \/ RunOtherMessage
  \/ RunRegisterTimeout \/ RunHeartbeat \/ RunReconnect \/ RunManualReset

Next == Environment \/ RunHandler

\* The thread runs what is ready and timers expire; the network owes nothing.
Fairness == /\ WF_vars(RunHandler)
            /\ \A t \in {"register", "reconnect"} : WF_vars(TimerExpires(t))

Spec == Init /\ [][Next]_vars /\ Fairness

-----------------------------------------------------------------------------
(* Properties                                                              *)

\* The lamp is lit exactly when it says so: ON with an intensity, OFF with
\* none, whatever mix of commands, registrations and reconnects came before.
LitIffOn == /\ state_ = "ON" => intensity_ > 0
            /\ state_ = "OFF" => intensity_ = 0

\* The last STATUS_REPORT handed to queue_send tells the present state and
\* intensity of a lamp in service: no command changes them unreported.
StatusTold == state_ \in {"ON", "OFF"} => told = StatusOf(state_, intensity_)

\* Writes on the TLS stream are serialized (luminaire_client.cpp:196), also
\* across the reset of writing_ in schedule_reconnect.
OneWriteAtATime == inflight <= 1

\* The first frame on every connection is REGISTER_REQ: nothing that was
\* queued or posted for the previous connection goes out before it.
RegisterFirst == first \in {"none", "REGISTER_REQ"}

\* While the connection stands, the report of a fault is sent, queued or, if
\* pending, waits for a write whose completion will send it.
FaultReportKept ==
  conn = "open" /\ state_ = "FAULT" =>
    \/ fault_out
    \/ \E i \in 1 .. Len(out_q_) : out_q_[i] = "FAULT_REPORT"
    \/ Queued("post", "FAULT_REPORT")
    \/ pending_fault_ /\ (inflight > 0 \/ Queued("write", "ok") \/ Queued("write", "error"))

Awaited(t) == t \in armed \/ Queued("timer", t)

\* A timer will move the lamp on: a registration times out, a lamp in service
\* sends heartbeats, a closed connection is retried; and while a connection is
\* being made, which the code does not time, no second one is started.
NeverStranded ==
  /\ state_ = "REGISTERING" => Awaited("register")
  /\ state_ \in {"OFF", "ON", "FAULT"} => Awaited("heartbeat")
  /\ conn = "closed" <=> Awaited("reconnect")

\* Every lost connection is tried again.
Retries == conn = "closed" ~> conn = "resolving"

\* A registration the server never answers is given up.
RegistrationEnds == state_ = "REGISTERING" ~> state_ # "REGISTERING"

\* A faulted lamp returns to service only through a new connection and a new
\* registration: no command, acknowledgement or late handler of an earlier
\* connection takes it out of FAULT while its connection stands.
FaultEndsConnection ==
  [][state_ = "FAULT" /\ state_' # "FAULT" => state_' = "UNREGISTERED" /\ conn' = "closed"]_vars

\* luminaire_client.cpp:8: "FAULT -> IDLE (manual_reset)" is the way out of FAULT.
FaultLeftByReset ==
  [][state_ = "FAULT" /\ state_' # "FAULT" => Runs("timer", "reset")]_vars
=============================================================================
