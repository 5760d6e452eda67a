----------------------- MODULE LuminaireClient_proofs -----------------------
(***************************************************************************)
(* What holds of the luminaire client for every set of intensities and     *)
(* every length of its queues.                                             *)
(***************************************************************************)
EXTENDS LuminaireClient, SequenceTheorems, TLAPS

\* the invariant proved here: what a lamp in service is and what it told
Service == TypeOK /\ LitIffOn /\ StatusTold

\* Sequences of no and of one element.
LEMMA SmallSeqs ==
  ASSUME NEW S
  PROVE  <<>> \in Seq(S) /\ \A x \in S : <<x>> \in Seq(S)
OBVIOUS

\* The handlers the client itself puts in the queue are handlers.
LEMMA HandlerTypes ==
  /\ \A m \in OutMsg : H("post", m) \in Handler
  /\ \A t \in Timers : H("timer", t) \in Handler
  /\ \A r \in Result : H("read", r) \in Handler /\ H("write", r) \in Handler
                       /\ H("connect", r) \in Handler
  /\ \A m \in InMsg, v \in 0 .. 255 : [k |-> "read", m |-> m, v |-> v] \in Handler
BY DEF H, Handler

\* Closing the socket queues handlers only.
LEMMA AbortedType ==
  ASSUME TypeOK
  PROVE  Aborted \in Seq(Handler)
<1> DEFINE w == [i \in 1 .. inflight |-> H("write", "error")]
           r == IF reading THEN <<H("read", "error")>> ELSE <<>>
<1>1. w \in Seq(Handler)
  <2>1. inflight \in Nat /\ \A i \in 1 .. inflight : H("write", "error") \in Handler
    BY HandlerTypes DEF TypeOK, Result
  <2> QED BY <2>1, IsASeq
<1>2. r \in Seq(Handler)
  BY HandlerTypes, SmallSeqs DEF Result
<1> HIDE DEF w, r
<1>3. r \o w \in Seq(Handler)
  BY <1>1, <1>2, ConcatProperties
<1> QED BY <1>3 DEF Aborted, w, r

\* The rest of the queue followed by new handlers is a queue.
LEMMA TailThen ==
  ASSUME ready \in Seq(Handler), ready # <<>>, NEW more \in Seq(Handler)
  PROVE  Tail(ready) \o more \in Seq(Handler)
BY HeadTailProperties, ConcatProperties

\* schedule_reconnect keeps the types.
LEMMA ReconnectType ==
  ASSUME TypeOK, ready # <<>>, NEW more \in Seq(Handler), ScheduleReconnect(more)
  PROVE  /\ state_' = "UNREGISTERED" /\ conn' \in Conn /\ reading' \in BOOLEAN /\ inflight' \in Nat
         /\ out_q_' \in Seq(OutMsg) /\ writing_' \in BOOLEAN /\ armed' \subseteq Timers
         /\ ready' \in Seq(Handler)
<1>1. Tail(ready) \o Aborted \in Seq(Handler)
  BY AbortedType, TailThen DEF TypeOK
<1>2. ready' \in Seq(Handler)
  BY <1>1, ConcatProperties DEF ScheduleReconnect
<1>3. out_q_' \in Seq(OutMsg)
  BY SmallSeqs DEF ScheduleReconnect
<1> QED BY <1>2, <1>3 DEF ScheduleReconnect, TypeOK, Conn, Timers

\* do_write keeps the types.
LEMMA DoWriteType ==
  ASSUME TypeOK, ready # <<>>, NEW q \in Seq(OutMsg), NEW posts \in Seq(Handler),
         DoWrite(q, posts)
  PROVE  /\ inflight' \in Nat /\ out_q_' \in Seq(OutMsg) /\ writing_' \in BOOLEAN
         /\ ready' \in Seq(Handler) /\ first' \in OutMsg \cup {"none"} /\ fault_out' \in BOOLEAN
<1>1. Tail(ready) \o posts \in Seq(Handler)
  BY TailThen DEF TypeOK
<1>2. (Tail(ready) \o posts) \o <<H("write", "error")>> \in Seq(Handler)
  <2>1. <<H("write", "error")>> \in Seq(Handler)
    BY HandlerTypes, SmallSeqs DEF Result
  <2> QED BY <1>1, <2>1, ConcatProperties
<1>3. q # <<>> => Head(q) \in OutMsg /\ Tail(q) \in Seq(OutMsg)
  BY HeadTailProperties
<1>4. ready' \in Seq(Handler)
  BY <1>1, <1>2 DEF DoWrite
<1>5. writing_' \in BOOLEAN /\ fault_out' \in BOOLEAN
  BY Zenon DEF DoWrite, TypeOK
<1>6. inflight' \in Nat /\ out_q_' \in Seq(OutMsg)
  <2>1. CASE q = <<>>
    <3>1. out_q_' = q /\ inflight' = inflight
      BY <2>1 DEF DoWrite
    <3> QED BY <3>1 DEF TypeOK
  <2>2. CASE q # <<>>
    <3>1. out_q_' = Tail(q) /\ (inflight' = inflight \/ inflight' = inflight + 1)
      BY <2>2, Zenon DEF DoWrite
    <3> QED BY <1>3, <2>2, <3>1 DEF TypeOK
  <2> QED BY <2>1, <2>2
<1>7. first' \in OutMsg \cup {"none"}
  BY <1>3 DEF DoWrite, TypeOK
<1> QED BY <1>4, <1>5, <1>6, <1>7

\* A message taken by the read loop keeps the types.
LEMMA ReadLoopType ==
  ASSUME TypeOK, ready # <<>>, NEW posts \in Seq(Handler), ReadLoop(posts)
  PROVE  reading' \in BOOLEAN /\ ready' \in Seq(Handler)
<1>1. Tail(ready) \o posts \in Seq(Handler)
  BY TailThen DEF TypeOK
<1>2. <<H("read", "error")>> \in Seq(Handler) /\ <<>> \in Seq(Handler)
  BY HandlerTypes, SmallSeqs DEF Result
<1>3. CASE conn = "open"
  BY <1>1, <1>2, <1>3, ConcatProperties DEF ReadLoop
<1>4. CASE conn # "open"
  BY <1>1, <1>2, <1>4, ConcatProperties DEF ReadLoop
<1> QED BY <1>3, <1>4

\* send_status and maybe_simulate_fault report what they leave behind.
LEMMA StatusThenMaybeFaultType ==
  ASSUME TypeOK, ready # <<>>, NEW s \in {"ON", "OFF"}, NEW i \in 0 .. 255,
         s = "ON" <=> i > 0, StatusThenMaybeFault(s, i)
  PROVE  /\ state_' \in LampState \ {"IDLE"} /\ intensity_' \in 0 .. 255 /\ reading' \in BOOLEAN
         /\ pending_fault_' \in BOOLEAN /\ fault_out' \in BOOLEAN
         /\ ready' \in Seq(Handler)
         /\ told' \in [on : BOOLEAN, intensity : 0 .. 255]
         /\ LitIffOn' /\ StatusTold'
<1> DEFINE status == <<H("post", "STATUS_REPORT")>>
           report == <<H("post", "FAULT_REPORT")>>
           busy   == writing_ \/ out_q_ # <<>>
<1>1. status \in Seq(Handler) /\ status \o report \in Seq(Handler)
  <2>1. status \in Seq(Handler) /\ report \in Seq(Handler)
    BY HandlerTypes, SmallSeqs DEF OutMsg
  <2> HIDE DEF status, report
  <2> QED BY <2>1, ConcatProperties
<1>2. /\ intensity_' = i
      /\ told' = StatusOf(s, i)
      /\ \/ /\ state_' = s
            /\ ReadLoop(status)
            /\ UNCHANGED <<pending_fault_, fault_out>>
         \/ /\ state_' = "FAULT"
            /\ pending_fault_' = (pending_fault_ \/ busy)
            /\ fault_out' = FALSE
            /\ ReadLoop(IF busy THEN status ELSE status \o report)
  BY DEF StatusThenMaybeFault
<1> HIDE DEF status, report, busy
<1>3. reading' \in BOOLEAN /\ ready' \in Seq(Handler)
  <2>1. CASE ReadLoop(status)
    BY <1>1, <2>1, ReadLoopType
  <2>2. CASE ReadLoop(status \o report)
    BY <1>1, <2>2, ReadLoopType
  <2> QED BY <1>2, <2>1, <2>2
<1>4. StatusOf(s, i) \in [on : BOOLEAN, intensity : 0 .. 255]
  BY DEF StatusOf
<1>5. state_' = s \/ state_' = "FAULT"
  BY <1>2
<1>6. LitIffOn' /\ StatusTold'
  BY <1>2, <1>5 DEF LitIffOn, StatusTold, StatusOf
<1>7. pending_fault_' \in BOOLEAN /\ fault_out' \in BOOLEAN
  BY <1>2 DEF TypeOK
<1> QED BY <1>2, <1>3, <1>4, <1>5, <1>6, <1>7 DEF LampState

-----------------------------------------------------------------------------
(* The environment only adds a handler to the queue.                       *)

\* A handler put at the end of the ready queue keeps its type.
LEMMA AppendType ==
  ASSUME ready \in Seq(Handler), NEW h \in Handler
  PROVE  Append(ready, h) \in Seq(Handler)
BY AppendProperties

\* What the network and the timers do keeps Service.
LEMMA EnvironmentKeeps ==
  ASSUME Service, Environment
  PROVE  Service'
<1> USE DEF Service
<1>1. ASSUME NEW r \in Result, ConnectCompletes(r) PROVE Service'
  <2>1. ready' \in Seq(Handler)
    BY <1>1, HandlerTypes, AppendType DEF ConnectCompletes, TypeOK
  <2> QED BY <1>1, <2>1 DEF ConnectCompletes, link, TypeOK, LitIffOn, StatusTold
<1>2. ASSUME NEW r \in Result, WriteCompletes(r) PROVE Service'
  <2>1. ready' \in Seq(Handler)
    BY <1>2, HandlerTypes, AppendType DEF WriteCompletes, TypeOK
  <2> QED BY <1>2, <2>1 DEF WriteCompletes, TypeOK, LitIffOn, StatusTold
<1>3. ASSUME NEW m \in InMsg \cup {"error"}, NEW v \in 0 .. 255, ReadCompletes(m, v)
      PROVE  Service'
  <2>1. [k |-> "read", m |-> m, v |-> v] \in Handler
    BY DEF Handler, Result
  <2>2. ready' \in Seq(Handler)
    BY <1>3, <2>1, AppendType DEF ReadCompletes, TypeOK
  <2> QED BY <1>3, <2>2 DEF ReadCompletes, TypeOK, LitIffOn, StatusTold
<1>4. ASSUME NEW t \in Timers, TimerExpires(t) PROVE Service'
  <2>1. ready' \in Seq(Handler)
    BY <1>4, HandlerTypes, AppendType DEF TimerExpires, TypeOK
  <2> QED BY <1>4, <2>1 DEF TimerExpires, link, TypeOK, LitIffOn, StatusTold
<1>5. 0 \in 0 .. 255 /\ \A v \in Intensities : v \in 0 .. 255
  BY IntensityAssumption
<1>6. "SET_INTENSITY" \in InMsg
  BY DEF InMsg
<1> QED BY <1>1, <1>2, <1>3, <1>4, <1>5, <1>6, Zenon DEF Environment

-----------------------------------------------------------------------------
(* Handlers                                                                *)

\* schedule_reconnect leaves a lamp that is not in service.
LEMMA ReconnectKeeps ==
  ASSUME TypeOK, ready # <<>>, NEW more \in Seq(Handler), ScheduleReconnect(more),
         UNCHANGED <<intensity_, pending_fault_, first, told, fault_out>>
  PROVE  Service'
BY ReconnectType DEF Service, TypeOK, LitIffOn, StatusTold, LampState

\* A timer that finds nothing to do.
LEMMA IgnoredKeeps ==
  ASSUME Service, ready # <<>>, Ignored,
         UNCHANGED <<intensity_, pending_fault_, first, told, fault_out>>
  PROVE  Service'
<1>1. ready' \in Seq(Handler)
  BY HeadTailProperties DEF Ignored, Service, TypeOK
<1> QED BY <1>1 DEF Ignored, link, Service, TypeOK, LitIffOn, StatusTold

\* Every handler the io_context runs keeps Service.
LEMMA HandlerKeeps ==
  ASSUME Service, RunHandler
  PROVE  Service'
<1> USE DEF Service
<1>0. /\ <<>> \in Seq(Handler)
      /\ \A m \in OutMsg : <<H("post", m)>> \in Seq(Handler)
      /\ <<H("read", "error")>> \in Seq(Handler)
  BY HandlerTypes, SmallSeqs DEF Result
<1>1. CASE RunConnectStage
  <2>1. ready' \in Seq(Handler)
    BY <1>1, HeadTailProperties DEF RunConnectStage, Runs, TypeOK
  <2> QED BY <1>1, <2>1 DEF RunConnectStage, TypeOK, Conn, LitIffOn, StatusTold
<1>2. CASE RunHandshakeDone
  <2>1. Tail(ready) \in Seq(Handler)
    BY <1>2, HeadTailProperties DEF RunHandshakeDone, Runs, TypeOK
  <2>2. Append(Tail(ready), H("post", "REGISTER_REQ")) \in Seq(Handler)
    BY <2>1, HandlerTypes, AppendProperties DEF OutMsg
  <2>3. ready' \in Seq(Handler) /\ state_' = "REGISTERING" /\ armed' \subseteq Timers
    BY <1>2, <2>1, <2>2 DEF RunHandshakeDone, Timers, TypeOK
  <2> QED BY <1>2, <2>3
      DEF RunHandshakeDone, TypeOK, Conn, LampState, LitIffOn, StatusTold
<1>3. CASE RunFailure
  BY <1>0, <1>3, ReconnectKeeps DEF RunFailure, Runs
<1>4. ASSUME NEW m \in OutMsg, RunPost(m) PROVE Service'
  <2>1. Append(out_q_, m) \in Seq(OutMsg)
    BY AppendProperties DEF TypeOK
  <2>2. /\ inflight' \in Nat /\ out_q_' \in Seq(OutMsg) /\ writing_' \in BOOLEAN
        /\ ready' \in Seq(Handler) /\ first' \in OutMsg \cup {"none"} /\ fault_out' \in BOOLEAN
    <3>1. CASE writing_
      <4>1. /\ out_q_' = Append(out_q_, m) /\ ready' = Tail(ready) /\ ready # <<>>
            /\ UNCHANGED <<inflight, writing_, first, fault_out>>
        BY <1>4, <3>1 DEF RunPost, Runs
      <4>2. ready' \in Seq(Handler)
        BY <4>1, HeadTailProperties DEF TypeOK
      <4> QED BY <2>1, <4>1, <4>2 DEF TypeOK
    <3>2. CASE ~writing_
      BY <1>0, <1>4, <2>1, <3>2, DoWriteType DEF RunPost, Runs
    <3> QED BY <3>1, <3>2
  <2> QED BY <1>4, <2>2 DEF RunPost, TypeOK, LitIffOn, StatusTold
<1>5. CASE RunWriteDone
  <2>1. (IF pending_fault_ THEN <<H("post", "FAULT_REPORT")>> ELSE <<>>) \in Seq(Handler)
    BY <1>0 DEF OutMsg
  <2>2. /\ inflight' \in Nat /\ out_q_' \in Seq(OutMsg) /\ writing_' \in BOOLEAN
        /\ ready' \in Seq(Handler) /\ first' \in OutMsg \cup {"none"} /\ fault_out' \in BOOLEAN
    BY <1>5, <2>1, DoWriteType DEF RunWriteDone, Runs, TypeOK
  <2> QED BY <1>5, <2>2 DEF RunWriteDone, TypeOK, LitIffOn, StatusTold
<1>6. CASE RunRegisterAck
  <2>1. reading' \in BOOLEAN /\ ready' \in Seq(Handler)
    BY <1>0, <1>6, ReadLoopType DEF RunRegisterAck, Runs, OutMsg
  <2>2. armed' \subseteq Timers
    BY <1>6 DEF RunRegisterAck, TypeOK, Timers
  <2>3. CASE MaySwitch("OFF")
    <3>1. state_' = "OFF" /\ intensity_' = 0 /\ told' = StatusOf("OFF", 0)
      BY <1>6, <2>3 DEF RunRegisterAck
    <3> QED BY <1>6, <2>1, <2>2, <3>1
        DEF RunRegisterAck, TypeOK, LampState, StatusOf, LitIffOn, StatusTold
  <2>4. CASE ~MaySwitch("OFF")
    BY <1>6, <2>1, <2>2, <2>4 DEF RunRegisterAck, TypeOK, LitIffOn, StatusTold
  <2> QED BY <2>3, <2>4
<1>7. CASE RunRegisterNack
  BY <1>0, <1>7, ReconnectKeeps DEF RunRegisterNack, Runs
<1>8. CASE RunSwitchOn
  <2>1. CASE state_ = "OFF"
    <3> DEFINE i == IF intensity_ > 30 THEN intensity_ ELSE 30
    <3>1. i \in 0 .. 255 /\ i > 0
      BY DEF TypeOK
    <3>2. StatusThenMaybeFault("ON", i) /\ ready # <<>>
      BY <1>8, <2>1 DEF RunSwitchOn, Runs
    <3> HIDE DEF i
    <3> QED BY <1>8, <3>1, <3>2, StatusThenMaybeFaultType, ZenonT(30) DEF RunSwitchOn, TypeOK
  <2>2. CASE state_ # "OFF"
    <3>1. reading' \in BOOLEAN /\ ready' \in Seq(Handler)
      BY <1>0, <1>8, <2>2, ReadLoopType DEF RunSwitchOn, Runs
    <3> QED BY <1>8, <2>2, <3>1 DEF RunSwitchOn, TypeOK, LitIffOn, StatusTold
  <2> QED BY <2>1, <2>2
<1>9. CASE RunSwitchOff
  <2>1. reading' \in BOOLEAN /\ ready' \in Seq(Handler)
    BY <1>0, <1>9, ReadLoopType DEF RunSwitchOff, Runs, OutMsg
  <2>2. CASE state_ = "ON"
    <3>1. state_' = "OFF" /\ intensity_' = 0 /\ told' = StatusOf("OFF", 0)
      BY <1>9, <2>2 DEF RunSwitchOff
    <3> QED BY <1>9, <2>1, <3>1
        DEF RunSwitchOff, TypeOK, LampState, StatusOf, LitIffOn, StatusTold
  <2>3. CASE state_ # "ON"
    BY <1>9, <2>1, <2>3 DEF RunSwitchOff, TypeOK, LitIffOn, StatusTold
  <2> QED BY <2>2, <2>3
<1>10. CASE RunSetIntensity
  <2> DEFINE v == Head(ready).v
             s == IF v = 0 /\ state_ = "ON" THEN "OFF"
                  ELSE IF v > 0 /\ state_ = "OFF" THEN "ON" ELSE state_
  <2>1. ready # <<>>
    BY <1>10 DEF RunSetIntensity, Runs
  <2>2. v \in 0 .. 255
    <3>1. Head(ready) \in Handler
      BY <2>1, HeadTailProperties DEF TypeOK
    <3> QED BY <3>1 DEF Handler
  <2>3. CASE s \in {"ON", "OFF"}
    <3>1. s = "ON" <=> v > 0
      <4>1. CASE v = 0
        BY <2>3, <4>1
      <4>2. CASE v > 0
        BY <2>3, <4>2
      <4> QED BY <2>2, <4>1, <4>2
    <3>2. StatusThenMaybeFault(s, v)
      BY <1>10, <2>3 DEF RunSetIntensity
    <3>3. UNCHANGED <<conn, inflight, out_q_, writing_, armed, first>>
      BY <1>10 DEF RunSetIntensity
    <3> HIDE DEF v, s
    <3>4. /\ state_' \in LampState \ {"IDLE"} /\ intensity_' \in 0 .. 255
          /\ reading' \in BOOLEAN /\ pending_fault_' \in BOOLEAN /\ fault_out' \in BOOLEAN
          /\ ready' \in Seq(Handler) /\ told' \in [on : BOOLEAN, intensity : 0 .. 255]
          /\ LitIffOn' /\ StatusTold'
      BY <2>1, <2>2, <2>3, <3>1, <3>2, StatusThenMaybeFaultType, ZenonT(30)
    <3> QED BY <3>3, <3>4 DEF TypeOK
  <2>4. CASE s \notin {"ON", "OFF"}
    <3>1. /\ intensity_' = v /\ ReadLoop(<<>>)
          /\ UNCHANGED <<state_, told, pending_fault_, fault_out>>
      BY <1>10, <2>4 DEF RunSetIntensity
    <3>2. state_ \notin {"ON", "OFF"}
      BY <2>2, <2>4
    <3>3. UNCHANGED <<conn, inflight, out_q_, writing_, armed, first>>
      BY <1>10 DEF RunSetIntensity
    <3> HIDE DEF v, s
    <3>4. reading' \in BOOLEAN /\ ready' \in Seq(Handler)
      BY <1>0, <2>1, <3>1, ReadLoopType
    <3> QED BY <2>2, <3>1, <3>2, <3>3, <3>4 DEF TypeOK, LitIffOn, StatusTold
  <2> QED BY <2>3, <2>4
<1>11. CASE RunOtherMessage
  <2>1. reading' \in BOOLEAN /\ ready' \in Seq(Handler)
    BY <1>0, <1>11, ReadLoopType DEF RunOtherMessage, Runs
  <2> QED BY <1>11, <2>1 DEF RunOtherMessage, TypeOK, LitIffOn, StatusTold
<1>12. CASE RunRegisterTimeout
  BY <1>0, <1>12, ReconnectKeeps, IgnoredKeeps DEF RunRegisterTimeout, Runs
<1>13. CASE RunHeartbeat
  <2>1. Tail(ready) \in Seq(Handler)
    BY <1>13, HeadTailProperties DEF RunHeartbeat, Runs, TypeOK
  <2>2. Append(Tail(ready), H("post", "STATUS_REPORT")) \in Seq(Handler)
    BY <2>1, HandlerTypes, AppendProperties DEF OutMsg
  <2>3. ready' \in Seq(Handler) /\ armed' \subseteq Timers
    BY <1>13, <2>1, <2>2 DEF RunHeartbeat, Timers, TypeOK
  <2>4. told' = told \/ told' = StatusOf(state_, intensity_)
    BY <1>13 DEF RunHeartbeat
  <2>5. told' \in [on : BOOLEAN, intensity : 0 .. 255]
    <3>1. (state_ = "ON") \in BOOLEAN /\ intensity_ \in 0 .. 255
      BY DEF TypeOK
    <3>2. StatusOf(state_, intensity_) \in [on : BOOLEAN, intensity : 0 .. 255]
      BY <3>1 DEF StatusOf
    <3> QED BY <2>4, <3>2 DEF TypeOK
  <2>6. state_' = state_ /\ intensity_' = intensity_
    BY <1>13 DEF RunHeartbeat
  <2>7. LitIffOn' /\ StatusTold'
    BY <2>4, <2>6 DEF LitIffOn, StatusTold, StatusOf
  <2> QED BY <1>13, <2>3, <2>5, <2>7 DEF RunHeartbeat, link, TypeOK
<1>14. CASE RunReconnect
  <2>1. ready' \in Seq(Handler)
    BY <1>14, HeadTailProperties DEF RunReconnect, Runs, TypeOK
  <2> QED BY <1>14, <2>1 DEF RunReconnect, TypeOK, Conn, LitIffOn, StatusTold
<1>15. CASE RunManualReset
  BY <1>0, <1>15, ReconnectKeeps, IgnoredKeeps DEF RunManualReset, Runs
<1> QED BY <1>1, <1>2, <1>3, <1>4, <1>5, <1>6, <1>7, <1>8, <1>9, <1>10, <1>11, <1>12, <1>13,
           <1>14, <1>15, Zenon DEF RunHandler

-----------------------------------------------------------------------------
(* The theorems                                                            *)

\* Service holds in every reachable state.
LEMMA ServiceInductive == Spec => []Service
<1>1. Init => Service
  <2> SUFFICES ASSUME Init PROVE Service
    OBVIOUS
  <2>1. out_q_ \in Seq(OutMsg) /\ ready \in Seq(Handler)
    BY SmallSeqs DEF Init
  <2>2. armed \subseteq Timers
    BY DEF Init, Timers
  <2>3. told \in [on : BOOLEAN, intensity : 0 .. 255]
    BY DEF Init
  <2> QED BY <2>1, <2>2, <2>3
      DEF Init, Service, TypeOK, LampState, Conn, LitIffOn, StatusTold
<1>2. Service /\ [Next]_vars => Service'
  <2> SUFFICES ASSUME Service, [Next]_vars PROVE Service'
    OBVIOUS
  <2>1. CASE Next
    BY <2>1, EnvironmentKeeps, HandlerKeeps DEF Next
  <2>2. CASE UNCHANGED vars
    BY <2>2 DEF vars, Service, TypeOK, LitIffOn, StatusTold
  <2> QED BY <2>1, <2>2
<1> QED BY <1>1, <1>2, PTL DEF Spec

\* Types, for every set of intensities and every length of the queues.
THEOREM LampTypeCorrect == Spec => []TypeOK
<1>1. Service => TypeOK
  BY DEF Service
<1> QED BY <1>1, ServiceInductive, PTL

\* ON means lit and OFF means dark after any sequence of commands,
\* acknowledgements, timeouts and reconnects (on_message, SwitchToState,
\* schedule_reconnect).
THEOREM LampLit == Spec => []LitIffOn
<1>1. Service => LitIffOn
  BY DEF Service
<1> QED BY <1>1, ServiceInductive, PTL

\* No change of a lamp in service goes unreported (send_status).
THEOREM LampTellsItsStatus == Spec => []StatusTold
<1>1. Service => StatusTold
  BY DEF Service
<1> QED BY <1>1, ServiceInductive, PTL

-----------------------------------------------------------------------------
(***************************************************************************)
(* What the luminaire client's queues keep, for every set of intensities   *)
(* and every length of the queues: one write at a time, the registration   *)
(* first on each connection, no fault report lost while it stands, always  *)
(* a timer to move the lamp on.                                            *)
(*                                                                         *)
(* The invariants speak of which handlers are in the io_context's queue    *)
(* and of those that are in it once; In and Sole say so, and the first     *)
(* lemmas give their laws for the ways a queue changes.                    *)
(***************************************************************************)

\* some element of q is in P
In(q, P) == \E i \in 1 .. Len(q) : q[i] \in P

\* at most one element of q is in P
Sole(q, P) == \A i, j \in 1 .. Len(q) : q[i] \in P /\ q[j] \in P => i = j

\* the handlers of kind k, and those of kind k for m
Of(k)       == {h \in Handler : h.k = k}
OfMsg(k, m) == {h \in Of(k) : h.m = m}

\* no operation completes but with a result
Stray == {h \in Of("connect") \cup Of("write") : h.m \notin Result}

\* a REGISTER_REQ is posted and only timers run before it
RegisterAhead(q) ==
  \E i \in 1 .. Len(q) : /\ q[i] \in OfMsg("post", "REGISTER_REQ")
                         /\ \A j \in 1 .. i - 1 : q[j] \in Of("timer")

-----------------------------------------------------------------------------
(* Laws of the queue                                                       *)

\* What is in the empty queue and in a queue of one.
LEMMA InSmall ==
  ASSUME NEW P
  PROVE  /\ ~In(<<>>, P) /\ Sole(<<>>, P)
         /\ \A x : (In(<<x>>, P) <=> x \in P) /\ Sole(<<x>>, P)
BY DEF In, Sole

\* A queue is its next handler and the rest.
LEMMA InTail ==
  ASSUME NEW S, NEW q \in Seq(S), q # <<>>, NEW P
  PROVE  /\ In(q, P) <=> Head(q) \in P \/ In(Tail(q), P)
         /\ Sole(q, P) => Sole(Tail(q), P)
         /\ Sole(q, P) /\ Head(q) \in P => ~In(Tail(q), P)
<1>1. Len(q) \in Nat /\ Len(q) > 0 /\ Head(q) = q[1] /\ Len(Tail(q)) = Len(q) - 1
  BY HeadTailProperties, EmptySeq
<1>2. \A i \in 1 .. Len(Tail(q)) : Tail(q)[i] = q[i + 1]
  BY HeadTailProperties
<1>3. \A i \in 1 .. Len(q) : i = 1 \/ (i - 1 \in 1 .. Len(Tail(q)) /\ q[i] = Tail(q)[i - 1])
  BY <1>1, <1>2
<1>4. In(q, P) <=> Head(q) \in P \/ In(Tail(q), P)
  <2>1. In(q, P) => Head(q) \in P \/ In(Tail(q), P)
    BY <1>1, <1>3 DEF In
  <2>2. Head(q) \in P => In(q, P)
    BY <1>1 DEF In
  <2>3. ASSUME NEW i \in 1 .. Len(Tail(q)), Tail(q)[i] \in P PROVE In(q, P)
    <3>1. i + 1 \in 1 .. Len(q) /\ q[i + 1] \in P
      BY <1>1, <1>2, <2>3
    <3> QED BY <3>1 DEF In
  <2>4. In(Tail(q), P) => In(q, P)
    BY <2>3 DEF In
  <2> QED BY <2>1, <2>2, <2>4
<1>5. Sole(q, P) => Sole(Tail(q), P)
  BY <1>1, <1>2 DEF Sole
<1>6. Sole(q, P) /\ Head(q) \in P => ~In(Tail(q), P)
  BY <1>1, <1>2 DEF Sole, In
<1> QED BY <1>4, <1>5, <1>6

\* A queue followed by new handlers.
LEMMA InConcat ==
  ASSUME NEW S, NEW a \in Seq(S), NEW b \in Seq(S), NEW P
  PROVE  /\ a \o b \in Seq(S)
         /\ In(a \o b, P) <=> In(a, P) \/ In(b, P)
         /\ Sole(a, P) /\ ~In(b, P) => Sole(a \o b, P)
         /\ ~In(a, P) /\ Sole(b, P) => Sole(a \o b, P)
<1>1. /\ Len(a) \in Nat /\ Len(b) \in Nat /\ a \o b \in Seq(S) /\ Len(a \o b) = Len(a) + Len(b)
      /\ \A i \in 1 .. Len(a) + Len(b) :
           (a \o b)[i] = IF i <= Len(a) THEN a[i] ELSE b[i - Len(a)]
  BY ConcatProperties
<1> DEFINE c == a \o b
<1>2. /\ \A i \in 1 .. Len(a) : i \in 1 .. Len(c) /\ c[i] = a[i]
      /\ \A i \in 1 .. Len(b) : i + Len(a) \in 1 .. Len(c) /\ c[i + Len(a)] = b[i]
      /\ \A i \in 1 .. Len(c) : \/ i \in 1 .. Len(a) /\ c[i] = a[i]
                                \/ i - Len(a) \in 1 .. Len(b) /\ c[i] = b[i - Len(a)]
      /\ Len(c) \in Nat
  BY <1>1
<1>3. c \in Seq(S)
  BY <1>1
<1> HIDE DEF c
<1>4. In(c, P) <=> In(a, P) \/ In(b, P)
  BY <1>2 DEF In
<1>5. Sole(a, P) /\ ~In(b, P) => Sole(c, P)
  BY <1>2 DEF In, Sole
<1>6. ~In(a, P) /\ Sole(b, P) => Sole(c, P)
  <2> SUFFICES ASSUME ~In(a, P), Sole(b, P), NEW i \in 1 .. Len(c), NEW j \in 1 .. Len(c),
                      c[i] \in P, c[j] \in P
               PROVE  i = j
    BY DEF Sole
  <2>1. i - Len(a) \in 1 .. Len(b) /\ j - Len(a) \in 1 .. Len(b)
        /\ b[i - Len(a)] \in P /\ b[j - Len(a)] \in P
    BY <1>2 DEF In
  <2>2. i - Len(a) = j - Len(a)
    BY <2>1 DEF Sole
  <2> QED BY <1>1, <2>2
<1> QED BY <1>3, <1>4, <1>5, <1>6 DEF c

\* A handler added at the end.
LEMMA InAppend ==
  ASSUME NEW S, NEW q \in Seq(S), NEW x \in S, NEW P
  PROVE  /\ In(Append(q, x), P) <=> In(q, P) \/ x \in P
         /\ Sole(q, P) /\ x \notin P => Sole(Append(q, x), P)
         /\ ~In(q, P) => Sole(Append(q, x), P)
<1>1. Append(q, x) = q \o <<x>> /\ <<x>> \in Seq(S)
  BY AppendIsConcat, SmallSeqs
<1>2. (In(<<x>>, P) <=> x \in P) /\ Sole(<<x>>, P)
  BY InSmall
<1>3. /\ In(q \o <<x>>, P) <=> In(q, P) \/ In(<<x>>, P)
      /\ Sole(q, P) /\ ~In(<<x>>, P) => Sole(q \o <<x>>, P)
      /\ ~In(q, P) /\ Sole(<<x>>, P) => Sole(q \o <<x>>, P)
  BY <1>1, InConcat
<1> QED BY <1>1, <1>2, <1>3, Zenon

\* Work added behind a posted REGISTER_REQ leaves it ahead, and so does
\* running a timer.
LEMMA AheadStays ==
  ASSUME NEW q \in Seq(Handler), RegisterAhead(q)
  PROVE  /\ q # <<>>
         /\ Head(q) \in Of("timer") \/ Head(q) \in OfMsg("post", "REGISTER_REQ")
         /\ \A x \in Handler : RegisterAhead(Append(q, x))
         /\ Head(q) \in Of("timer") =>
              RegisterAhead(Tail(q)) /\ \A x \in Handler : RegisterAhead(Append(Tail(q), x))
<1>1. PICK i \in 1 .. Len(q) : /\ q[i] \in OfMsg("post", "REGISTER_REQ")
                               /\ \A j \in 1 .. i - 1 : q[j] \in Of("timer")
  BY DEF RegisterAhead
<1>2. q # <<>> /\ Len(q) \in Nat /\ Head(q) = q[1]
  BY HeadTailProperties
<1>3. ASSUME NEW r \in Seq(Handler), RegisterAhead(r), NEW x \in Handler
      PROVE  RegisterAhead(Append(r, x))
  <2>1. PICK n \in 1 .. Len(r) : /\ r[n] \in OfMsg("post", "REGISTER_REQ")
                                 /\ \A j \in 1 .. n - 1 : r[j] \in Of("timer")
    BY <1>3 DEF RegisterAhead
  <2>2. /\ Len(r) \in Nat /\ Len(Append(r, x)) = Len(r) + 1
        /\ \A j \in 1 .. Len(r) : Append(r, x)[j] = r[j]
    BY AppendProperties
  <2> QED BY <2>1, <2>2 DEF RegisterAhead
<1>4. Head(q) \in Of("timer") \/ Head(q) \in OfMsg("post", "REGISTER_REQ")
  BY <1>1, <1>2
<1>5. ASSUME Head(q) \in Of("timer") PROVE RegisterAhead(Tail(q)) /\ Tail(q) \in Seq(Handler)
  <2>1. i # 1
    BY <1>1, <1>2, <1>5 DEF Of, OfMsg
  <2>2. /\ Tail(q) \in Seq(Handler) /\ Len(Tail(q)) = Len(q) - 1
        /\ \A j \in 1 .. Len(Tail(q)) : Tail(q)[j] = q[j + 1]
    BY <1>2, HeadTailProperties
  <2>3. i - 1 \in 1 .. Len(Tail(q)) /\ Tail(q)[i - 1] \in OfMsg("post", "REGISTER_REQ")
    BY <1>1, <1>2, <2>1, <2>2
  <2>4. \A j \in 1 .. (i - 1) - 1 : Tail(q)[j] \in Of("timer")
    BY <1>1, <1>2, <2>1, <2>2
  <2> QED BY <2>2, <2>3, <2>4 DEF RegisterAhead
<1> QED BY <1>2, <1>3, <1>4, <1>5

\* The sort of a handler is its kind and its message.
LEMMA SortOf ==
  /\ \A h \in Handler : \A k : h \in Of(k) <=> h.k = k
  /\ \A h \in Handler : \A k, m : h \in OfMsg(k, m) <=> h.k = k /\ h.m = m
  /\ \A h \in Handler : h \in Stray <=> h.k \in {"connect", "write"} /\ h.m \notin Result
  /\ \A k, m : H(k, m).k = k /\ H(k, m).m = m
BY DEF Of, OfMsg, Stray, H

\* The failure of a read and of a write are told from the rest.
LEMMA Failures ==
  /\ H("read", "error") \in Of("read") /\ H("read", "error") \notin Of("write")
  /\ H("read", "error") \notin Of("post") /\ H("read", "error") \notin Of("connect")
  /\ H("write", "error") \in Of("write") /\ H("write", "error") \notin Of("read")
  /\ H("write", "error") \notin Of("post") /\ H("write", "error") \notin Of("connect")
  /\ \A m : /\ H("read", "error") \notin OfMsg("timer", m)
            /\ H("write", "error") \notin OfMsg("timer", m)
  /\ H("read", "error") \notin Stray /\ H("write", "error") \notin Stray
<1>1. /\ H("read", "error") \in Handler /\ H("read", "error").k = "read"
      /\ H("write", "error") \in Handler /\ H("write", "error").k = "write"
      /\ H("write", "error").m \in Result
  BY HandlerTypes, SortOf DEF Result
<1> QED BY <1>1, SortOf

\* The completions in the queue are those with a result.
LEMMA Completions ==
  ASSUME NEW q \in Seq(Handler), ~In(q, Stray), NEW k \in {"connect", "write"}, In(q, Of(k))
  PROVE  \E r \in Result : In(q, OfMsg(k, r))
<1>1. PICK i \in 1 .. Len(q) : q[i] \in Of(k)
  BY DEF In
<1>2. q[i] \in Handler /\ q[i] \notin Stray
  BY ElementOfSeq DEF In
<1>3. q[i].m \in Result /\ q[i] \in OfMsg(k, q[i].m)
  BY <1>1, <1>2, SortOf
<1> QED BY <1>3 DEF In

\* Queued speaks of the same queue.
LEMMA QueuedIn ==
  ASSUME NEW k, NEW m
  PROVE  /\ ready \in Seq(Handler) => (Queued(k, m) <=> In(ready, OfMsg(k, m)))
         /\ ready' \in Seq(Handler) => (Queued(k, m)' <=> In(ready', OfMsg(k, m)))
<1>1. ASSUME NEW q \in Seq(Handler)
      PROVE  \A i \in 1 .. Len(q) : q[i] \in OfMsg(k, m) <=> q[i].k = k /\ q[i].m = m
  BY ElementOfSeq, SortOf
<1> QED BY <1>1 DEF Queued, In

-----------------------------------------------------------------------------
(* The invariant of the connection                                         *)

Dialling == conn \in {"resolving", "connecting", "handshaking"}

\* without a connection nothing is outstanding and the lamp is unregistered
Quiet == conn # "open" => ~reading /\ inflight = 0 /\ state_ = "UNREGISTERED"

\* messages wait only behind a write, and writing_ only for a completion
Busy == /\ out_q_ # <<>> => writing_
        /\ writing_ => inflight = 1 \/ In(ready, Of("write"))

\* on a standing connection writing_ stands for one write, outstanding or completed
Serial == conn = "open" =>
            /\ inflight \in {0, 1}
            /\ inflight = 1 => writing_ /\ ~In(ready, Of("write"))
            /\ In(ready, Of("write")) => writing_
            /\ Sole(ready, Of("write"))

\* nothing of the previous connection is left when the next one is made
Clean == /\ Dialling => /\ first = "none" /\ ~writing_
                        /\ ~In(ready, Of("post")) /\ ~In(ready, Of("read"))
                        /\ ~In(ready, Of("write")) /\ Sole(ready, Of("connect"))
         /\ ~Dialling => ~In(ready, Of("connect"))

\* until something is written, the registration is what will be
RegisterNext == conn = "open" /\ first = "none" =>
                  state_ = "REGISTERING" /\ ~writing_ /\ RegisterAhead(ready)

\* a closed connection has one reconnect pending, and once its timer is in
\* the queue only timers are
Redial == /\ conn = "closed" <=>
               "reconnect" \in armed \/ In(ready, OfMsg("timer", "reconnect"))
          /\ In(ready, OfMsg("timer", "reconnect")) =>
               /\ "reconnect" \notin armed
               /\ ~In(ready, Of("post")) /\ ~In(ready, Of("read"))
               /\ ~In(ready, Of("write")) /\ ~In(ready, Of("connect"))
               /\ Sole(ready, OfMsg("timer", "reconnect"))

Link == Quiet /\ Busy /\ Serial /\ Clean /\ RegisterNext /\ RegisterFirst /\ Redial
        /\ ~In(ready, Stray)

\* What an environment step adds: its handler, at the end.
LEMMA Arrives ==
  ASSUME TypeOK, NEW h \in Handler, ready' = Append(ready, h)
  PROVE  /\ \A P : In(ready', P) <=> In(ready, P) \/ h \in P
         /\ \A P : Sole(ready, P) /\ h \notin P => Sole(ready', P)
         /\ \A P : ~In(ready, P) => Sole(ready', P)
         /\ RegisterAhead(ready) => RegisterAhead(ready')
BY InAppend, AheadStays DEF TypeOK

\* What the network and the timers do keeps Link.
LEMMA EnvironmentKeepsLink ==
  ASSUME TypeOK, Link, Environment
  PROVE  Link'
<1> USE DEF Link
<1>1. ASSUME NEW r \in Result, ConnectCompletes(r) PROVE Link'
  <2> DEFINE h == H("connect", r)
  <2>1. h \in Handler /\ h.k = "connect" /\ h.m = r
    BY HandlerTypes, SortOf
  <2>2. /\ h \in Of("connect") /\ h \notin Of("post") /\ h \notin Of("read") /\ h \notin Of("write")
        /\ h \notin OfMsg("timer", "reconnect") /\ h \notin Stray
    BY <2>1, SortOf
  <2>3. ready' = Append(ready, h)
    BY <1>1 DEF ConnectCompletes
  <2> HIDE DEF h
  <2>4. Dialling /\ Dialling' /\ conn' = conn /\ conn # "open" /\ conn # "closed"
    BY <1>1 DEF ConnectCompletes, Dialling, link
  <2>5. UNCHANGED <<state_, reading, inflight, out_q_, writing_, armed, first>>
    BY <1>1 DEF ConnectCompletes, link
  <2>6. ~In(ready, Of("connect"))
    <3>1. \A x \in Result : ~In(ready, OfMsg("connect", x))
      BY <1>1, QueuedIn DEF ConnectCompletes, TypeOK
    <3> QED BY <3>1, Completions DEF TypeOK
  <2> QED BY <2>1, <2>2, <2>3, <2>4, <2>5, <2>6, Arrives
      DEF Quiet, Busy, Serial, Clean, RegisterNext, RegisterFirst, Redial
<1>2. ASSUME NEW r \in Result, WriteCompletes(r) PROVE Link'
  <2> DEFINE h == H("write", r)
  <2>1. h \in Handler /\ h.k = "write" /\ h.m = r
    BY HandlerTypes, SortOf
  <2>2. /\ h \in Of("write") /\ h \notin Of("post") /\ h \notin Of("read") /\ h \notin Of("connect")
        /\ h \notin OfMsg("timer", "reconnect") /\ h \notin Stray
    BY <2>1, SortOf
  <2>3. ready' = Append(ready, h)
    BY <1>2 DEF WriteCompletes
  <2> HIDE DEF h
  <2>4. UNCHANGED <<state_, conn, reading, out_q_, writing_, armed, first>>
    BY <1>2 DEF WriteCompletes
  <2>5. conn = "open" /\ inflight = 1 /\ inflight' = 0 /\ 0 # 1
    BY <1>2 DEF WriteCompletes, Quiet, Serial
  <2>6. ~Dialling /\ ~Dialling'
    BY <2>4, <2>5 DEF Dialling
  <2> QED BY <2>1, <2>2, <2>3, <2>4, <2>5, <2>6, Arrives
      DEF Quiet, Busy, Serial, Clean, RegisterNext, RegisterFirst, Redial
<1>3. ASSUME NEW m \in InMsg \cup {"error"}, NEW v \in 0 .. 255, ReadCompletes(m, v)
      PROVE  Link'
  <2> DEFINE h == [k |-> "read", m |-> m, v |-> v]
  <2>1. h \in Handler /\ h.k = "read"
    BY DEF Handler, Result
  <2>2. /\ h \in Of("read") /\ h \notin Of("post") /\ h \notin Of("write") /\ h \notin Of("connect")
        /\ h \notin OfMsg("timer", "reconnect") /\ h \notin Stray
    BY <2>1, SortOf
  <2>3. ready' = Append(ready, h)
    BY <1>3 DEF ReadCompletes
  <2> HIDE DEF h
  <2>4. UNCHANGED <<state_, conn, inflight, out_q_, writing_, armed, first>>
    BY <1>3 DEF ReadCompletes
  <2>5. conn = "open"
    BY <1>3 DEF ReadCompletes, Quiet
  <2>6. ~Dialling /\ ~Dialling'
    BY <2>4, <2>5 DEF Dialling
  <2> QED BY <2>1, <2>2, <2>3, <2>4, <2>5, <2>6, Arrives
      DEF Quiet, Busy, Serial, Clean, RegisterNext, RegisterFirst, Redial
<1>4. ASSUME NEW t \in Timers, TimerExpires(t) PROVE Link'
  <2> DEFINE h == H("timer", t)
  <2>1. h \in Handler /\ h.k = "timer" /\ h.m = t
    BY HandlerTypes, SortOf
  <2>2. /\ h \notin Of("read") /\ h \notin Of("post") /\ h \notin Of("write")
        /\ h \notin Of("connect") /\ h \notin Stray
        /\ h \in OfMsg("timer", "reconnect") <=> t = "reconnect"
    BY <2>1, SortOf
  <2>3. ready' = Append(ready, h)
    BY <1>4 DEF TimerExpires
  <2> HIDE DEF h
  <2>4. UNCHANGED <<state_, conn, reading, inflight, out_q_, writing_, first>>
    BY <1>4 DEF TimerExpires, link
  <2>5. Dialling' = Dialling
    BY <2>4 DEF Dialling
  <2>6. Quiet' /\ Busy' /\ Serial' /\ Clean' /\ RegisterNext' /\ RegisterFirst' /\ ~In(ready', Stray)
    BY <2>1, <2>2, <2>3, <2>4, <2>5, Arrives
      DEF Quiet, Busy, Serial, Clean, RegisterNext, RegisterFirst
  <2>7. CASE t = "reconnect"
    <3>1. "reconnect" \in armed /\ armed' = armed \ {"reconnect"}
      BY <1>4, <2>7 DEF TimerExpires
    <3>2. \A i \in 1 .. Len(ready) : ready[i].k = "timer" /\ ready[i] \in Handler
      BY <1>4, <2>7, ElementOfSeq DEF TimerExpires, TypeOK
    <3>3. /\ ~In(ready, Of("post")) /\ ~In(ready, Of("read"))
          /\ ~In(ready, Of("write")) /\ ~In(ready, Of("connect"))
      BY <3>2, SortOf DEF In
    <3> QED BY <2>1, <2>2, <2>3, <2>4, <2>6, <2>7, <3>1, <3>3, Arrives DEF Redial
  <2>8. CASE t # "reconnect"
    <3>1. "reconnect" \in armed' <=> "reconnect" \in armed
      BY <1>4, <2>8 DEF TimerExpires
    <3> QED BY <2>1, <2>2, <2>3, <2>4, <2>6, <2>8, <3>1, Arrives DEF Redial
  <2> QED BY <2>7, <2>8
<1>5. 0 \in 0 .. 255 /\ \A v \in Intensities : v \in 0 .. 255
  BY IntensityAssumption
<1>6. "SET_INTENSITY" \in InMsg
  BY DEF InMsg
<1> QED BY <1>1, <1>2, <1>3, <1>4, <1>5, <1>6, Zenon DEF Environment

-----------------------------------------------------------------------------
(* Handlers and the invariant of the connection                            *)

\* What a handler leaves in the queue: the rest, then what it adds.
LEMMA Advances ==
  ASSUME TypeOK, ready # <<>>, NEW new \in Seq(Handler), ready' = Tail(ready) \o new
  PROVE  /\ Head(ready) \in Handler
         /\ \A P : In(ready, P) <=> Head(ready) \in P \/ In(Tail(ready), P)
         /\ \A P : In(ready', P) <=> In(Tail(ready), P) \/ In(new, P)
         /\ \A P : Sole(ready, P) /\ ~In(new, P) => Sole(ready', P)
         /\ \A P : Sole(ready, P) /\ Head(ready) \in P => ~In(Tail(ready), P)
         /\ RegisterAhead(ready) => Head(ready).k = "timer" \/ Head(ready).k = "post"
<1>1. Tail(ready) \in Seq(Handler) /\ Head(ready) \in Handler
  BY HeadTailProperties DEF TypeOK
<1>2. \A P : /\ In(ready, P) <=> Head(ready) \in P \/ In(Tail(ready), P)
             /\ Sole(ready, P) => Sole(Tail(ready), P)
             /\ Sole(ready, P) /\ Head(ready) \in P => ~In(Tail(ready), P)
  BY InTail DEF TypeOK
<1>3. \A P : /\ In(ready', P) <=> In(Tail(ready), P) \/ In(new, P)
             /\ Sole(Tail(ready), P) /\ ~In(new, P) => Sole(ready', P)
  BY <1>1, InConcat
<1>4. RegisterAhead(ready) => Head(ready).k = "timer" \/ Head(ready).k = "post"
  BY <1>1, AheadStays, SortOf DEF TypeOK
<1> QED BY <1>1, <1>2, <1>3, <1>4

\* Two runs of handlers added are their concatenation.
LEMMA TwoRuns ==
  ASSUME TypeOK, ready # <<>>, NEW a \in Seq(Handler), NEW b \in Seq(Handler)
  PROVE  /\ Tail(ready) \o a \o b = Tail(ready) \o (a \o b)
         /\ a \o b \in Seq(Handler)
         /\ \A P : In(a \o b, P) <=> In(a, P) \/ In(b, P)
<1>1. Tail(ready) \in Seq(Handler)
  BY HeadTailProperties DEF TypeOK
<1> QED BY <1>1, ConcatAssociative, InConcat

\* Nothing but posted functions.
Posts(q) == q \in Seq(Handler) /\ \A i \in 1 .. Len(q) : q[i].k = "post"

\* Posted functions complete nothing.
LEMMA PostsOnly ==
  ASSUME NEW q, Posts(q)
  PROVE  /\ \A k : k # "post" => ~In(q, Of(k)) /\ \A m : ~In(q, OfMsg(k, m))
         /\ ~In(q, Stray)
<1>1. \A i \in 1 .. Len(q) : q[i] \in Handler /\ q[i].k = "post"
  BY ElementOfSeq DEF Posts
<1> QED BY <1>1, SortOf DEF In

\* The posts of the handlers.
LEMMA SmallPosts ==
  /\ Posts(<<>>)
  /\ \A m \in OutMsg : Posts(<<H("post", m)>>)
  /\ \A m, n \in OutMsg : Posts(<<H("post", m)>> \o <<H("post", n)>>)
<1>1. \A m \in OutMsg : H("post", m) \in Handler /\ H("post", m).k = "post"
  BY HandlerTypes, SortOf
<1>2. \A m \in OutMsg : Posts(<<H("post", m)>>)
  BY <1>1, SmallSeqs DEF Posts
<1>3. Posts(<<>>)
  BY SmallSeqs DEF Posts
<1>4. ASSUME NEW a, NEW b, Posts(a), Posts(b) PROVE Posts(a \o b)
  BY <1>4, ConcatProperties DEF Posts
<1> QED BY <1>2, <1>3, <1>4

\* A read handler: it may post, and reads on.
LEMMA ReadKeepsLink ==
  ASSUME TypeOK, Link, ready # <<>>, Head(ready).k = "read",
         NEW posts, Posts(posts), ReadLoop(posts),
         UNCHANGED <<conn, inflight, out_q_, writing_, first>>,
         conn # "open" => state_' = "UNREGISTERED",
         "reconnect" \in armed' <=> "reconnect" \in armed
  PROVE  Link'
<1> USE DEF Link
<1> DEFINE last == IF conn = "open" THEN <<>> ELSE <<H("read", "error")>>
           new  == posts \o last
<1>1. last \in Seq(Handler) /\ (conn = "open" => last = <<>>)
  BY HandlerTypes, SmallSeqs DEF Result
<1>2. \A P : In(last, P) => H("read", "error") \in P
  BY InSmall
<1>3. ready' = Tail(ready) \o posts \o last
  BY DEF ReadLoop
<1> HIDE DEF last
<1>4. /\ ready' = Tail(ready) \o new /\ new \in Seq(Handler)
      /\ \A P : In(new, P) <=> In(posts, P) \/ In(last, P)
  BY <1>1, <1>3, TwoRuns DEF Posts
<1> HIDE DEF new
<1>5. Head(ready) \in Handler
  BY <1>4, Advances
<1>6. /\ ~In(new, Of("write")) /\ ~In(new, Of("connect")) /\ ~In(new, Stray)
      /\ ~In(new, OfMsg("timer", "reconnect"))
  BY <1>2, <1>4, Failures, PostsOnly
<1>7. /\ Head(ready) \in Of("read") /\ Head(ready) \notin Of("write")
      /\ Head(ready) \notin Of("connect") /\ Head(ready) \notin OfMsg("timer", "reconnect")
  BY <1>5, SortOf
<1>8. In(ready, Of("read"))
  BY <1>4, <1>7, Advances
<1>9. ~Dialling /\ ~Dialling' /\ ~In(ready, OfMsg("timer", "reconnect"))
  BY <1>8 DEF Clean, Redial, Dialling
<1>10. conn = "open" => first # "none"
  BY <1>4, Advances DEF RegisterNext
<1>11. reading' = (conn = "open")
  BY DEF ReadLoop
<1> QED BY <1>4, <1>6, <1>7, <1>9, <1>10, <1>11, Advances
    DEF Quiet, Busy, Serial, Clean, RegisterNext, RegisterFirst, Redial

\* What closing the socket adds are errors of reads and writes.
LEMMA AbortedOnly ==
  ASSUME TypeOK, NEW P, In(Aborted, P)
  PROVE  H("read", "error") \in P \/ H("write", "error") \in P
<1> DEFINE w == [i \in 1 .. inflight |-> H("write", "error")]
           r == IF reading THEN <<H("read", "error")>> ELSE <<>>
<1>1. inflight \in Nat /\ \A i \in 1 .. inflight : H("write", "error") \in Handler
  BY HandlerTypes DEF TypeOK, Result
<1>2. w \in Seq(Handler)
  BY <1>1, IsASeq
<1>3. In(w, P) => H("write", "error") \in P
  <2>1. Len(w) = inflight
    BY <1>1, <1>2
  <2> QED BY <2>1 DEF In
<1>4. r \in Seq(Handler)
  BY HandlerTypes, SmallSeqs DEF Result
<1>5. In(r, P) => H("read", "error") \in P
  BY InSmall
<1>6. In(r \o w, P)
  BY DEF Aborted
<1> HIDE DEF r, w
<1> QED BY <1>2, <1>3, <1>4, <1>5, <1>6, InConcat

\* schedule_reconnect, from a handler that is not the last one of a dial.
LEMMA ReconnectKeepsLink ==
  ASSUME TypeOK, Link, ready # <<>>, ~In(Tail(ready), Of("connect")),
         ~In(ready, OfMsg("timer", "reconnect")),
         NEW more \in {<<>>, <<H("read", "error")>>},
         ScheduleReconnect(more), UNCHANGED first
  PROVE  Link'
<1> USE DEF Link
<1> DEFINE new == Aborted \o more
<1>1. more \in Seq(Handler) /\ \A P : In(more, P) => H("read", "error") \in P
  <2>1. CASE more = <<>>
    BY <2>1, SmallSeqs, InSmall
  <2>2. CASE more = <<H("read", "error")>>
    <3>1. H("read", "error") \in Handler
      BY HandlerTypes DEF Result
    <3> QED BY <2>2, <3>1, SmallSeqs, InSmall
  <2> QED BY <2>1, <2>2
<1>2. Aborted \in Seq(Handler)
  BY AbortedType
<1>3. /\ ready' = Tail(ready) \o new /\ new \in Seq(Handler)
      /\ \A P : In(new, P) <=> In(Aborted, P) \/ In(more, P)
  BY <1>1, <1>2, TwoRuns DEF ScheduleReconnect
<1> HIDE DEF new
<1>5. ~In(new, Of("connect")) /\ ~In(new, Stray) /\ ~In(new, OfMsg("timer", "reconnect"))
  BY <1>1, <1>3, Failures, AbortedOnly
<1>6. ~In(ready', Of("connect")) /\ ~In(ready', Stray) /\ ~In(ready', OfMsg("timer", "reconnect"))
  BY <1>3, <1>5, Advances
<1>7. /\ conn' = "closed" /\ ~Dialling' /\ ~reading' /\ inflight' = 0
      /\ "reconnect" \in armed' /\ out_q_' = <<>> /\ ~writing_' /\ state_' = "UNREGISTERED"
  BY DEF ScheduleReconnect, Dialling
<1> QED BY <1>6, <1>7 DEF Quiet, Busy, Serial, Clean, RegisterNext, RegisterFirst, Redial

\* do_write, from a handler of a connection with no other write on it.
LEMMA DoWriteKeepsLink ==
  ASSUME TypeOK, Link, ready # <<>>, NEW q \in Seq(OutMsg), NEW posts, Posts(posts),
         DoWrite(q, posts), UNCHANGED <<state_, conn, reading, armed>>,
         ~Dialling, ~In(ready, OfMsg("timer", "reconnect")),
         conn = "open" => inflight = 0 /\ ~In(Tail(ready), Of("write")),
         conn = "open" /\ first = "none" => q # <<>> /\ Head(q) = "REGISTER_REQ"
  PROVE  Link'
<1> USE DEF Link
<1>0. ~Dialling' /\ 0 # 1
  BY DEF Dialling
<1>1. conn # "open" => inflight = 0
  BY DEF Quiet
<1>2. CASE q = <<>>
  <2>1. /\ ready' = Tail(ready) \o posts /\ posts \in Seq(Handler)
        /\ ~writing_' /\ out_q_' = <<>> /\ UNCHANGED <<inflight, first>>
    BY <1>2 DEF DoWrite, Posts
  <2> QED BY <1>0, <1>1, <1>2, <2>1, Advances, PostsOnly
      DEF Quiet, Busy, Serial, Clean, RegisterNext, RegisterFirst, Redial
<1>3. CASE q # <<>> /\ conn = "open"
  <2>1. /\ ready' = Tail(ready) \o posts /\ posts \in Seq(Handler)
        /\ writing_' /\ inflight' = inflight + 1
        /\ first' = IF first = "none" THEN Head(q) ELSE first
    BY <1>3 DEF DoWrite, Posts
  <2>2. inflight' = 1
    BY <1>3, <2>1
  <2>3. first' = "REGISTER_REQ"
    BY <1>3, <2>1 DEF RegisterFirst
  <2> QED BY <1>0, <1>3, <2>1, <2>2, <2>3, Advances, PostsOnly
      DEF Quiet, Busy, Serial, Clean, RegisterNext, RegisterFirst, Redial
<1>4. CASE q # <<>> /\ conn # "open"
  <2> DEFINE last == <<H("write", "error")>>
             new  == posts \o last
  <2>1. /\ ready' = Tail(ready) \o posts \o last
        /\ writing_' /\ UNCHANGED <<inflight, first>>
    BY <1>4 DEF DoWrite
  <2>2. last \in Seq(Handler) /\ posts \in Seq(Handler)
    BY HandlerTypes, SmallSeqs DEF Result, Posts
  <2>3. \A P : In(last, P) <=> H("write", "error") \in P
    BY InSmall
  <2> HIDE DEF last
  <2>4. /\ ready' = Tail(ready) \o new /\ new \in Seq(Handler)
        /\ \A P : In(new, P) <=> In(posts, P) \/ In(last, P)
    BY <2>1, <2>2, TwoRuns
  <2> HIDE DEF new
  <2>5. /\ In(new, Of("write")) /\ ~In(new, Of("connect")) /\ ~In(new, Stray)
        /\ ~In(new, OfMsg("timer", "reconnect"))
    BY <2>3, <2>4, Failures, PostsOnly
  <2>6. /\ In(ready', Of("write")) /\ ~In(ready', Of("connect")) /\ ~In(ready', Stray)
        /\ ~In(ready', OfMsg("timer", "reconnect"))
    BY <2>4, <2>5, Advances DEF Clean
  <2> QED BY <1>0, <1>1, <1>4, <2>1, <2>6
      DEF Quiet, Busy, Serial, Clean, RegisterNext, RegisterFirst, Redial
<1> QED BY <1>2, <1>3, <1>4

\* A handler that leaves the connection and its queues alone: a timer.
LEMMA TimerKeepsLink ==
  ASSUME TypeOK, Link, ready # <<>>, Head(ready).k = "timer", Head(ready).m # "reconnect",
         NEW posts, Posts(posts), ready' = Tail(ready) \o posts,
         UNCHANGED <<state_, link, out_q_, writing_, first>>,
         "reconnect" \in armed' <=> "reconnect" \in armed,
         posts # <<>> => state_ \in {"ON", "OFF", "FAULT"}
  PROVE  Link'
<1> USE DEF Link
<1>1. posts \in Seq(Handler)
  BY DEF Posts
<1>2. Head(ready) \in Handler
  BY <1>1, Advances
<1>3. /\ Head(ready) \notin Of("post") /\ Head(ready) \notin Of("read")
      /\ Head(ready) \notin Of("write") /\ Head(ready) \notin Of("connect")
      /\ Head(ready) \notin OfMsg("timer", "reconnect") /\ Head(ready) \in Of("timer")
  BY <1>2, SortOf
<1>4. UNCHANGED <<state_, conn, reading, inflight, out_q_, writing_, first>>
  BY DEF link
<1>5. Dialling' = Dialling
  BY <1>4 DEF Dialling
<1>6. CASE posts = <<>>
  <2>1. ready' = Tail(ready)
    BY <1>6, HeadTailProperties, ConcatSimplifications DEF TypeOK
  <2>2. RegisterAhead(ready) => RegisterAhead(ready')
    BY <1>3, <2>1, AheadStays DEF TypeOK
  <2>3. \A P : ~In(posts, P)
    BY <1>6, InSmall
  <2>4. /\ \A P : Head(ready) \notin P => (In(ready', P) <=> In(ready, P))
        /\ \A P : In(ready', P) => In(ready, P)
        /\ \A P : Sole(ready, P) => Sole(ready', P)
    BY <1>1, <2>3, Advances
  <2> QED BY <1>3, <1>4, <1>5, <2>2, <2>4
      DEF Quiet, Busy, Serial, Clean, RegisterNext, RegisterFirst, Redial
<1>7. CASE posts # <<>>
  <2>1. conn = "open" /\ first # "none"
    BY <1>7 DEF Quiet, RegisterNext
  <2>2. ~Dialling
    BY <2>1 DEF Dialling
  <2>3. \A P \in {Of("write"), Of("connect"), OfMsg("timer", "reconnect")} :
          (In(ready', P) <=> In(ready, P)) /\ (Sole(ready, P) => Sole(ready', P))
    <3>1. \A P \in {Of("write"), Of("connect"), OfMsg("timer", "reconnect")} : ~In(posts, P)
      BY PostsOnly
    <3> QED BY <1>1, <1>3, <3>1, Advances
  <2>4. ~In(ready', Stray)
    BY <1>1, Advances, PostsOnly
  <2>5. ~In(ready, OfMsg("timer", "reconnect")) /\ ~Dialling'
    BY <1>5, <2>1, <2>2 DEF Redial
  <2> QED BY <1>3, <1>4, <2>1, <2>2, <2>3, <2>4, <2>5
      DEF Quiet, Busy, Serial, Clean, RegisterNext, RegisterFirst, Redial
<1> QED BY <1>6, <1>7

\* A handler with nothing to add.
LEMMA NothingAdded ==
  ASSUME TypeOK, ready # <<>>
  PROVE  /\ Tail(ready) = Tail(ready) \o <<>>
         /\ \A x : Append(Tail(ready), x) = Tail(ready) \o <<x>>
BY HeadTailProperties, AppendIsConcat DEF TypeOK

\* What the next handler's kind says of the phase the connection is in.
LEMMA PhaseOf ==
  ASSUME TypeOK, Link, ready # <<>>
  PROVE  /\ Head(ready) \in Handler
         /\ Head(ready).k = "connect" =>
              Dialling /\ ~In(Tail(ready), Of("connect"))
         /\ Head(ready).k \in {"post", "read", "write"} => ~Dialling
         /\ Head(ready).k # "timer" => ~In(ready, OfMsg("timer", "reconnect"))
         /\ ~Dialling => ~In(Tail(ready), Of("connect"))
         /\ conn = "open" /\ first = "none" =>
              /\ Head(ready).k \in {"timer", "post"}
              /\ Head(ready).k = "post" => Head(ready).m = "REGISTER_REQ"
<1> USE DEF Link
<1>1. Head(ready) \in Handler
  BY HeadTailProperties DEF TypeOK
<1>2. \A k : Head(ready) \in Of(k) <=> Head(ready).k = k
  BY <1>1, SortOf
<1>3. \A P : /\ In(ready, P) <=> Head(ready) \in P \/ In(Tail(ready), P)
             /\ Sole(ready, P) /\ Head(ready) \in P => ~In(Tail(ready), P)
  BY InTail DEF TypeOK
<1>4. Head(ready).k \in {"post", "timer", "read", "write", "connect"}
  BY <1>1 DEF Handler
<1>5. RegisterAhead(ready) =>
        Head(ready).k = "timer" \/ (Head(ready).k = "post" /\ Head(ready).m = "REGISTER_REQ")
  BY <1>1, AheadStays, SortOf DEF TypeOK
<1>6. Head(ready).k # "timer" => ~In(ready, OfMsg("timer", "reconnect"))
  BY <1>2, <1>3, <1>4 DEF Redial
<1> QED BY <1>1, <1>2, <1>3, <1>5, <1>6 DEF Clean, RegisterNext

\* What send_status and maybe_simulate_fault add are posts.
LEMMA StatusPosts ==
  ASSUME NEW s, NEW i, StatusThenMaybeFault(s, i)
  PROVE  \E posts : Posts(posts) /\ ReadLoop(posts)
<1> DEFINE status == <<H("post", "STATUS_REPORT")>>
           report == <<H("post", "FAULT_REPORT")>>
<1>1. Posts(status) /\ Posts(status \o report)
  BY SmallPosts DEF OutMsg
<1>2. ReadLoop(status) \/ ReadLoop(status \o report)
  BY DEF StatusThenMaybeFault
<1> HIDE DEF status, report
<1> QED BY <1>1, <1>2

\* A timer closes a standing connection.
LEMMA OpenReconnects ==
  ASSUME TypeOK, Link, ready # <<>>, conn = "open", ScheduleReconnect(<<>>), UNCHANGED first
  PROVE  Link'
<1>1. ~Dialling /\ ~In(ready, OfMsg("timer", "reconnect"))
  BY DEF Link, Dialling, Redial
<1>2. ~In(Tail(ready), Of("connect"))
  BY <1>1, PhaseOf
<1> QED BY <1>1, <1>2, ReconnectKeepsLink

\* Every handler keeps Link.
LEMMA HandlerKeepsLink ==
  ASSUME TypeOK, Link, RunHandler
  PROVE  Link'
<1>0. SUFFICES ASSUME ready # <<>> PROVE Link'
  BY Zenon DEF RunHandler, RunConnectStage, RunHandshakeDone, RunFailure, RunPost, RunWriteDone,
     RunRegisterAck, RunRegisterNack, RunSwitchOn, RunSwitchOff, RunSetIntensity, RunOtherMessage,
     RunRegisterTimeout, RunHeartbeat, RunReconnect, RunManualReset, Runs
<1> USE DEF Link
<1>a. <<>> \in Seq(Handler) /\ \A P : ~In(<<>>, P)
  BY SmallSeqs, InSmall
<1>b. conn # "open" => state_ = "UNREGISTERED"
  BY DEF Quiet
<1>1. CASE RunConnectStage
  <2>1. /\ ready' = Tail(ready) \o <<>> /\ Head(ready).k = "connect"
        /\ UNCHANGED <<state_, reading, inflight, out_q_, writing_, armed, first>>
        /\ conn \in {"resolving", "connecting"} /\ conn' \in {"connecting", "handshaking"}
    BY <1>0, <1>1, NothingAdded DEF RunConnectStage, Runs
  <2>2. /\ Dialling /\ Dialling' /\ conn # "open" /\ conn' # "open"
        /\ conn # "closed" /\ conn' # "closed"
    BY <2>1 DEF Dialling
  <2>3. Head(ready) \notin OfMsg("timer", "reconnect")
    BY <1>0, <2>1, PhaseOf, SortOf
  <2>4. /\ \A P : In(ready', P) => In(ready, P)
        /\ \A P : Sole(ready, P) => Sole(ready', P)
    BY <1>0, <1>a, <2>1, Advances
  <2> QED BY <2>1, <2>2, <2>3, <2>4
      DEF Quiet, Busy, Serial, Clean, RegisterNext, RegisterFirst, Redial
<1>2. CASE RunHandshakeDone
  <2> DEFINE h == H("post", "REGISTER_REQ")
  <2>1. h \in Handler /\ h \in Of("post") /\ h \in OfMsg("post", "REGISTER_REQ")
        /\ h \notin Of("write") /\ h \notin Of("connect") /\ h \notin Stray
        /\ h \notin OfMsg("timer", "reconnect")
    <3>1. h \in Handler /\ h.k = "post" /\ h.m = "REGISTER_REQ"
      BY HandlerTypes, SortOf DEF OutMsg
    <3> QED BY <3>1, SortOf
  <2>2. conn = "handshaking" /\ state_ # "REGISTERING" /\ Head(ready).k = "connect"
    BY <1>2, <1>b DEF RunHandshakeDone, Runs
  <2>3. /\ conn' = "open" /\ state_' = "REGISTERING" /\ ready' = Append(Tail(ready), h)
        /\ armed' = armed \cup {"register"}
        /\ UNCHANGED <<inflight, out_q_, writing_, first>>
    BY <1>2, <2>2 DEF RunHandshakeDone
  <2>4. ready' = Tail(ready) \o <<h>> /\ <<h>> \in Seq(Handler)
    BY <1>0, <2>1, <2>3, NothingAdded, SmallSeqs
  <2>5. \A P : In(<<h>>, P) <=> h \in P
    BY InSmall
  <2> HIDE DEF h
  <2>6. Dialling /\ ~Dialling' /\ ~writing_ /\ first = "none" /\ inflight = 0 /\ 0 # 1
    BY <2>2, <2>3 DEF Dialling, Clean, Quiet
  <2>7. /\ \A P : In(ready', P) => In(ready, P) \/ h \in P
        /\ ~In(ready', Of("connect"))
    BY <1>0, <2>1, <2>2, <2>4, <2>5, Advances, PhaseOf
  <2>8. ~In(ready', Of("write"))
    BY <2>1, <2>6, <2>7 DEF Clean
  <2>9. Sole(ready', Of("write"))
    BY <2>8 DEF In, Sole
  <2>10. RegisterAhead(ready')
    <3>1. Tail(ready) \in Seq(Handler)
      BY <1>0, HeadTailProperties DEF TypeOK
    <3>2. \A i \in 1 .. Len(Tail(ready)) : Tail(ready)[i] \in Of("timer")
      <4>1. /\ ~In(Tail(ready), Of("post")) /\ ~In(Tail(ready), Of("read"))
            /\ ~In(Tail(ready), Of("write")) /\ ~In(Tail(ready), Of("connect"))
        BY <1>0, <2>2, <2>4, <2>6, Advances, PhaseOf DEF Clean
      <4>2. \A i \in 1 .. Len(Tail(ready)) : Tail(ready)[i] \in Handler
        BY <3>1, ElementOfSeq
      <4>3. \A i \in 1 .. Len(Tail(ready)) :
              Tail(ready)[i].k \notin {"post", "read", "write", "connect"}
        BY <4>1, <4>2, SortOf DEF In
      <4>4. \A x \in Handler : x.k \in {"post", "timer", "read", "write", "connect"}
        BY DEF Handler
      <4> QED BY <4>2, <4>3, <4>4, SortOf
    <3> DEFINE n == Len(Tail(ready)) + 1
    <3>3. /\ Len(ready') = n /\ n \in 1 .. n /\ ready'[n] = h
          /\ \A i \in 1 .. n - 1 : ready'[i] = Tail(ready)[i] /\ i \in 1 .. Len(Tail(ready))
      BY <2>1, <2>3, <3>1, AppendProperties
    <3> HIDE DEF n
    <3> QED BY <2>1, <3>2, <3>3 DEF RegisterAhead
  <2>11. "reconnect" \in armed' <=> "reconnect" \in armed
    BY <2>3
  <2>12. "reconnect" \notin armed /\ ~In(ready, OfMsg("timer", "reconnect"))
    BY <2>2 DEF Redial
  <2> QED BY <2>1, <2>3, <2>6, <2>7, <2>8, <2>9, <2>10, <2>11, <2>12
      DEF Quiet, Busy, Serial, Clean, RegisterNext, RegisterFirst, Redial
<1>3. CASE RunFailure
  <2>1. Head(ready).k \in {"connect", "read", "write"}
    BY <1>3 DEF RunFailure, Runs
  <2>2. ~In(Tail(ready), Of("connect")) /\ ~In(ready, OfMsg("timer", "reconnect"))
    BY <1>0, <2>1, PhaseOf
  <2> QED BY <1>0, <1>3, <2>2, ReconnectKeepsLink DEF RunFailure
<1>4. ASSUME NEW m \in OutMsg, RunPost(m) PROVE Link'
  <2>1. Head(ready).k = "post" /\ Head(ready).m = m
    BY <1>4 DEF RunPost, Runs
  <2>2. /\ ~Dialling /\ ~In(ready, OfMsg("timer", "reconnect"))
        /\ conn = "open" /\ first = "none" => m = "REGISTER_REQ"
    BY <1>0, <2>1, PhaseOf
  <2>3. UNCHANGED <<state_, conn, reading, armed>>
    BY <1>4 DEF RunPost
  <2>4. Head(ready) \notin Of("write")
    BY <1>0, <2>1, PhaseOf, SortOf
  <2>5. CASE writing_
    <3>1. ready' = Tail(ready) \o <<>> /\ UNCHANGED <<inflight, writing_, first>>
      BY <1>0, <1>4, <2>5, NothingAdded DEF RunPost
    <3>2. /\ \A P : In(ready', P) => In(ready, P)
          /\ \A P : Sole(ready, P) => Sole(ready', P)
          /\ In(ready', Of("write")) <=> In(ready, Of("write"))
      BY <1>0, <1>a, <2>4, <3>1, Advances
    <3>3. ~Dialling'
      BY <2>2, <2>3 DEF Dialling
    <3>4. conn = "open" => first # "none"
      BY <2>5 DEF RegisterNext
    <3> QED BY <2>2, <2>3, <2>5, <3>1, <3>2, <3>3, <3>4
      DEF Quiet, Busy, Serial, Clean, RegisterNext, RegisterFirst, Redial
  <2>6. CASE ~writing_
    <3> DEFINE q == Append(out_q_, m)
    <3>1. q \in Seq(OutMsg) /\ q # <<>> /\ Head(q) = m
      <4>1. out_q_ = <<>>
        BY <2>6 DEF Busy
      <4> QED BY <4>1
    <3>2. DoWrite(q, <<>>)
      BY <1>4, <2>6 DEF RunPost
    <3> HIDE DEF q
    <3>3. conn = "open" => inflight = 0 /\ ~In(Tail(ready), Of("write"))
      <4>1. conn = "open" => inflight = 0 /\ ~In(ready, Of("write"))
        BY <2>6 DEF Serial
      <4> QED BY <1>0, <4>1, InTail DEF TypeOK
    <3> QED BY <1>0, <2>2, <2>3, <3>1, <3>2, <3>3, SmallPosts, DoWriteKeepsLink
  <2> QED BY <2>5, <2>6
<1>5. CASE RunWriteDone
  <2> DEFINE posts == IF pending_fault_ THEN <<H("post", "FAULT_REPORT")>> ELSE <<>>
  <2>1. Posts(posts)
    BY SmallPosts DEF OutMsg
  <2>2. DoWrite(out_q_, posts) /\ Head(ready).k = "write"
    BY <1>5 DEF RunWriteDone, Runs
  <2> HIDE DEF posts
  <2>3. UNCHANGED <<state_, conn, reading, armed>>
    BY <1>5 DEF RunWriteDone
  <2>4. ~Dialling /\ ~In(ready, OfMsg("timer", "reconnect")) /\ (conn = "open" => first # "none")
    BY <1>0, <2>2, PhaseOf
  <2>5. conn = "open" => inflight = 0 /\ ~In(Tail(ready), Of("write"))
    <3>1. Head(ready) \in Of("write")
      BY <1>0, <2>2, PhaseOf, SortOf
    <3> QED BY <1>0, <3>1, InTail DEF TypeOK, Serial
  <2>6. out_q_ \in Seq(OutMsg)
    BY DEF TypeOK
  <2> QED BY <1>0, <2>1, <2>2, <2>3, <2>4, <2>5, <2>6, DoWriteKeepsLink
<1>6. CASE RunRegisterAck
  <2>1. /\ Head(ready).k = "read" /\ UNCHANGED <<conn, inflight, out_q_, writing_, first>>
        /\ ReadLoop(<<>>) \/ ReadLoop(<<H("post", "STATUS_REPORT")>>)
        /\ "reconnect" \in armed' <=> "reconnect" \in armed
    BY <1>6 DEF RunRegisterAck, Runs
  <2>2. conn # "open" => state_' = "UNREGISTERED"
    BY <1>6, <1>b DEF RunRegisterAck, MaySwitch, transitions_
  <2> QED BY <1>0, <2>1, <2>2, SmallPosts, ReadKeepsLink DEF OutMsg
<1>7. CASE RunRegisterNack
  <2>1. Head(ready).k = "read"
    BY <1>7 DEF RunRegisterNack, Runs
  <2>2. ~In(Tail(ready), Of("connect")) /\ ~In(ready, OfMsg("timer", "reconnect"))
    BY <1>0, <2>1, PhaseOf
  <2> QED BY <1>0, <1>7, <2>2, ReconnectKeepsLink DEF RunRegisterNack
<1>8. CASE RunSwitchOn
  <2>1. /\ Head(ready).k = "read" /\ UNCHANGED <<conn, inflight, out_q_, writing_, armed, first>>
    BY <1>8 DEF RunSwitchOn, Runs
  <2>2. \E posts : Posts(posts) /\ ReadLoop(posts)
    BY <1>8, SmallPosts, StatusPosts DEF RunSwitchOn
  <2>3. conn # "open" => state_' = "UNREGISTERED"
    BY <1>8, <1>b DEF RunSwitchOn
  <2> QED BY <1>0, <2>1, <2>2, <2>3, ReadKeepsLink
<1>9. CASE RunSwitchOff
  <2>1. /\ Head(ready).k = "read" /\ UNCHANGED <<conn, inflight, out_q_, writing_, armed, first>>
        /\ ReadLoop(<<>>) \/ ReadLoop(<<H("post", "STATUS_REPORT")>>)
    BY <1>9 DEF RunSwitchOff, Runs
  <2>2. conn # "open" => state_' = "UNREGISTERED"
    BY <1>9, <1>b DEF RunSwitchOff
  <2> QED BY <1>0, <2>1, <2>2, SmallPosts, ReadKeepsLink DEF OutMsg
<1>10. CASE RunSetIntensity
  <2>1. /\ Head(ready).k = "read" /\ UNCHANGED <<conn, inflight, out_q_, writing_, armed, first>>
    BY <1>10 DEF RunSetIntensity, Runs
  <2>2. \E posts : Posts(posts) /\ ReadLoop(posts)
    BY <1>10, SmallPosts, StatusPosts DEF RunSetIntensity
  <2>3. conn # "open" => state_' = "UNREGISTERED"
    BY <1>10, <1>b DEF RunSetIntensity
  <2> QED BY <1>0, <2>1, <2>2, <2>3, ReadKeepsLink
<1>11. CASE RunOtherMessage
  <2>1. /\ Head(ready).k = "read" /\ ReadLoop(<<>>)
        /\ UNCHANGED <<state_, conn, inflight, out_q_, writing_, armed, first>>
    BY <1>11 DEF RunOtherMessage, Runs
  <2> QED BY <1>0, <1>b, <2>1, SmallPosts, ReadKeepsLink
<1>12. CASE RunRegisterTimeout
  <2>1. Head(ready).k = "timer" /\ Head(ready).m = "register" /\ UNCHANGED first
    BY <1>12 DEF RunRegisterTimeout, Runs
  <2>2. CASE state_ = "REGISTERING"
    BY <1>0, <1>b, <1>12, <2>1, <2>2, OpenReconnects DEF RunRegisterTimeout
  <2>3. CASE state_ # "REGISTERING"
    <3>1. Ignored
      BY <1>12, <2>3 DEF RunRegisterTimeout
    <3> QED BY <1>0, <2>1, <3>1, NothingAdded, SmallPosts, TimerKeepsLink DEF Ignored
  <2> QED BY <2>2, <2>3
<1>13. CASE RunHeartbeat
  <2>1. /\ Head(ready).k = "timer" /\ Head(ready).m # "reconnect"
        /\ UNCHANGED <<state_, link, out_q_, writing_, first>>
        /\ "reconnect" \in armed' <=> "reconnect" \in armed
    BY <1>13 DEF RunHeartbeat, Runs
  <2>2. CASE state_ \in {"ON", "OFF", "FAULT"}
    <3>1. ready' = Tail(ready) \o <<H("post", "STATUS_REPORT")>>
      BY <1>0, <1>13, <2>2, NothingAdded DEF RunHeartbeat
    <3> QED BY <1>0, <2>1, <2>2, <3>1, SmallPosts, TimerKeepsLink DEF OutMsg
  <2>3. CASE state_ \notin {"ON", "OFF", "FAULT"}
    <3>1. ready' = Tail(ready) \o <<>>
      BY <1>0, <1>13, <2>3, NothingAdded DEF RunHeartbeat
    <3> QED BY <1>0, <2>1, <3>1, SmallPosts, TimerKeepsLink
  <2> QED BY <2>2, <2>3
<1>14. CASE RunReconnect
  <2>1. /\ Head(ready).k = "timer" /\ Head(ready).m = "reconnect"
        /\ conn' = "resolving" /\ first' = "none" /\ ready' = Tail(ready) \o <<>>
        /\ UNCHANGED <<state_, reading, inflight, out_q_, writing_, armed>>
    BY <1>0, <1>14, NothingAdded DEF RunReconnect, Runs
  <2>2. Head(ready) \in OfMsg("timer", "reconnect")
    BY <1>0, <2>1, PhaseOf, SortOf
  <2>3. /\ \A P : In(ready', P) <=> In(Tail(ready), P)
        /\ \A P : In(ready, P) <=> Head(ready) \in P \/ In(Tail(ready), P)
        /\ \A P : Sole(ready, P) /\ Head(ready) \in P => ~In(Tail(ready), P)
    BY <1>0, <1>a, <2>1, Advances
  <2>4. In(ready, OfMsg("timer", "reconnect")) /\ conn = "closed"
    BY <2>2, <2>3 DEF Redial
  <2>5. ~In(ready', OfMsg("timer", "reconnect")) /\ "reconnect" \notin armed'
    BY <2>1, <2>2, <2>3, <2>4 DEF Redial
  <2>6. /\ ~In(ready', Of("post")) /\ ~In(ready', Of("read")) /\ ~In(ready', Of("write"))
        /\ ~In(ready', Of("connect")) /\ ~In(ready', Stray)
    BY <2>3, <2>4 DEF Redial
  <2>7. ~reading /\ inflight = 0 /\ state_ = "UNREGISTERED" /\ ~writing_ /\ 0 # 1
    BY <2>4 DEF Quiet, Busy, Redial
  <2>8. Sole(ready', Of("connect"))
    BY <2>6 DEF In, Sole
  <2>9. Dialling'
    BY <2>1 DEF Dialling
  <2> QED BY <2>1, <2>5, <2>6, <2>7, <2>8, <2>9
      DEF Quiet, Busy, Serial, Clean, RegisterNext, RegisterFirst, Redial
<1>15. CASE RunManualReset
  <2>1. Head(ready).k = "timer" /\ Head(ready).m = "reset" /\ UNCHANGED first
    BY <1>15 DEF RunManualReset, Runs
  <2>2. CASE state_ = "FAULT"
    BY <1>0, <1>b, <1>15, <2>1, <2>2, OpenReconnects DEF RunManualReset
  <2>3. CASE state_ # "FAULT"
    <3>1. Ignored
      BY <1>15, <2>3 DEF RunManualReset
    <3> QED BY <1>0, <2>1, <3>1, NothingAdded, SmallPosts, TimerKeepsLink DEF Ignored
  <2> QED BY <2>2, <2>3
<1> QED BY <1>1, <1>2, <1>3, <1>4, <1>5, <1>6, <1>7, <1>8, <1>9, <1>10, <1>11, <1>12, <1>13,
           <1>14, <1>15, Zenon DEF RunHandler

\* The connection's invariant holds in every reachable state.
LEMMA LinkInductive == Spec => []Link
<1>1. Init => Link
  <2> SUFFICES ASSUME Init PROVE Link
    OBVIOUS
  <2>1. \A P : ~In(ready, P) /\ Sole(ready, P)
    BY InSmall DEF Init
  <2>2. "reconnect" \notin armed
    BY DEF Init
  <2> QED BY <2>1, <2>2
      DEF Init, Link, Quiet, Busy, Serial, Clean, Dialling, RegisterNext, RegisterFirst, Redial
<1>2. Service /\ Link /\ [Next]_vars => Link'
  <2> SUFFICES ASSUME Service, Link, [Next]_vars PROVE Link'
    OBVIOUS
  <2>1. CASE Next
    BY <2>1, EnvironmentKeepsLink, HandlerKeepsLink DEF Next, Service
  <2>2. CASE UNCHANGED vars
    BY <2>2
      DEF vars, Link, Quiet, Busy, Serial, Clean, Dialling, RegisterNext, RegisterFirst, Redial
  <2> QED BY <2>1, <2>2
<1> QED BY <1>1, <1>2, ServiceInductive, PTL DEF Spec

\* Writes on the TLS stream are serialized (queue_send, do_write), across any
\* number of reconnects and whatever is left in the queue by them.
THEOREM LampOneWrite == Spec => []OneWriteAtATime
<1>1. Link => OneWriteAtATime
  BY DEF Link, Quiet, Serial, OneWriteAtATime
<1> QED BY <1>1, LinkInductive, PTL

\* REGISTER_REQ is the first frame of every connection (send_register): what
\* was posted for an earlier connection never goes out on it.
THEOREM LampRegistersFirst == Spec => []RegisterFirst
<1>1. Link => RegisterFirst
  BY DEF Link
<1> QED BY <1>1, LinkInductive, PTL

-----------------------------------------------------------------------------
(* Timers                                                                  *)

\* Every handler leaves the rest of the queue in it.
LEMMA RestStays ==
  ASSUME TypeOK, RunHandler
  PROVE  /\ ready # <<>>
         /\ \A P : In(Tail(ready), P) => In(ready', P)
<1>1. ready # <<>>
  BY Zenon DEF RunHandler, RunConnectStage, RunHandshakeDone, RunFailure, RunPost, RunWriteDone,
     RunRegisterAck, RunRegisterNack, RunSwitchOn, RunSwitchOff, RunSetIntensity, RunOtherMessage,
     RunRegisterTimeout, RunHeartbeat, RunReconnect, RunManualReset, Runs
<1> DEFINE Stays == \A P : In(Tail(ready), P) => In(ready', P)
<1>2. ASSUME NEW new \in Seq(Handler), ready' = Tail(ready) \o new PROVE Stays
  BY <1>1, <1>2, Advances
<1>3. ready' = Tail(ready) => Stays
  OBVIOUS
<1>4. ASSUME NEW m \in OutMsg, ready' = Append(Tail(ready), H("post", m)) PROVE Stays
  BY <1>1, <1>2, <1>4, NothingAdded, HandlerTypes, SmallSeqs
<1>5. ASSUME NEW a \in Seq(Handler), NEW b \in Seq(Handler), ready' = Tail(ready) \o a \o b
      PROVE  Stays
  BY <1>1, <1>2, <1>5, TwoRuns
<1>6. <<>> \in Seq(Handler) /\ <<H("read", "error")>> \in Seq(Handler)
      /\ <<H("write", "error")>> \in Seq(Handler)
  BY HandlerTypes, SmallSeqs DEF Result
<1> SUFFICES Stays
  BY <1>1
<1> HIDE DEF Stays
<1>7. ASSUME NEW more \in Seq(Handler), ScheduleReconnect(more) PROVE Stays
  BY <1>5, <1>7, AbortedType DEF ScheduleReconnect
<1>8. ASSUME NEW posts, Posts(posts), ReadLoop(posts) PROVE Stays
  BY <1>5, <1>6, <1>8 DEF ReadLoop, Posts
<1>9. ASSUME NEW q, NEW posts, Posts(posts), DoWrite(q, posts) PROVE Stays
  BY <1>2, <1>5, <1>6, <1>9 DEF DoWrite, Posts
<1>10. CASE RunFailure \/ RunRegisterNack \/ RunRegisterTimeout \/ RunManualReset
  BY <1>3, <1>6, <1>7, <1>10
    DEF RunFailure, RunRegisterNack, RunRegisterTimeout, RunManualReset, Ignored
<1>11. CASE RunConnectStage \/ RunHandshakeDone \/ RunHeartbeat \/ RunReconnect
  BY <1>3, <1>4, <1>11
    DEF RunConnectStage, RunHandshakeDone, RunHeartbeat, RunReconnect, OutMsg
<1>12. ASSUME NEW m \in OutMsg, RunPost(m) PROVE Stays
  BY <1>3, <1>9, <1>12, SmallPosts DEF RunPost
<1>13. CASE RunWriteDone
  BY <1>9, <1>13, SmallPosts DEF RunWriteDone, OutMsg
<1>14. CASE RunRegisterAck \/ RunSwitchOff \/ RunOtherMessage
  BY <1>8, <1>14, SmallPosts DEF RunRegisterAck, RunSwitchOff, RunOtherMessage, OutMsg
<1>15. CASE RunSwitchOn \/ RunSetIntensity
  BY <1>8, <1>15, SmallPosts, StatusPosts DEF RunSwitchOn, RunSetIntensity
<1> QED BY <1>10, <1>11, <1>12, <1>13, <1>14, <1>15, Zenon DEF RunHandler

\* the timer t is armed or its handler is in the queue
Pends(t) == t \in armed \/ In(ready, OfMsg("timer", t))

\* a registration is timed, and a lamp in service has its heartbeat
Timed == /\ state_ = "REGISTERING" => Pends("register")
         /\ state_ \in {"OFF", "ON", "FAULT"} => Pends("heartbeat")

\* What the network and the timers do keeps Timed.
LEMMA EnvironmentKeepsTimed ==
  ASSUME TypeOK, Timed, Environment
  PROVE  Timed'
<1>1. state_' = state_
  BY DEF Environment, ConnectCompletes, WriteCompletes, ReadCompletes, TimerExpires
<1>2. ASSUME NEW h \in Handler, ready' = Append(ready, h), NEW t, Pends(t),
             t \in armed' \/ t \notin armed \/ h \in OfMsg("timer", t)
      PROVE  Pends(t)'
  BY <1>2, Arrives DEF Pends
<1>3. ASSUME NEW h \in Handler, ready' = Append(ready, h), armed' = armed PROVE Timed'
  BY <1>1, <1>2, <1>3 DEF Timed
<1>4. ASSUME NEW r \in Result, ConnectCompletes(r) \/ WriteCompletes(r) PROVE Timed'
  BY <1>3, <1>4, HandlerTypes DEF ConnectCompletes, WriteCompletes
<1>5. ASSUME NEW m \in InMsg \cup {"error"}, NEW v \in 0 .. 255, ReadCompletes(m, v)
      PROVE  Timed'
  <2>1. [k |-> "read", m |-> m, v |-> v] \in Handler
    BY DEF Handler, Result
  <2> QED BY <1>3, <1>5, <2>1 DEF ReadCompletes
<1>6. ASSUME NEW t \in Timers, TimerExpires(t) PROVE Timed'
  <2>1. H("timer", t) \in Handler /\ H("timer", t).k = "timer" /\ H("timer", t).m = t
    BY HandlerTypes, SortOf
  <2>2. H("timer", t) \in OfMsg("timer", t)
    BY <2>1, SortOf
  <2>3. armed' = armed \ {t} /\ ready' = Append(ready, H("timer", t))
    BY <1>6 DEF TimerExpires
  <2>4. \A u : Pends(u) => Pends(u)'
    BY <1>2, <2>1, <2>2, <2>3
  <2> QED BY <1>1, <2>4 DEF Timed
<1>7. 0 \in 0 .. 255 /\ \A v \in Intensities : v \in 0 .. 255
  BY IntensityAssumption
<1>8. "SET_INTENSITY" \in InMsg
  BY DEF InMsg
<1> QED BY <1>4, <1>5, <1>6, <1>7, <1>8, Zenon DEF Environment

\* Every handler keeps Timed.
LEMMA HandlerKeepsTimed ==
  ASSUME TypeOK, Link, Timed, RunHandler
  PROVE  Timed'
<1>0. ready # <<>> /\ Head(ready) \in Handler
  BY RestStays, HeadTailProperties DEF TypeOK
\* a handler other than the timer's own leaves it pending, unless it disarms it
<1>1. ASSUME NEW t, Pends(t), t \in armed => t \in armed',
             Head(ready).k # "timer" \/ Head(ready).m # t
      PROVE  Pends(t)'
  <2>1. In(ready, OfMsg("timer", t)) => In(Tail(ready), OfMsg("timer", t))
    <3>1. Head(ready) \notin OfMsg("timer", t)
      BY <1>0, <1>1, SortOf
    <3> QED BY <1>0, <3>1, InTail DEF TypeOK
  <2> QED BY <1>1, <2>1, RestStays DEF Pends
<1>2. \A t : t \in armed' => Pends(t)'
  BY DEF Pends
<1>3. \A k, m : Runs(k, m) => Head(ready).k = k /\ Head(ready).m = m
  BY DEF Runs
<1>4. state_' = "UNREGISTERED" => Timed'
  BY DEF Timed
<1>5. CASE armed' = armed /\ Head(ready).k # "timer" /\
           (state_' = state_
            \/ (state_ \in {"OFF", "ON"} /\ state_' \in {"OFF", "ON", "FAULT"}))
  BY <1>1, <1>5 DEF Timed
<1>6. CASE RunConnectStage \/ RunWriteDone \/ RunSwitchOff \/ RunOtherMessage
  BY <1>3, <1>5, <1>6 DEF RunConnectStage, RunWriteDone, RunSwitchOff, RunOtherMessage
<1>7. CASE \E m \in OutMsg : RunPost(m)
  BY <1>3, <1>5, <1>7 DEF RunPost
<1>8. CASE RunSwitchOn \/ RunSetIntensity
  <2>1. ASSUME NEW s \in {"ON", "OFF"}, NEW i, StatusThenMaybeFault(s, i)
        PROVE  state_' \in {"OFF", "ON", "FAULT"}
    BY <2>1 DEF StatusThenMaybeFault
  <2>2. CASE RunSwitchOn
    <3>1. armed' = armed /\ Head(ready).k # "timer"
      BY <1>3, <2>2 DEF RunSwitchOn
    <3>2. state_' = state_ \/ (state_ = "OFF" /\ state_' \in {"OFF", "ON", "FAULT"})
      BY <2>1, <2>2 DEF RunSwitchOn
    <3> QED BY <1>5, <3>1, <3>2
  <2>3. CASE RunSetIntensity
    <3>1. armed' = armed /\ Head(ready).k # "timer"
      BY <1>3, <2>3 DEF RunSetIntensity
    <3>2. state_' = state_ \/ (state_ \in {"OFF", "ON"} /\ state_' \in {"OFF", "ON", "FAULT"})
      <4> DEFINE v == Head(ready).v
                 s == IF v = 0 /\ state_ = "ON" THEN "OFF"
                      ELSE IF v > 0 /\ state_ = "OFF" THEN "ON" ELSE state_
      <4>1. IF s \in {"ON", "OFF"} THEN StatusThenMaybeFault(s, v) ELSE state_' = state_
        BY <2>3 DEF RunSetIntensity
      <4>2. s \in {"ON", "OFF"} => state_ \in {"OFF", "ON"}
        OBVIOUS
      <4> HIDE DEF s, v
      <4> QED BY <2>1, <4>1, <4>2
    <3> QED BY <1>5, <3>1, <3>2
  <2> QED BY <1>8, <2>2, <2>3
<1>9. CASE RunHandshakeDone
  <2>1. state_ = "UNREGISTERED"
    BY <1>9 DEF RunHandshakeDone, Link, Quiet
  <2>2. state_' = "REGISTERING" /\ "register" \in armed'
    BY <1>9, <2>1 DEF RunHandshakeDone
  <2> QED BY <1>2, <2>2 DEF Timed
<1>10. CASE RunFailure \/ RunRegisterNack
  BY <1>4, <1>10 DEF RunFailure, RunRegisterNack, ScheduleReconnect
<1>11. CASE RunRegisterAck
  <2>1. CASE MaySwitch("OFF")
    BY <1>2, <1>11, <2>1 DEF RunRegisterAck, Timed
  <2>2. CASE ~MaySwitch("OFF")
    <3>1. state_ # "REGISTERING" /\ state_' = state_ /\ armed' = armed \ {"register"}
      BY <1>11, <2>2 DEF RunRegisterAck, MaySwitch, transitions_
    <3>2. Head(ready).k = "read"
      BY <1>3, <1>11 DEF RunRegisterAck
    <3>3. Pends("heartbeat") => Pends("heartbeat")'
      BY <1>1, <3>1, <3>2
    <3> QED BY <3>1, <3>3 DEF Timed
  <2> QED BY <2>1, <2>2
<1>12. CASE RunRegisterTimeout
  <2>1. CASE state_ = "REGISTERING"
    BY <1>4, <1>12, <2>1 DEF RunRegisterTimeout, ScheduleReconnect
  <2>2. CASE state_ # "REGISTERING"
    <3>1. state_' = state_ /\ armed' = armed /\ Head(ready).m = "register"
      BY <1>3, <1>12, <2>2 DEF RunRegisterTimeout, Ignored
    <3>2. Pends("heartbeat") => Pends("heartbeat")'
      BY <1>1, <3>1
    <3> QED BY <2>2, <3>1, <3>2 DEF Timed
  <2> QED BY <2>1, <2>2
<1>13. CASE RunHeartbeat
  <2>1. /\ state_' = state_ /\ armed' = armed \cup {"heartbeat"}
        /\ Head(ready).m = "heartbeat"
    BY <1>3, <1>13 DEF RunHeartbeat
  <2>2. Pends("register") => Pends("register")'
    BY <1>1, <2>1
  <2> QED BY <1>2, <2>1, <2>2 DEF Timed
<1>14. CASE RunReconnect
  <2>1. state_' = state_ /\ armed' = armed /\ Head(ready).m = "reconnect"
    BY <1>3, <1>14 DEF RunReconnect
  <2>2. \A t \in {"register", "heartbeat"} : Pends(t) => Pends(t)'
    BY <1>1, <2>1
  <2> QED BY <2>1, <2>2 DEF Timed
<1>15. CASE RunManualReset
  <2>1. CASE state_ = "FAULT"
    BY <1>4, <1>15, <2>1 DEF RunManualReset, ScheduleReconnect
  <2>2. CASE state_ # "FAULT"
    <3>1. state_' = state_ /\ armed' = armed /\ Head(ready).m = "reset"
      BY <1>3, <1>15, <2>2 DEF RunManualReset, Ignored
    <3>2. \A t \in {"register", "heartbeat"} : Pends(t) => Pends(t)'
      BY <1>1, <3>1
    <3> QED BY <3>1, <3>2 DEF Timed
  <2> QED BY <2>1, <2>2
<1> QED BY <1>6, <1>7, <1>8, <1>9, <1>10, <1>11, <1>12, <1>13, <1>14, <1>15, Zenon DEF RunHandler

\* The lamp always has a timer to move it on (timer_register_timeout_,
\* timer_heartbeat_, timer_reconnect_), and one connection in the making.
THEOREM LampNeverStranded == Spec => []NeverStranded
<1>1. Init => Timed
  BY DEF Init, Timed
<1>2. Service /\ Link /\ Timed /\ [Next]_vars => Timed'
  <2> SUFFICES ASSUME Service, Link, Timed, [Next]_vars PROVE Timed'
    OBVIOUS
  <2>1. CASE Next
    BY <2>1, EnvironmentKeepsTimed, HandlerKeepsTimed DEF Next, Service
  <2>2. CASE UNCHANGED vars
    BY <2>2 DEF vars, Timed, Pends
  <2> QED BY <2>1, <2>2
<1>3. Service /\ Link /\ Timed => NeverStranded
  <2> SUFFICES ASSUME Service, Link, Timed PROVE NeverStranded
    OBVIOUS
  <2>1. \A t : Queued("timer", t) <=> In(ready, OfMsg("timer", t))
    BY QueuedIn DEF Service, TypeOK
  <2>2. \A t : Awaited(t) <=> Pends(t)
    BY <2>1 DEF Awaited, Pends
  <2> QED BY <2>2 DEF NeverStranded, Timed, Pends, Link, Redial
<1> QED BY <1>1, <1>2, <1>3, ServiceInductive, LinkInductive, PTL DEF Spec

-----------------------------------------------------------------------------
(* The report of a fault                                                   *)

\* a write is on its way whose completion looks at pending_fault_
Outstanding == inflight = 1 \/ In(ready, Of("write"))

\* where the report of a fault is
Kept == \/ fault_out
        \/ In(out_q_, {"FAULT_REPORT"})
        \/ In(ready, OfMsg("post", "FAULT_REPORT"))
        \/ pending_fault_ /\ Outstanding

FaultKept == conn = "open" /\ state_ = "FAULT" => Kept

\* What the network and the timers do keeps FaultKept.
LEMMA EnvironmentKeepsFault ==
  ASSUME TypeOK, Link, FaultKept, Environment
  PROVE  FaultKept'
<1>1. ASSUME NEW h \in Handler, ready' = Append(ready, h),
             UNCHANGED <<conn, state_, out_q_, pending_fault_, fault_out>>,
             inflight' = inflight \/ h \in Of("write")
      PROVE  FaultKept'
  <2>1. \A P : In(ready, P) \/ h \in P => In(ready', P)
    BY <1>1, Arrives
  <2> QED BY <1>1, <2>1 DEF FaultKept, Kept, Outstanding
<1>2. ASSUME NEW r \in Result, ConnectCompletes(r) PROVE FaultKept'
  BY <1>1, <1>2, HandlerTypes DEF ConnectCompletes, link
<1>3. ASSUME NEW r \in Result, WriteCompletes(r) PROVE FaultKept'
  <2>1. H("write", r) \in Handler /\ H("write", r).k = "write"
    BY HandlerTypes, SortOf
  <2>2. H("write", r) \in Of("write")
    BY <2>1, SortOf
  <2> QED BY <1>1, <1>3, <2>1, <2>2 DEF WriteCompletes
<1>4. ASSUME NEW m \in InMsg \cup {"error"}, NEW v \in 0 .. 255, ReadCompletes(m, v)
      PROVE  FaultKept'
  <2>1. [k |-> "read", m |-> m, v |-> v] \in Handler
    BY DEF Handler, Result
  <2> QED BY <1>1, <1>4, <2>1 DEF ReadCompletes
<1>5. ASSUME NEW t \in Timers, TimerExpires(t) PROVE FaultKept'
  BY <1>1, <1>5, HandlerTypes DEF TimerExpires, link
<1>6. 0 \in 0 .. 255 /\ \A v \in Intensities : v \in 0 .. 255
  BY IntensityAssumption
<1>7. "SET_INTENSITY" \in InMsg
  BY DEF InMsg
<1> QED BY <1>2, <1>3, <1>4, <1>5, <1>6, <1>7, Zenon DEF Environment

\* do_write on a standing connection: the queue's head goes out, and what it
\* posts is posted.
LEMMA WriteKeepsReport ==
  ASSUME TypeOK, ready # <<>>, NEW q \in Seq(OutMsg), NEW posts, Posts(posts),
         DoWrite(q, posts), conn = "open"
  PROVE  /\ fault_out => fault_out'
         /\ In(q, {"FAULT_REPORT"}) => fault_out' \/ In(out_q_', {"FAULT_REPORT"})
         /\ \A P : In(posts, P) => In(ready', P)
<1>1. posts \in Seq(Handler) /\ ready' = Tail(ready) \o posts
  BY DEF Posts, DoWrite
<1>2. \A P : In(posts, P) => In(ready', P)
  BY <1>1, Advances
<1>3. CASE q = <<>>
  <2>1. fault_out' = fault_out /\ ~In(q, {"FAULT_REPORT"})
    BY <1>3, InSmall DEF DoWrite
  <2> QED BY <1>2, <2>1
<1>4. CASE q # <<>>
  <2>1. out_q_' = Tail(q) /\ fault_out' = (fault_out \/ Head(q) = "FAULT_REPORT")
    BY <1>4 DEF DoWrite
  <2>2. In(q, {"FAULT_REPORT"}) <=> Head(q) \in {"FAULT_REPORT"} \/ In(Tail(q), {"FAULT_REPORT"})
    BY <1>4, InTail
  <2> QED BY <1>2, <2>1, <2>2
<1> QED BY <1>3, <1>4

\* maybe_simulate_fault in a read handler leaves its report somewhere.
LEMMA FaultLeavesReport ==
  ASSUME TypeOK, Link, ready # <<>>, Head(ready).k = "read", NEW s \in {"ON", "OFF"}, NEW i,
         StatusThenMaybeFault(s, i), UNCHANGED <<inflight, out_q_, writing_>>,
         \A P : In(Tail(ready), P) => In(ready', P)
  PROVE  FaultKept'
<1> DEFINE status == <<H("post", "STATUS_REPORT")>>
           report == <<H("post", "FAULT_REPORT")>>
           busy   == writing_ \/ out_q_ # <<>>
<1>1. \/ state_' = s
      \/ /\ pending_fault_' = (pending_fault_ \/ busy)
         /\ ReadLoop(IF busy THEN status ELSE status \o report)
  BY DEF StatusThenMaybeFault
<1>2. CASE state_' = s
  BY <1>2 DEF FaultKept
<1>3. CASE busy /\ pending_fault_'
  <2>1. inflight = 1 \/ In(ready, Of("write"))
    BY <1>3 DEF Link, Busy
  <2>2. In(ready, Of("write")) => In(Tail(ready), Of("write"))
    <3>1. Head(ready) \notin Of("write")
      BY PhaseOf, SortOf
    <3> QED BY <3>1, InTail DEF TypeOK
  <2> QED BY <1>3, <2>1, <2>2 DEF FaultKept, Kept, Outstanding
<1>4. CASE ~busy /\ ReadLoop(status \o report)
  <2> DEFINE last == IF conn = "open" THEN <<>> ELSE <<H("read", "error")>>
  <2>1. Posts(status \o report) /\ Posts(status) /\ Posts(report)
    BY SmallPosts DEF OutMsg
  <2>2. last \in Seq(Handler)
    BY HandlerTypes, SmallSeqs DEF Result
  <2>3. ready' = Tail(ready) \o (status \o report) \o last
    BY <1>4 DEF ReadLoop
  <2>4. In(report, OfMsg("post", "FAULT_REPORT"))
    <3>1. /\ H("post", "FAULT_REPORT") \in Handler /\ H("post", "FAULT_REPORT").k = "post"
          /\ H("post", "FAULT_REPORT").m = "FAULT_REPORT"
      BY HandlerTypes, SortOf, ZenonT(30) DEF OutMsg
    <3>2. H("post", "FAULT_REPORT") \in OfMsg("post", "FAULT_REPORT")
      BY <3>1, SortOf
    <3> QED BY <3>2, InSmall
  <2> HIDE DEF status, report, last
  <2>5. In(status \o report, OfMsg("post", "FAULT_REPORT"))
    BY <2>1, <2>4, InConcat DEF Posts
  <2>6. In(ready', OfMsg("post", "FAULT_REPORT"))
    BY <2>1, <2>2, <2>3, <2>5, TwoRuns, Advances DEF Posts
  <2> QED BY <2>6 DEF FaultKept, Kept
<1> QED BY <1>1, <1>2, <1>3, <1>4

\* Every handler keeps FaultKept.
LEMMA HandlerKeepsFault ==
  ASSUME TypeOK, Link, FaultKept, RunHandler
  PROVE  FaultKept'
<1>0. /\ ready # <<>> /\ Head(ready) \in Handler
      /\ \A P : In(Tail(ready), P) => In(ready', P)
      /\ \A P : In(ready, P) <=> Head(ready) \in P \/ In(Tail(ready), P)
  BY RestStays, InTail, HeadTailProperties DEF TypeOK
<1>a. \A k, m : Runs(k, m) => Head(ready).k = k /\ Head(ready).m = m
  BY DEF Runs
<1>b. Head(ready).k \in {"read", "timer"} =>
        Head(ready) \notin Of("write") /\ Head(ready) \notin OfMsg("post", "FAULT_REPORT")
  BY <1>0, SortOf
<1>c. conn' # "open" \/ state_' # "FAULT" => FaultKept'
  BY DEF FaultKept
\* a handler that touches neither the lamp nor the write queue
<1>d. CASE /\ Head(ready).k \in {"read", "timer"}
           /\ UNCHANGED <<conn, state_, inflight, out_q_, pending_fault_, fault_out>>
  BY <1>0, <1>b, <1>d DEF FaultKept, Kept, Outstanding
<1>1. CASE RunConnectStage \/ RunReconnect
  BY <1>1, <1>c DEF RunConnectStage, RunReconnect
<1>2. CASE RunHandshakeDone
  BY <1>2, <1>c DEF RunHandshakeDone
<1>3. CASE RunFailure \/ RunRegisterNack
  BY <1>3, <1>c DEF RunFailure, RunRegisterNack, ScheduleReconnect
<1>4. ASSUME NEW m \in OutMsg, RunPost(m) PROVE FaultKept'
  <2>1. Head(ready).k = "post" /\ Head(ready).m = m /\ UNCHANGED <<conn, state_, pending_fault_>>
    BY <1>4, <1>a DEF RunPost
  <2>2. SUFFICES ASSUME conn = "open", state_ = "FAULT" PROVE Kept'
    BY <2>1 DEF FaultKept
  <2>3. Kept
    BY <2>2 DEF FaultKept
  <2>4. /\ Head(ready) \notin Of("write")
        /\ Head(ready) \in OfMsg("post", "FAULT_REPORT") <=> m = "FAULT_REPORT"
    BY <1>0, <2>1, SortOf
  <2>5. CASE writing_
    <3>1. out_q_' = Append(out_q_, m) /\ UNCHANGED <<inflight, fault_out>>
      BY <1>4, <2>5 DEF RunPost
    <3>2. /\ In(out_q_, {"FAULT_REPORT"}) => In(out_q_', {"FAULT_REPORT"})
          /\ m = "FAULT_REPORT" => In(out_q_', {"FAULT_REPORT"})
      BY <3>1, InAppend DEF TypeOK
    <3> QED BY <1>0, <2>1, <2>3, <2>4, <3>1, <3>2 DEF Kept, Outstanding
  <2>6. CASE ~writing_
    <3> DEFINE q == Append(out_q_, m)
    <3>1. out_q_ = <<>> /\ ~Outstanding
      BY <2>2, <2>6 DEF Link, Busy, Serial, Outstanding
    <3>2. q \in Seq(OutMsg) /\ (m = "FAULT_REPORT" => In(q, {"FAULT_REPORT"}))
      BY InAppend, AppendProperties DEF TypeOK
    <3>3. DoWrite(q, <<>>)
      BY <1>4, <2>6 DEF RunPost
    <3>4. ~In(out_q_, {"FAULT_REPORT"})
      BY <3>1, InSmall
    <3> HIDE DEF q
    <3>5. /\ fault_out => fault_out'
          /\ In(q, {"FAULT_REPORT"}) => fault_out' \/ In(out_q_', {"FAULT_REPORT"})
      BY <1>0, <2>2, <3>2, <3>3, SmallPosts, WriteKeepsReport
    <3> QED BY <1>0, <2>3, <2>4, <3>1, <3>2, <3>4, <3>5 DEF Kept
  <2> QED BY <2>5, <2>6
<1>5. CASE RunWriteDone
  <2> DEFINE posts == IF pending_fault_ THEN <<H("post", "FAULT_REPORT")>> ELSE <<>>
  <2>1. Head(ready).k = "write" /\ UNCHANGED <<conn, state_>> /\ DoWrite(out_q_, posts)
    BY <1>5, <1>a DEF RunWriteDone
  <2>2. SUFFICES ASSUME conn = "open", state_ = "FAULT" PROVE Kept'
    BY <2>1 DEF FaultKept
  <2>3. Kept
    BY <2>2 DEF FaultKept
  <2>4. Posts(posts)
    BY SmallPosts DEF OutMsg
  <2>5. pending_fault_ => In(posts, OfMsg("post", "FAULT_REPORT"))
    <3>1. /\ H("post", "FAULT_REPORT") \in Handler /\ H("post", "FAULT_REPORT").k = "post"
          /\ H("post", "FAULT_REPORT").m = "FAULT_REPORT"
      BY HandlerTypes, SortOf DEF OutMsg
    <3>2. H("post", "FAULT_REPORT") \in OfMsg("post", "FAULT_REPORT")
      BY <3>1, SortOf
    <3> QED BY <3>2, InSmall
  <2> HIDE DEF posts
  <2>6. Head(ready) \notin OfMsg("post", "FAULT_REPORT")
    BY <1>0, <2>1, SortOf
  <2>7. /\ fault_out => fault_out'
        /\ In(out_q_, {"FAULT_REPORT"}) => fault_out' \/ In(out_q_', {"FAULT_REPORT"})
        /\ \A P : In(posts, P) => In(ready', P)
    BY <1>0, <2>1, <2>2, <2>4, WriteKeepsReport DEF TypeOK
  <2> QED BY <1>0, <2>3, <2>5, <2>6, <2>7 DEF Kept
<1>6. CASE RunRegisterAck
  <2>1. \/ state_' # "FAULT"
        \/ UNCHANGED <<conn, state_, inflight, out_q_, pending_fault_, fault_out>>
    BY <1>6 DEF RunRegisterAck
  <2>2. Head(ready).k = "read"
    BY <1>6, <1>a DEF RunRegisterAck
  <2> QED BY <1>c, <1>d, <2>1, <2>2
<1>7. CASE RunSwitchOn
  <2>1. Head(ready).k = "read" /\ UNCHANGED <<conn, inflight, out_q_, writing_>>
    BY <1>7, <1>a DEF RunSwitchOn
  <2>2. CASE state_ = "OFF"
    BY <1>0, <1>7, <2>1, <2>2, FaultLeavesReport DEF RunSwitchOn
  <2>3. CASE state_ # "OFF"
    BY <1>7, <1>d, <2>1, <2>3 DEF RunSwitchOn
  <2> QED BY <2>2, <2>3
<1>8. CASE RunSwitchOff
  <2>1. \/ state_' # "FAULT"
        \/ UNCHANGED <<conn, state_, inflight, out_q_, pending_fault_, fault_out>>
    BY <1>8 DEF RunSwitchOff
  <2>2. Head(ready).k = "read"
    BY <1>8, <1>a DEF RunSwitchOff
  <2> QED BY <1>c, <1>d, <2>1, <2>2
<1>9. CASE RunSetIntensity
  <2> DEFINE v == Head(ready).v
             s == IF v = 0 /\ state_ = "ON" THEN "OFF"
                  ELSE IF v > 0 /\ state_ = "OFF" THEN "ON" ELSE state_
  <2>1. Head(ready).k = "read" /\ UNCHANGED <<conn, inflight, out_q_, writing_>>
    BY <1>9, <1>a DEF RunSetIntensity
  <2>2. IF s \in {"ON", "OFF"} THEN StatusThenMaybeFault(s, v)
        ELSE UNCHANGED <<state_, pending_fault_, fault_out>>
    BY <1>9 DEF RunSetIntensity
  <2> HIDE DEF s, v
  <2>3. CASE s \in {"ON", "OFF"}
    BY <1>0, <2>1, <2>2, <2>3, FaultLeavesReport
  <2>4. CASE s \notin {"ON", "OFF"}
    BY <1>d, <2>1, <2>2, <2>4
  <2> QED BY <2>3, <2>4
<1>10. CASE RunOtherMessage
  BY <1>10, <1>a, <1>d DEF RunOtherMessage
<1>11. CASE RunHeartbeat
  BY <1>11, <1>a, <1>d DEF RunHeartbeat, link
<1>12. CASE RunRegisterTimeout \/ RunManualReset
  <2>1. Head(ready).k = "timer" /\ UNCHANGED <<pending_fault_, fault_out>>
    BY <1>12, <1>a DEF RunRegisterTimeout, RunManualReset
  <2>2. ScheduleReconnect(<<>>) \/ Ignored
    BY <1>12 DEF RunRegisterTimeout, RunManualReset
  <2> QED BY <1>c, <1>d, <2>1, <2>2 DEF ScheduleReconnect, Ignored, link
<1> QED BY <1>1, <1>2, <1>3, <1>4, <1>5, <1>6, <1>7, <1>8, <1>9, <1>10, <1>11, <1>12, Zenon
    DEF RunHandler

\* A fault's report is never lost while the connection stands: written,
\* queued, posted, or pending behind a write that will complete
\* (maybe_simulate_fault, do_write).
THEOREM LampFaultReportKept == Spec => []FaultReportKept
<1>1. Init => FaultKept
  BY DEF Init, FaultKept
<1>2. Service /\ Link /\ FaultKept /\ [Next]_vars => FaultKept'
  <2> SUFFICES ASSUME Service, Link, FaultKept, [Next]_vars PROVE FaultKept'
    OBVIOUS
  <2>1. CASE Next
    BY <2>1, EnvironmentKeepsFault, HandlerKeepsFault DEF Next, Service
  <2>2. CASE UNCHANGED vars
    BY <2>2 DEF vars, FaultKept, Kept, Outstanding
  <2> QED BY <2>1, <2>2
<1>3. Service /\ Link /\ FaultKept => FaultReportKept
  <2> SUFFICES ASSUME Service, Link, conn = "open", state_ = "FAULT", Kept
               PROVE  FaultReportKept
    BY DEF FaultReportKept, FaultKept
  <2>1. \A k, m : Queued(k, m) <=> In(ready, OfMsg(k, m))
    BY QueuedIn DEF Service, TypeOK
  <2>2. In(out_q_, {"FAULT_REPORT"}) => \E i \in 1 .. Len(out_q_) : out_q_[i] = "FAULT_REPORT"
    BY DEF In
  <2>3. In(ready, Of("write")) => Queued("write", "ok") \/ Queued("write", "error")
    BY <2>1, Completions DEF Service, TypeOK, Link, Result
  <2>4. inflight = 1 => inflight > 0
    OBVIOUS
  <2> QED BY <2>1, <2>2, <2>3, <2>4 DEF Kept, Outstanding, FaultReportKept
<1> QED BY <1>1, <1>2, <1>3, ServiceInductive, LinkInductive, PTL DEF Spec

-----------------------------------------------------------------------------
(* The way out of FAULT                                                    *)

\* What a handler can do to a faulted lamp.
LEMMA FaultStays ==
  ASSUME TypeOK, Link, state_ = "FAULT", Next, state_' # "FAULT"
  PROVE  state_' = "UNREGISTERED" /\ conn' = "closed"
<1>1. conn = "open"
  BY DEF Link, Quiet
<1>2. ~MaySwitch("OFF")
  BY DEF MaySwitch, transitions_
<1>3. CASE Environment
  BY <1>3 DEF Environment, ConnectCompletes, WriteCompletes, ReadCompletes, TimerExpires
<1>4. CASE RunConnectStage \/ RunHandshakeDone
  BY <1>1, <1>4 DEF RunConnectStage, RunHandshakeDone
<1>5. CASE RunFailure \/ RunRegisterNack \/ RunManualReset
  BY <1>5 DEF RunFailure, RunRegisterNack, RunManualReset, ScheduleReconnect
<1>6. CASE \/ \E m \in OutMsg : RunPost(m)
           \/ RunWriteDone \/ RunOtherMessage \/ RunHeartbeat \/ RunReconnect
  BY <1>6 DEF RunPost, RunWriteDone, RunOtherMessage, RunHeartbeat, RunReconnect
<1>7. CASE RunRegisterAck
  BY <1>2, <1>7 DEF RunRegisterAck
<1>8. CASE RunSwitchOn \/ RunSwitchOff \/ RunRegisterTimeout
  BY <1>8 DEF RunSwitchOn, RunSwitchOff, RunRegisterTimeout, Ignored
<1>9. CASE RunSetIntensity
  BY <1>9 DEF RunSetIntensity
<1> QED BY <1>3, <1>4, <1>5, <1>6, <1>7, <1>8, <1>9 DEF Next, RunHandler

\* A faulted lamp leaves FAULT only with its connection (manual_reset and
\* schedule_reconnect): no command and no handler left over from an earlier
\* connection brings it back, for any length of the queue.
THEOREM LampFaultEndsConnection == Spec => FaultEndsConnection
<1>1. Service /\ Link /\ [Next]_vars
        => [state_ = "FAULT" /\ state_' # "FAULT"
              => state_' = "UNREGISTERED" /\ conn' = "closed"]_vars
  BY FaultStays DEF Service
<1> QED BY <1>1, ServiceInductive, LinkInductive, PTL DEF Spec, FaultEndsConnection
=============================================================================
