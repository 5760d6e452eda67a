----------------------------- MODULE RegionAlarms ---------------------------
(***************************************************************************)
(* Alarms on their way from a region to the central server: post_alarm and *)
(* read_alarm_ack (region_sync_client.hpp) and the session that takes      *)
(* ALARM_UP (central_tls_server.hpp).  Every alarm is a chain of its own,  *)
(* but all chains work on the one TLS stream alarm_sock_: post_alarm puts  *)
(* a new stream there while the handlers of earlier chains go on with      *)
(* *alarm_sock_, whichever stream that is by then.  comm_lost posts one    *)
(* alarm after the other in a loop (regional_server.cpp:100).              *)
(*                                                                         *)
(* That two threads use the unique_ptr at the same time, which is          *)
(* undefined, is left out.  That a stream is destroyed under an operation  *)
(* that still refers to it (async_connect and the operations of the TLS    *)
(* layer are composed of several) is the choice between the result it had, *)
(* an aborted operation and the end of the process.                        *)
(***************************************************************************)
EXTENDS CentralStore

CONSTANTS NumAlarms,    \* bound: alarms posted
          MaxAlarms     \* MAX_ALARMS of push_alarm: 2000 in the code

VARIABLES stage,     \* alarm -> the operation its chain started last
          result,    \* alarm -> "pending", or what its handler will be given
          conn,      \* the connection alarm_sock_ holds: the alarm whose chain made it, or 0
          tls,       \* the TLS engine of alarm_sock_
          hello,     \* the connection its handshake was begun on
          frames,    \* (connection, alarm) written, not yet read by central
          alarms_,   \* CentralStore::alarms_
          table,     \* table alarm
          acked,     \* connections central has answered on
          netfail,   \* history: alarms whose chain met an error of the network
          down       \* the regional process has ended

vars == <<stage, result, conn, tls, hello, frames, alarms_, table, acked, netfail, down>>

Alarms == 1 .. NumAlarms

Init ==
  /\ stage = [a \in Alarms |-> "idle"]
  /\ result = [a \in Alarms |-> "pending"]
  /\ conn = 0
  /\ tls = "fresh"
  /\ hello = 0
  /\ frames = {}
  /\ alarms_ = NoAlarms
  /\ table = {}
  /\ acked = {}
  /\ netfail = {}
  /\ down = FALSE

\* the chains whose operation refers to the stream until its handler has run,
\* and those whose operation is under way
OnStream == {b \in Alarms : stage[b] \in {"connect", "handshake", "write", "read"}}
UnderWay == {b \in OnStream : result[b] = "pending"}

\* a starts stage s, the operations of aborted end
Restarted(a, s, aborted) ==
  /\ stage' = [stage EXCEPT ![a] = s]
  /\ result' = [b \in Alarms |-> IF b = a THEN "pending"
                                 ELSE IF b \in aborted THEN "error" ELSE result[b]]

Goes(a, s, res) ==
  /\ stage' = [stage EXCEPT ![a] = s]
  /\ result' = [result EXCEPT ![a] = res]

-----------------------------------------------------------------------------

\* send_alarm_now, post_alarm: a new stream for every chain, and async_resolve.
\* The old stream is destroyed: the operations under way on it are aborted, and
\* one that had completed goes on with freed memory.
PostAlarm(a) ==
  /\ stage[a] = "idle"
  /\ \A b \in 1 .. a - 1 : stage[b] # "idle"
  /\ \E broken \in SUBSET OnStream : Restarted(a, "resolve", UnderWay \cup broken)
  /\ conn' = 0
  /\ tls' = "fresh"
  /\ hello' = 0
  /\ down' \in IF OnStream # {} THEN BOOLEAN ELSE {down}
  /\ UNCHANGED <<frames, alarms_, table, acked, netfail>>

\* the operation a chain waits for succeeds
OperationEnds(a) ==
  /\ result[a] = "pending"
  /\ \/ stage[a] = "resolve" /\ UNCHANGED <<conn, tls, frames>>
     \/ stage[a] = "connect" /\ conn' = a /\ UNCHANGED <<tls, frames>>
     \/ /\ stage[a] = "handshake"
        /\ conn # 0 /\ (tls = "ready" \/ conn = hello)
        /\ tls' = "ready"
        /\ UNCHANGED <<conn, frames>>
     \/ \* central can read the frame only on the connection it shook hands on
        /\ stage[a] = "write"
        /\ conn # 0
        /\ frames' = IF conn = hello THEN frames \cup {<<conn, a>>} ELSE frames
        /\ UNCHANGED <<conn, tls>>
     \/ stage[a] = "read" /\ conn \in acked /\ conn = hello /\ UNCHANGED <<conn, tls, frames>>
  /\ result' = [result EXCEPT ![a] = "ok"]
  /\ UNCHANGED <<stage, hello, alarms_, table, acked, netfail, down>>

\* it fails: because of the network, or because there is no connection, or
\* one that central gives up (it gets no handshake, or a record it cannot read)
OperationFails(a) ==
  /\ stage[a] \in {"resolve", "connect", "handshake", "write", "read"}
  /\ result[a] = "pending"
  /\ result' = [result EXCEPT ![a] = "error"]
  /\ netfail' = IF stage[a] \in {"resolve", "connect"} \/ (conn # 0 /\ conn = hello)
                THEN netfail \cup {a} ELSE netfail
  /\ UNCHANGED <<stage, conn, tls, hello, frames, alarms_, table, acked, down>>

\* the handler: an error ends the chain, success starts the next operation.
\* async_connect over the endpoints closes the socket before it opens it.
RunHandler(a) ==
  /\ stage[a] \notin {"idle", "ended"}
  /\ \/ result[a] = "error" /\ Goes(a, "ended", "error") /\ UNCHANGED <<conn, tls, hello>>
     \/ /\ result[a] = "ok"
        /\ \/ /\ stage[a] = "resolve"
              /\ Restarted(a, "connect", UnderWay)
              /\ conn' = 0
              /\ UNCHANGED <<tls, hello>>
           \/ /\ stage[a] = "connect"
              /\ Goes(a, "handshake", "pending")
              /\ tls' = IF tls = "fresh" THEN "hello" ELSE tls
              /\ hello' = IF tls = "fresh" THEN conn ELSE hello
              /\ UNCHANGED conn
           \/ stage[a] = "handshake" /\ Goes(a, "write", "pending") /\ UNCHANGED <<conn, tls, hello>>
           \/ stage[a] = "write" /\ Goes(a, "read", "pending") /\ UNCHANGED <<conn, tls, hello>>
           \/ stage[a] = "read" /\ Goes(a, "ended", "ok") /\ UNCHANGED <<conn, tls, hello>>
  /\ UNCHANGED <<frames, alarms_, table, acked, netfail, down>>

\* on_message, ALARM_UP: push_alarm, log_alarm on this thread with the result
\* of sqlite3_step ignored, and the acknowledgement
CentralTakesAlarm ==
  \E f \in frames :
    /\ frames' = frames \ {f}
    /\ alarms_' = PushAlarm(alarms_, f[2], MaxAlarms)
    /\ table' \in {table, table \cup {f[2]}}
    /\ acked' = acked \cup {f[1]}
    /\ UNCHANGED <<stage, result, conn, tls, hello, netfail, down>>

Region == /\ ~down
          /\ \E a \in Alarms : PostAlarm(a) \/ OperationEnds(a) \/ OperationFails(a) \/ RunHandler(a)

Next == Region \/ CentralTakesAlarm

Spec == Init /\ [][Next]_vars

-----------------------------------------------------------------------------

\* An alarm whose chain is over, and met no error of the network on its way,
\* is at central: the alarm the tests wait for (test_06_alarm_lamp.sh).
AlarmArrives ==
  \A a \in Alarms :
    stage[a] = "ended" /\ a \notin netfail /\ ~down =>
      \/ \E i \in 1 .. Len(alarms_) : alarms_[i] = a
      \/ \E f \in frames : f[2] = a
=============================================================================
