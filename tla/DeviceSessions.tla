--------------------------- MODULE DeviceSessions ---------------------------
(***************************************************************************)
(* The connections of one device uri at the regional server                *)
(* (tls_device_server.hpp, DeviceSession and RegionalDeviceServer): a      *)
(* device that reconnects has a new session while the old one may still    *)
(* wait on its socket, and sessions_ holds a weak pointer to the one that  *)
(* registered last.                                                        *)
(*                                                                         *)
(* A session lives as long as a handler or an operation holds it: its      *)
(* chain of reads, the functions and writes under way, and the shared_ptr  *)
(* of a send_cmd_to_uri.  The handlers of one session run on any thread,   *)
(* so a failed write may close the session in the middle of its            *)
(* registration.  What a message means for the registry is modelled in     *)
(* RegionalServer.                                                         *)
(***************************************************************************)
EXTENDS Integers

CONSTANTS MaxConn,   \* bound: sessions of the device that exist at a time
          MaxSends   \* bound: no message is taken while this many are being sent

ASSUME ConnAssumption == MaxConn \in Nat /\ MaxSends \in Nat

VARIABLES
  chain,      \* per session: where its chain of reads is
  uri_,       \* per session: uri_ has been set
  open,       \* per session: sock_ is open
  sends,      \* per session: posted functions and writes that hold it
  sessions_,  \* the entry of the uri, 0 if there is none
  found,      \* the session send_cmd_to_uri has found, 0 if none
  \* history
  latest      \* the session that put itself in sessions_ last

vars == <<chain, uri_, open, sends, sessions_, found, latest>>

Conns == 1 .. MaxConn
Chain == {"handshake", "reading", "registering", "ended"}

TypeOK ==
  /\ chain \in [Conns -> Chain]
  /\ uri_ \in [Conns -> BOOLEAN]
  /\ open \in [Conns -> BOOLEAN]
  /\ sends \in [Conns -> Nat]
  /\ sessions_ \in Conns \cup {0}
  /\ found \in Conns \cup {0}
  /\ latest \in Conns \cup {0}

Init ==
  /\ chain = [c \in Conns |-> "ended"]
  /\ uri_ = [c \in Conns |-> FALSE]
  /\ open = [c \in Conns |-> FALSE]
  /\ sends = [c \in Conns |-> 0]
  /\ sessions_ = 0
  /\ found = 0
  /\ latest = 0

\* a shared_ptr to the session exists, so that weak_ptr::lock finds it
Alive(c) == chain[c] # "ended" \/ sends[c] > 0 \/ found = c

-----------------------------------------------------------------------------

\* A plausible slip: the entry is erased whosever it is.
OnCloseAnybody(c) == sessions_' = IF uri_[c] THEN 0 ELSE sessions_

\* on_close: the entry goes if it is this session's or nobody's
OnClose(c) ==
  sessions_' = IF uri_[c] /\ sessions_ # 0 /\ (sessions_ = c \/ ~Alive(sessions_))
               THEN 0 ELSE sessions_

\* do_accept and start, under a name that no session and no entry has
Accept(c) ==
  /\ ~Alive(c)
  /\ sessions_ # c
  /\ chain' = [chain EXCEPT ![c] = "handshake"]
  /\ open' = [open EXCEPT ![c] = TRUE]
  /\ uri_' = [uri_ EXCEPT ![c] = FALSE]
  /\ latest' = IF latest = c THEN 0 ELSE latest
  /\ UNCHANGED <<sends, sessions_, found>>

\* read_header for the first time
HandshakeDone(c) ==
  /\ chain[c] = "handshake"
  /\ chain' = [chain EXCEPT ![c] = "reading"]
  /\ UNCHANGED <<uri_, open, sends, sessions_, found, latest>>

\* on_close; the socket goes with the session
HandshakeFails(c) ==
  /\ chain[c] = "handshake"
  /\ OnClose(c)
  /\ chain' = [chain EXCEPT ![c] = "ended"]
  /\ open' = [open EXCEPT ![c] = FALSE]
  /\ UNCHANGED <<uri_, sends, found, latest>>

\* handle_register of an acceptable request, up to the lock of sessions_mu_
Receive(c) ==
  /\ chain[c] = "reading"
  /\ open[c]
  /\ sends[c] < MaxSends
  /\ chain' = [chain EXCEPT ![c] = "registering"]
  /\ uri_' = [uri_ EXCEPT ![c] = TRUE]
  /\ UNCHANGED <<open, sends, sessions_, found, latest>>

\* ... the entry, the REGISTER_ACK and the next read_header
Register(c) ==
  /\ chain[c] = "registering"
  /\ sessions_' = c
  /\ latest' = c
  /\ sends' = [sends EXCEPT ![c] = @ + 1]
  /\ chain' = [chain EXCEPT ![c] = "reading"]
  /\ UNCHANGED <<uri_, open, found>>

\* a message that is answered with REGISTER_NACK or FAULT_ACK.  The others
\* leave the session as it is.
Answer(c) ==
  /\ chain[c] = "reading"
  /\ open[c]
  /\ sends[c] < MaxSends
  /\ sends' = [sends EXCEPT ![c] = @ + 1]
  /\ UNCHANGED <<chain, uri_, open, sessions_, found, latest>>

\* A plausible slip: the session that cannot be read leaves its entry behind.
ReadFailsSilently(c) ==
  /\ chain[c] = "reading"
  /\ chain' = [chain EXCEPT ![c] = "ended"]
  /\ open' = [open EXCEPT ![c] = FALSE]
  /\ UNCHANGED <<uri_, sends, sessions_, found, latest>>

\* A plausible slip: the return after the failure is missing.
ReadFailsAndReads(c) ==
  /\ chain[c] = "reading"
  /\ OnClose(c)
  /\ open' = [open EXCEPT ![c] = FALSE]
  /\ UNCHANGED <<chain, uri_, sends, found, latest>>

\* a read fails, or a frame's length is out of range: on_close, close
ReadFails(c) ==
  /\ chain[c] = "reading"
  /\ OnClose(c)
  /\ chain' = [chain EXCEPT ![c] = "ended"]
  /\ open' = [open EXCEPT ![c] = FALSE]
  /\ UNCHANGED <<uri_, sends, found, latest>>

\* a message is written, or stays in a queue that nothing will empty
SendEnds(c) ==
  /\ sends[c] > 0
  /\ sends' = [sends EXCEPT ![c] = @ - 1]
  /\ UNCHANGED <<chain, uri_, open, sessions_, found, latest>>

\* a write fails: on_close, close.  A read under way will fail in turn.
WriteFails(c) ==
  /\ sends[c] > 0
  /\ OnClose(c)
  /\ open' = [open EXCEPT ![c] = FALSE]
  /\ sends' = [sends EXCEPT ![c] = @ - 1]
  /\ UNCHANGED <<chain, uri_, found, latest>>

\* send_cmd_to_uri under the lock; an entry whose session is gone is erased
FindSession ==
  /\ found = 0
  /\ sessions_ # 0
  /\ IF Alive(sessions_)
     THEN /\ sends[sessions_] < MaxSends
          /\ found' = sessions_
          /\ UNCHANGED sessions_
     ELSE /\ sessions_' = 0
          /\ UNCHANGED found
  /\ UNCHANGED <<chain, uri_, open, sends, latest>>

\* ... and send_cmd on what was found, without it
PostCommand ==
  /\ found # 0
  /\ sends' = [sends EXCEPT ![found] = IF uri_[found] THEN @ + 1 ELSE @]
  /\ found' = 0
  /\ UNCHANGED <<chain, uri_, open, sessions_, latest>>

-----------------------------------------------------------------------------

Next ==
  \/ \E c \in Conns : \/ Accept(c) \/ HandshakeDone(c) \/ HandshakeFails(c)
                      \/ Receive(c) \/ Register(c) \/ Answer(c) \/ ReadFails(c)
                      \/ SendEnds(c) \/ WriteFails(c)
  \/ FindSession \/ PostCommand

\* Threads run what is ready, and operations on a closed socket complete.
\* The device owes nothing: a connection nobody closes stays.
Fairness == /\ WF_vars(PostCommand)
            /\ \A c \in Conns : /\ WF_vars(Register(c))
                                /\ WF_vars(~open[c] /\ ReadFails(c))
                                /\ WF_vars(~open[c] /\ SendEnds(c))

Spec == Init /\ [][Next]_vars /\ Fairness

-----------------------------------------------------------------------------
(* Properties                                                              *)

\* The session that registered last is the one commands find as long as its
\* socket is open: no late on_close of an earlier session of the device, and
\* no cleaning up in send_cmd_to_uri, takes its entry away.
NewestReachable == latest # 0 /\ open[latest] => sessions_ = latest

\* A closed session does not keep the entry, also when a failed write closed
\* it while its registration was being handled on another thread.
ClosedForgotten == \A c \in Conns : sessions_ = c /\ ~open[c] ~> sessions_ # c

\* A closed session is destroyed: no chain of handlers keeps it for ever.
ClosedSessionEnds == \A c \in Conns : ~open[c] ~> ~Alive(c)
=============================================================================
