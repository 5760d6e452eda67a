-------------------------- MODULE SessionWriteQueue -------------------------
(***************************************************************************)
(* The write queue of one DeviceSession (tls_device_server.hpp:66-100).    *)
(* queue_send posts to the socket's executor, which is the io_context and  *)
(* not a strand, and main runs the io_context on two threads or more       *)
(* (regional_server.cpp:295).  out_q_ and writing_ have no lock, so each   *)
(* access to them is a step of its own; that two of them at the very same  *)
(* time are undefined is left out, the interleavings are enough.           *)
(***************************************************************************)
EXTENDS Integers

CONSTANTS Threads,   \* the threads that run the io_context
          MaxPosts   \* bound: functions queue_send has posted at a time

VARIABLES pc,        \* per thread: the next access in the handler it runs
          posted,    \* posted functions that no thread has taken yet
          out_q_,    \* the length of out_q_
          writing_,
          inflight   \* frames being written on the TLS stream

vars == <<pc, posted, out_q_, writing_, inflight>>

TypeOK ==
  /\ pc \in [Threads -> {"idle", "if_writing", "if_empty", "clear", "set", "pop", "undefined"}]
  /\ posted \in 0 .. MaxPosts
  /\ out_q_ \in Nat
  /\ writing_ \in BOOLEAN
  /\ inflight \in Nat

Init ==
  /\ pc = [t \in Threads |-> "idle"]
  /\ posted = 0
  /\ out_q_ = 0
  /\ writing_ = FALSE
  /\ inflight = 0

Goto(t, from, to) == pc[t] = from /\ pc' = [pc EXCEPT ![t] = to]

-----------------------------------------------------------------------------

\* queue_send, from a handler of the session or from send_cmd_to_uri; a
\* motion is two calls in a row, SWITCH_ON and SET_INTENSITY
QueueSend ==
  /\ posted < MaxPosts
  /\ posted' = posted + 1
  /\ UNCHANGED <<pc, out_q_, writing_, inflight>>

\* the posted function: push_back ...
Push(t) ==
  /\ posted > 0
  /\ Goto(t, "idle", "if_writing")
  /\ posted' = posted - 1
  /\ out_q_' = out_q_ + 1
  /\ UNCHANGED <<writing_, inflight>>

\* ... and if(!writing_) do_write()
IfWriting(t) ==
  /\ Goto(t, "if_writing", IF writing_ THEN "idle" ELSE "if_empty")
  /\ UNCHANGED <<posted, out_q_, writing_, inflight>>

\* do_write: out_q_.empty()
IfEmpty(t) ==
  /\ Goto(t, "if_empty", IF out_q_ = 0 THEN "clear" ELSE "set")
  /\ UNCHANGED <<posted, out_q_, writing_, inflight>>

Clear(t) ==
  /\ Goto(t, "clear", "idle")
  /\ writing_' = FALSE
  /\ UNCHANGED <<posted, out_q_, inflight>>

Set(t) ==
  /\ Goto(t, "set", "pop")
  /\ writing_' = TRUE
  /\ UNCHANGED <<posted, out_q_, inflight>>

\* front, pop_front and async_write_frame; on an empty deque undefined
Pop(t) ==
  \/ /\ out_q_ > 0
     /\ Goto(t, "pop", "idle")
     /\ out_q_' = out_q_ - 1
     /\ inflight' = inflight + 1
     /\ UNCHANGED <<posted, writing_>>
  \/ /\ out_q_ = 0
     /\ Goto(t, "pop", "undefined")
     /\ UNCHANGED <<posted, out_q_, writing_, inflight>>

\* the write's handler: do_write again, or the session is closed and
\* writing_ stays as it is
WriteDone(t) ==
  /\ inflight > 0
  /\ \/ Goto(t, "idle", "if_empty")
     \/ pc[t] = "idle" /\ UNCHANGED pc
  /\ inflight' = inflight - 1
  /\ UNCHANGED <<posted, out_q_, writing_>>

Next == \/ QueueSend
        \/ \E t \in Threads : \/ Push(t) \/ IfWriting(t) \/ IfEmpty(t) \/ Clear(t)
                              \/ Set(t) \/ Pop(t) \/ WriteDone(t)

Spec == Init /\ [][Next]_vars

-----------------------------------------------------------------------------

\* tls_device_server.hpp:66, "WRITE QUEUE (SERIALIZE)": one frame at a time is
\* written on the session's TLS stream.
OneWriteAtATime == inflight <= 1
=============================================================================
