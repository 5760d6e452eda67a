----------------------- MODULE SessionWriteQueue_proofs ---------------------
(***************************************************************************)
(* OneWriteAtATime is violated when two threads run handlers of a session  *)
(* at the same time (the run session_write_queue).  Here: that this is the *)
(* only cause.  If the handlers of a session follow one another, as on one *)
(* thread or on a strand, writing_ does serialize, for any number of       *)
(* threads and frames, write errors included.                              *)
(***************************************************************************)
EXTENDS SessionWriteQueue, TLAPS

\* the handlers of the session do not overlap
HandlersInTurn == \A s, t \in Threads : pc[s] # "idle" /\ pc[t] # "idle" => s = t

\* no handler takes a frame from an empty deque
NoEmptyPop == \A t \in Threads : pc[t] # "undefined"

\* writing_ stands for the frame being written, and do_write is entered only
\* when there is none
Serial ==
  /\ inflight \in {0, 1}
  /\ inflight = 1 => writing_
  /\ \A t \in Threads : /\ pc[t] \in {"if_empty", "clear", "set", "pop"} => inflight = 0
                        /\ pc[t] \in {"set", "pop"} => out_q_ > 0
                        /\ pc[t] = "pop" => writing_

-----------------------------------------------------------------------------

\* A step of thread t: when handlers do not overlap, every other one is idle
\* before it, or idle after it.
LEMMA OthersIdle ==
  ASSUME TypeOK, HandlersInTurn, NEW t \in Threads, NEW from, NEW to, Goto(t, from, to)
  PROVE  /\ pc[t] = from /\ pc'[t] = to
         /\ \A s \in Threads : s # t => pc'[s] = pc[s]
         /\ from # "idle" => \A s \in Threads : s # t => pc[s] = "idle"
         /\ pc' = [pc EXCEPT ![t] = to]
BY DEF TypeOK, HandlersInTurn, Goto

\* Steps keep the types, and Serial as long as handlers do not overlap.
LEMMA NextSerial ==
  ASSUME MaxPosts \in Nat
  PROVE  TypeOK /\ NoEmptyPop /\ Serial /\ HandlersInTurn /\ [Next]_vars
           => TypeOK' /\ NoEmptyPop' /\ Serial'
<1> SUFFICES ASSUME TypeOK, NoEmptyPop, Serial, HandlersInTurn, [Next]_vars
             PROVE  TypeOK' /\ NoEmptyPop' /\ Serial'
  OBVIOUS
<1>1. CASE QueueSend
  BY <1>1 DEF QueueSend, TypeOK, NoEmptyPop, Serial
<1>2. CASE UNCHANGED vars
  BY <1>2 DEF vars, TypeOK, NoEmptyPop, Serial
<1>3. ASSUME NEW t \in Threads, Push(t) PROVE TypeOK' /\ NoEmptyPop' /\ Serial'
  <2>1. Goto(t, "idle", "if_writing")
    BY <1>3 DEF Push
  <2> QED BY <1>3, <2>1, OthersIdle DEF Push, TypeOK, NoEmptyPop, Serial
<1>4. ASSUME NEW t \in Threads, IfWriting(t) PROVE TypeOK' /\ NoEmptyPop' /\ Serial'
  <2>1. Goto(t, "if_writing", IF writing_ THEN "idle" ELSE "if_empty")
    BY <1>4 DEF IfWriting
  <2> QED BY <1>4, <2>1, OthersIdle DEF IfWriting, TypeOK, NoEmptyPop, Serial
<1>5. ASSUME NEW t \in Threads, IfEmpty(t) PROVE TypeOK' /\ NoEmptyPop' /\ Serial'
  <2>1. Goto(t, "if_empty", IF out_q_ = 0 THEN "clear" ELSE "set")
    BY <1>5 DEF IfEmpty
  <2> QED BY <1>5, <2>1, OthersIdle DEF IfEmpty, TypeOK, NoEmptyPop, Serial
<1>6. ASSUME NEW t \in Threads, Clear(t) PROVE TypeOK' /\ NoEmptyPop' /\ Serial'
  <2>1. Goto(t, "clear", "idle")
    BY <1>6 DEF Clear
  <2>2. inflight = 0 /\ writing_' = FALSE /\ UNCHANGED <<posted, out_q_, inflight>>
    BY <1>6, <2>1 DEF Clear, Goto, Serial
  <2>3. \A s \in Threads : pc'[s] = "idle"
    BY <2>1, OthersIdle
  <2>4. TypeOK'
    BY <2>1, <2>2, OthersIdle, ZenonT(30) DEF TypeOK
  <2> QED BY <2>2, <2>3, <2>4 DEF NoEmptyPop, Serial
<1>7. ASSUME NEW t \in Threads, Set(t) PROVE TypeOK' /\ NoEmptyPop' /\ Serial'
  <2>1. Goto(t, "set", "pop")
    BY <1>7 DEF Set
  <2> QED BY <1>7, <2>1, OthersIdle DEF Set, TypeOK, NoEmptyPop, Serial
<1>8. ASSUME NEW t \in Threads, Pop(t) PROVE TypeOK' /\ NoEmptyPop' /\ Serial'
  <2>1. pc[t] = "pop"
    BY <1>8 DEF Pop, Goto
  <2>2. out_q_ > 0 /\ inflight = 0 /\ writing_
    BY <2>1 DEF Serial
  <2>3. /\ Goto(t, "pop", "idle") /\ out_q_' = out_q_ - 1 /\ inflight' = inflight + 1
        /\ UNCHANGED <<posted, writing_>>
    <3>1. ~(out_q_ = 0)
      BY <2>2 DEF TypeOK
    <3> QED BY <1>8, <3>1, Zenon DEF Pop
  <2> QED BY <2>2, <2>3, OthersIdle DEF TypeOK, NoEmptyPop, Serial
<1>9. ASSUME NEW t \in Threads, WriteDone(t) PROVE TypeOK' /\ NoEmptyPop' /\ Serial'
  <2>1. /\ inflight > 0 /\ inflight' = inflight - 1 /\ UNCHANGED <<posted, out_q_, writing_>>
    BY <1>9 DEF WriteDone
  <2>2. inflight' = 0
    BY <2>1 DEF Serial
  <2>3. CASE UNCHANGED pc
    BY <2>1, <2>2, <2>3 DEF TypeOK, NoEmptyPop, Serial
  <2>4. CASE Goto(t, "idle", "if_empty")
    BY <2>1, <2>2, <2>4, OthersIdle DEF TypeOK, NoEmptyPop, Serial
  <2> QED BY <1>9, <2>3, <2>4 DEF WriteDone
<1> QED BY <1>1, <1>2, <1>3, <1>4, <1>5, <1>6, <1>7, <1>8, <1>9 DEF Next

\* When the handlers of a session do not overlap (queue_send posting to a strand,
\* or one thread in io.run()), at most one frame is being written and do_write
\* never takes a frame from an empty out_q_.
THEOREM StrandSerializes ==
  ASSUME MaxPosts \in Nat
  PROVE  Spec /\ []HandlersInTurn => [](OneWriteAtATime /\ NoEmptyPop)
<1>1. Init => TypeOK /\ NoEmptyPop /\ Serial
  <2> SUFFICES ASSUME Init PROVE TypeOK /\ NoEmptyPop /\ Serial
    OBVIOUS
  <2>1. /\ posted = 0 /\ out_q_ = 0 /\ inflight = 0 /\ writing_ = FALSE
        /\ pc = [t \in Threads |-> "idle"]
    BY DEF Init
  <2>2. \A t \in Threads : pc[t] = "idle"
    BY <2>1
  <2>3. TypeOK
    <3>1. 0 \in 0 .. MaxPosts /\ FALSE \in BOOLEAN
      OBVIOUS
    <3>2. pc \in [Threads -> {"idle", "if_writing", "if_empty", "clear", "set", "pop", "undefined"}]
      BY <2>1
    <3> QED BY <2>1, <3>1, <3>2 DEF TypeOK
  <2> QED BY <2>1, <2>2, <2>3 DEF NoEmptyPop, Serial
<1>2. TypeOK /\ NoEmptyPop /\ Serial /\ HandlersInTurn /\ [Next]_vars => TypeOK' /\ NoEmptyPop' /\ Serial'
  BY NextSerial
<1>3. TypeOK /\ NoEmptyPop /\ Serial => OneWriteAtATime /\ NoEmptyPop
  BY DEF Serial, OneWriteAtATime
<1> QED BY <1>1, <1>2, <1>3, PTL DEF Spec
=============================================================================
