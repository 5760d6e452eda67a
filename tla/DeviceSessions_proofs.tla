----------------------- MODULE DeviceSessions_proofs ------------------------
(***************************************************************************)
(* The session map, for any number of sessions of a device and of messages *)
(* under way.                                                              *)
(***************************************************************************)
EXTENDS DeviceSessions, TLAPS

\* an open socket has a chain of reads that keeps its session alive
OpenIsAlive == \A c \in Conns : open[c] => chain[c] # "ended"

IInv == TypeOK /\ OpenIsAlive /\ NewestReachable

\* The names of sessions are not 0.
LEMMA ConnsPositive == \A c \in Conns : c # 0
BY ConnAssumption DEF Conns

\* on_close of one session leaves the entry of another that is open alone.
LEMMA OnCloseSpares ==
  ASSUME IInv, NEW c \in Conns, OnClose(c)
  PROVE  /\ sessions_' \in Conns \cup {0}
         /\ latest # 0 /\ latest # c /\ open[latest] => sessions_' = latest
<1>1. sessions_' \in Conns \cup {0}
  BY DEF IInv, TypeOK, OnClose
<1>2. ASSUME latest # 0, latest # c, open[latest] PROVE sessions_' = latest
  <2>1. latest \in Conns /\ sessions_ = latest
    BY <1>2 DEF IInv, TypeOK, NewestReachable
  <2>2. Alive(sessions_)
    BY <1>2, <2>1 DEF IInv, OpenIsAlive, Alive
  <2> QED BY <1>2, <2>1, <2>2 DEF OnClose
<1> QED BY <1>1, <1>2

\* No step of a session, of the map or of a command breaks the invariant.
LEMMA Inductive == IInv /\ [Next]_vars => IInv'
<1> SUFFICES ASSUME IInv, [Next]_vars PROVE IInv'
  OBVIOUS
<1> USE ConnsPositive
<1>1. ASSUME NEW c \in Conns, Accept(c) PROVE IInv'
  <2>1. TypeOK' /\ OpenIsAlive'
    BY <1>1 DEF Accept, IInv, TypeOK, OpenIsAlive, Chain
  <2>2. NewestReachable'
    BY <1>1 DEF Accept, IInv, TypeOK, NewestReachable
  <2> QED BY <2>1, <2>2 DEF IInv
<1>2. ASSUME NEW c \in Conns, HandshakeDone(c) PROVE IInv'
  BY <1>2 DEF HandshakeDone, IInv, TypeOK, OpenIsAlive, NewestReachable, Chain
<1>3. ASSUME NEW c \in Conns, HandshakeFails(c) PROVE IInv'
  <2>1. TypeOK' /\ OpenIsAlive'
    BY <1>3, OnCloseSpares DEF HandshakeFails, IInv, TypeOK, OpenIsAlive, Chain
  <2>2. NewestReachable'
    BY <1>3, OnCloseSpares DEF HandshakeFails, IInv, TypeOK, NewestReachable
  <2> QED BY <2>1, <2>2 DEF IInv
<1>4. ASSUME NEW c \in Conns, Receive(c) PROVE IInv'
  BY <1>4 DEF Receive, IInv, TypeOK, OpenIsAlive, NewestReachable, Chain
<1>5. ASSUME NEW c \in Conns, Register(c) PROVE IInv'
  BY <1>5 DEF Register, IInv, TypeOK, OpenIsAlive, NewestReachable, Chain
<1>6. ASSUME NEW c \in Conns, Answer(c) PROVE IInv'
  BY <1>6 DEF Answer, IInv, TypeOK, OpenIsAlive, NewestReachable, Chain
<1>7. ASSUME NEW c \in Conns, ReadFails(c) PROVE IInv'
  <2>1. TypeOK' /\ OpenIsAlive'
    BY <1>7, OnCloseSpares DEF ReadFails, IInv, TypeOK, OpenIsAlive, Chain
  <2>2. NewestReachable'
    BY <1>7, OnCloseSpares DEF ReadFails, IInv, TypeOK, NewestReachable
  <2> QED BY <2>1, <2>2 DEF IInv
<1>8. ASSUME NEW c \in Conns, SendEnds(c) PROVE IInv'
  BY <1>8 DEF SendEnds, IInv, TypeOK, OpenIsAlive, NewestReachable
<1>9. ASSUME NEW c \in Conns, WriteFails(c) PROVE IInv'
  <2>1. TypeOK' /\ OpenIsAlive'
    BY <1>9, OnCloseSpares DEF WriteFails, IInv, TypeOK, OpenIsAlive
  <2>2. NewestReachable'
    BY <1>9, OnCloseSpares DEF WriteFails, IInv, TypeOK, NewestReachable
  <2> QED BY <2>1, <2>2 DEF IInv
<1>10. CASE FindSession
  \* what it erases is not the entry of an open session
  BY <1>10 DEF FindSession, Alive, IInv, TypeOK, OpenIsAlive, NewestReachable
<1>11. CASE PostCommand
  BY <1>11 DEF PostCommand, IInv, TypeOK, OpenIsAlive, NewestReachable
<1>12. CASE UNCHANGED vars
  BY <1>12 DEF vars, IInv, TypeOK, OpenIsAlive, NewestReachable
<1> QED BY <1>1, <1>2, <1>3, <1>4, <1>5, <1>6, <1>7, <1>8, <1>9, <1>10, <1>11, <1>12 DEF Next

\* Commands find the session that registered last as long as its socket is
\* open, whatever earlier sessions of the device do (on_close, send_cmd_to_uri).
THEOREM NewestSessionReachable == Spec => []NewestReachable
<1>1. Init => IInv
  BY ConnAssumption DEF Init, IInv, TypeOK, OpenIsAlive, NewestReachable, Conns, Chain
<1>2. IInv => NewestReachable
  BY DEF IInv
<1> QED BY <1>1, <1>2, Inductive, PTL DEF Spec
=============================================================================
