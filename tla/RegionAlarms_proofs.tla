------------------------ MODULE RegionAlarms_proofs -------------------------
(***************************************************************************)
(* AlarmArrives is violated when two chains of post_alarm share the stream *)
(* alarm_sock_ (the run region_alarms).  Here: what holds whatever the     *)
(* chains do to each other (central keeps an alarm at most once), and that *)
(* sharing is the only cause: an alarm whose chain is alone on the stream  *)
(* from post_alarm to its end arrives, whatever the chains before and      *)
(* after it did.                                                           *)
(***************************************************************************)
EXTENDS RegionAlarms, FiniteSetTheorems, SequenceTheorems, TLAPS

Stages == {"idle", "resolve", "connect", "handshake", "write", "read", "ended"}

Types ==
  /\ stage \in [Alarms -> Stages]
  /\ result \in [Alarms -> {"pending", "ok", "error"}]
  /\ conn \in Alarms \cup {0}
  /\ frames \subseteq (Alarms \cup {0}) \X Alarms
  /\ alarms_ \in Seq(Alarms)

\* a is in central's list; a frame with a is on its way
Kept(a) == \E i \in 1 .. Len(alarms_) : alarms_[i] = a
Sent(a) == \E f \in frames : f[2] = a

\* the chain of a has not written its frame
Unsent(a) == \/ stage[a] \in {"idle", "resolve", "connect", "handshake"}
             \/ stage[a] = "write" /\ result[a] = "pending"

\* Central's list is never longer than MAX_ALARMS and has no alarm twice
\* (CentralStore::push_alarm), whatever chains share the stream.
AlarmKeptOnce ==
  /\ Len(alarms_) <= MaxAlarms
  /\ \A i, j \in 1 .. Len(alarms_) : alarms_[i] = alarms_[j] => i = j

\* ... as an alarm is in one place only: unsent, in one frame, or in the list
Once ==
  /\ AlarmKeptOnce
  /\ \A a \in Alarms : Unsent(a) => ~Kept(a) /\ ~Sent(a)
  /\ \A f, g \in frames : f[2] = g[2] => f = g
  /\ \A f \in frames : ~Kept(f[2])

-----------------------------------------------------------------------------
(* push_alarm *)

\* Below the limit push_alarm appends; at the limit it also drops the oldest.
LEMMA PushAlarmEffect ==
  ASSUME NEW S, NEW q \in Seq(S), NEW a \in S, NEW max \in Nat, Len(q) <= max
  PROVE  /\ PushAlarm(q, a, max) \in Seq(S)
         /\ Len(q) < max => PushAlarm(q, a, max) = Append(q, a)
         /\ Len(q) = max => /\ Len(PushAlarm(q, a, max)) = max
                            /\ \A i \in 1 .. max : PushAlarm(q, a, max)[i] = Append(q, a)[i + 1]
<1> DEFINE longer == Append(q, a)
<1>1. longer \in Seq(S) /\ Len(longer) = Len(q) + 1 /\ Len(q) \in Nat
  OBVIOUS
<1>2. \A i \in 1 .. Len(q) + 1 : longer[i] \in S
  BY <1>1
<1>3. PushAlarm(q, a, max) = IF Len(longer) > max
                             THEN SubSeq(longer, Len(longer) - max + 1, Len(longer)) ELSE longer
  BY DEF PushAlarm
<1> HIDE DEF longer
<1>4. CASE Len(q) < max
  BY <1>1, <1>3, <1>4 DEF longer
<1>5. CASE Len(q) = max
  <2>1. PushAlarm(q, a, max) = SubSeq(longer, 2, max + 1)
    BY <1>1, <1>3, <1>5
  <2>2. \A i \in 2 .. max + 1 : longer[i] \in S
    BY <1>2, <1>5
  <2>3. /\ SubSeq(longer, 2, max + 1) \in Seq(S)
        /\ Len(SubSeq(longer, 2, max + 1)) = IF 2 <= max + 1 THEN max + 1 - 2 + 1 ELSE 0
        /\ \A i \in 1 .. max + 1 - 2 + 1 : SubSeq(longer, 2, max + 1)[i] = longer[2 + i - 1]
    BY <2>2, SubSeqProperties
  <2> QED BY <1>5, <2>1, <2>3 DEF longer
<1> QED BY <1>1, <1>4, <1>5

\* the newest max alarms of a list, oldest first
Newest(q, max) == IF Len(q) <= max THEN q ELSE SubSeq(q, Len(q) - max + 1, Len(q))

\* push_alarm keeps the newest: of all alarms pushed one after the other, however
\* many, the list is the newest max, oldest first, as it is when there are none.
THEOREM NewestAlarmsKept ==
  ASSUME NEW S, NEW max \in Nat
  PROVE  /\ Newest(NoAlarms, max) = NoAlarms
         /\ \A q \in Seq(S), a \in S :
              PushAlarm(Newest(q, max), a, max) = Newest(Append(q, a), max)
<1>1. Newest(NoAlarms, max) = NoAlarms
  BY DEF Newest, NoAlarms
<1>2. ASSUME NEW q \in Seq(S), NEW a \in S
      PROVE  PushAlarm(Newest(q, max), a, max) = Newest(Append(q, a), max)
  <2>1. PICK p \in Seq(S) : p = Append(q, a)
    BY AppendProperties
  <2>2. PICK n \in Nat : n = Len(q)
    OBVIOUS
  <2>3. Len(p) = n + 1 /\ \A i \in 1 .. n + 1 : p[i] = IF i <= n THEN q[i] ELSE a
    BY <2>1, <2>2
  <2>4. CASE n <= max
    BY <2>1, <2>2, <2>3, <2>4 DEF Newest, PushAlarm
  <2>5. CASE n > max
    <3>1. PICK w : w = SubSeq(q, n - max + 1, n)
      OBVIOUS
    <3>2. w \in Seq(S) /\ Len(w) = max /\ \A i \in 1 .. max : w[i] = q[n - max + i]
      <4>1. \A i \in n - max + 1 .. n : q[i] \in S
        BY <2>2, <2>5
      <4>2. /\ w \in Seq(S)
            /\ Len(w) = IF n - max + 1 <= n THEN n - (n - max + 1) + 1 ELSE 0
            /\ \A i \in 1 .. n - (n - max + 1) + 1 : w[i] = q[n - max + 1 + i - 1]
        BY <3>1, <4>1, SubSeqProperties
      <4> QED BY <2>5, <4>2
    <3>3. Newest(q, max) = w
      BY <2>2, <2>5, <3>1 DEF Newest
    <3>4. PICK x : x = PushAlarm(w, a, max)
      OBVIOUS
    <3>5. /\ x \in Seq(S) /\ Len(x) = max
          /\ \A i \in 1 .. max : x[i] = Append(w, a)[i + 1]
      <4>0. Len(w) <= max /\ w \in Seq(S)
        BY <3>2
      <4>1. /\ PushAlarm(w, a, max) \in Seq(S)
            /\ Len(w) < max => PushAlarm(w, a, max) = Append(w, a)
            /\ Len(w) = max => /\ Len(PushAlarm(w, a, max)) = max
                               /\ \A i \in 1 .. max : PushAlarm(w, a, max)[i] = Append(w, a)[i + 1]
        BY <4>0, PushAlarmEffect, ZenonT(30)
      <4> QED BY <3>2, <3>4, <4>1
    <3>6. PICK y : y = SubSeq(p, n - max + 2, n + 1)
      OBVIOUS
    <3>7. y \in Seq(S) /\ Len(y) = max /\ \A i \in 1 .. max : y[i] = p[n - max + 1 + i]
      <4>1. \A i \in n - max + 2 .. n + 1 : p[i] \in S
        BY <2>3, <2>5
      <4>2. /\ y \in Seq(S)
            /\ Len(y) = IF n - max + 2 <= n + 1 THEN n + 1 - (n - max + 2) + 1 ELSE 0
            /\ \A i \in 1 .. n + 1 - (n - max + 2) + 1 : y[i] = p[n - max + 2 + i - 1]
        BY <3>6, <4>1, SubSeqProperties
      <4> QED BY <2>5, <4>2
    <3>8. Newest(Append(q, a), max) = y
      <4>1. ~(Len(p) <= max) /\ Len(p) - max + 1 = n - max + 2
        BY <2>3, <2>5
      <4> QED BY <2>1, <2>3, <3>6, <4>1 DEF Newest
    <3>9. ASSUME NEW i \in 1 .. max PROVE x[i] = y[i]
      <4>1. CASE i = max
        <5>1. x[i] = a
          BY <3>2, <3>5, <4>1
        <5>2. y[i] = a
          BY <2>3, <2>5, <3>7, <4>1
        <5> QED BY <5>1, <5>2
      <4>2. CASE i < max
        <5>1. x[i] = w[i + 1]
          BY <3>2, <3>5, <4>2
        <5>2. w[i + 1] = q[n - max + (i + 1)]
          BY <3>2, <4>2
        <5>3. y[i] = q[n - max + 1 + i]
          BY <2>3, <2>5, <3>7, <4>2
        <5> QED BY <5>1, <5>2, <5>3
      <4> QED BY <4>1, <4>2
    <3>10. x = y
      BY <3>5, <3>7, <3>9, SeqEqual
    <3> QED BY <3>3, <3>4, <3>8, <3>10
  <2> QED BY <2>4, <2>5
<1> QED BY <1>1, <1>2

\* The list of pairwise different alarms has room for one it does not hold.
LEMMA RoomForOneMore ==
  ASSUME NEW n \in Nat, NEW q \in Seq(1 .. n), NEW a \in 1 .. n,
         \A i, j \in 1 .. Len(q) : q[i] = q[j] => i = j,
         \A i \in 1 .. Len(q) : q[i] # a
  PROVE  Len(q) < n
<1> SUFFICES ASSUME Len(q) >= n PROVE FALSE
  OBVIOUS
<1>0. PICK m \in Nat : m = Len(q) + 1
  OBVIOUS
<1> DEFINE f == [i \in 1 .. m |-> IF i <= Len(q) THEN q[i] ELSE a]
<1>1. f \in [1 .. m -> 1 .. n]
  BY <1>0
<1>2. /\ IsFiniteSet(1 .. m) /\ Cardinality(1 .. m) = m
      /\ IsFiniteSet(1 .. n) /\ Cardinality(1 .. n) = n
  <2>1. m \in Int /\ n \in Int /\ 1 \in Int /\ n >= 1 /\ m >= 1
    BY <1>0
  <2>2. /\ IsFiniteSet(1 .. m) /\ Cardinality(1 .. m) = IF 1 > m THEN 0 ELSE m - 1 + 1
    BY <2>1, FS_Interval
  <2>3. /\ IsFiniteSet(1 .. n) /\ Cardinality(1 .. n) = IF 1 > n THEN 0 ELSE n - 1 + 1
    BY <2>1, FS_Interval
  <2> QED BY <2>1, <2>2, <2>3
<1>3. Cardinality(1 .. n) < Cardinality(1 .. m)
  BY <1>0, <1>2
<1>4. \A x, y \in 1 .. m : x # y => f[x] # f[y]
  BY <1>0
<1> HIDE DEF f
<1>5. \E x, y \in 1 .. m : x # y /\ f[x] = f[y]
  BY <1>1, <1>2, <1>3, FS_PigeonHole, ZenonT(30)
<1> QED BY <1>4, <1>5

-----------------------------------------------------------------------------
(* At most once *)

\* A step that writes no frame and stores no alarm keeps Once.
LEMMA OnceKept ==
  ASSUME Once, UNCHANGED <<frames, alarms_>>, \A b \in Alarms : Unsent(b)' => Unsent(b)
  PROVE  Once'
BY DEF Once, AlarmKeptOnce, Kept, Sent

\* Every step keeps Types and Once, also when chains abort each other.
LEMMA NextOnce ==
  ASSUME NumAlarms \in Nat, MaxAlarms \in Nat, Types, Once, [Next]_vars
  PROVE  Types' /\ Once'
<1>n. 0 \notin Alarms
  BY DEF Alarms
<1>1. CASE UNCHANGED vars
  <2>1. Types' /\ \A b \in Alarms : Unsent(b)' => Unsent(b)
    BY <1>1 DEF vars, Types, Unsent
  <2> QED BY <1>1, <2>1, OnceKept DEF vars
<1>2. ASSUME NEW a \in Alarms, PostAlarm(a) PROVE Types' /\ Once'
  <2>1. Types'
    BY <1>2 DEF PostAlarm, Restarted, Types, Stages
  <2>2. \A b \in Alarms : Unsent(b)' => Unsent(b)
    BY <1>2 DEF PostAlarm, Restarted, Types, Unsent, OnStream, UnderWay
  <2> QED BY <1>2, <2>1, <2>2, OnceKept DEF PostAlarm
<1>3. ASSUME NEW a \in Alarms, OperationEnds(a) PROVE Types' /\ Once'
  <2>1. /\ result[a] = "pending" /\ stage' = stage /\ alarms_' = alarms_
        /\ result' = [result EXCEPT ![a] = "ok"]
        /\ conn' \in {conn, a}
        /\ \/ frames' = frames
           \/ stage[a] = "write" /\ frames' = frames \cup {<<conn, a>>}
    BY <1>3 DEF OperationEnds
  <2>2. Types'
    BY <2>1 DEF Types
  <2>3. \A b \in Alarms : Unsent(b)' => Unsent(b)
    BY <2>1 DEF Types, Unsent
  <2>4. CASE frames' = frames
    BY <2>1, <2>2, <2>3, <2>4, OnceKept
  <2>5. CASE stage[a] = "write" /\ frames' = frames \cup {<<conn, a>>}
    <3>1. Unsent(a) /\ ~Unsent(a)'
      BY <2>1, <2>5 DEF Types, Unsent
    <3>2. ~Kept(a) /\ ~Sent(a)
      BY <3>1 DEF Once
    <3>3. \A b : Kept(b)' <=> Kept(b)
      BY <2>1 DEF Kept
    <3>4. \A b \in Alarms : b # a => (Sent(b)' <=> Sent(b))
      BY <2>5 DEF Sent
    <3>5. \A f \in frames : f[2] # a
      BY <3>2 DEF Sent
    <3>6. \A f, g \in frames' : f[2] = g[2] => f = g
      BY <2>5, <3>5 DEF Once
    <3>7. \A f \in frames' : ~Kept(f[2])'
      BY <2>5, <3>2, <3>3 DEF Once
    <3>8. \A b \in Alarms : Unsent(b)' => ~Kept(b)' /\ ~Sent(b)'
      BY <2>3, <3>1, <3>3, <3>4 DEF Once
    <3>9. AlarmKeptOnce'
      BY <2>1 DEF Once, AlarmKeptOnce
    <3> QED BY <2>2, <3>6, <3>7, <3>8, <3>9 DEF Once
  <2> QED BY <2>1, <2>4, <2>5
<1>4. ASSUME NEW a \in Alarms, OperationFails(a) PROVE Types' /\ Once'
  <2>1. Types' /\ \A b \in Alarms : Unsent(b)' => Unsent(b)
    BY <1>4 DEF OperationFails, Types, Unsent
  <2> QED BY <1>4, <2>1, OnceKept DEF OperationFails
<1>5. ASSUME NEW a \in Alarms, RunHandler(a) PROVE Types' /\ Once'
  <2>1. Types'
    BY <1>5 DEF RunHandler, Restarted, Goes, Types, Stages
  <2>2. \A b \in Alarms : Unsent(b)' => Unsent(b)
    BY <1>5 DEF RunHandler, Restarted, Goes, Types, Unsent, OnStream, UnderWay
  <2> QED BY <1>5, <2>1, <2>2, OnceKept DEF RunHandler
<1>6. CASE CentralTakesAlarm
  <2>1. PICK f \in frames : /\ frames' = frames \ {f}
                            /\ alarms_' = PushAlarm(alarms_, f[2], MaxAlarms)
                            /\ UNCHANGED <<stage, result, conn>>
    BY <1>6 DEF CentralTakesAlarm
  <2>2. PICK b \in Alarms : b = f[2]
    BY DEF Types
  <2>3. ~Kept(b) /\ \A g \in frames' : g[2] # b
    BY <2>1, <2>2 DEF Once
  <2>4. Len(alarms_) \in Nat /\ Len(alarms_) <= MaxAlarms
    BY DEF Types, Once, AlarmKeptOnce
  <2>5. PICK longer : longer = Append(alarms_, b)
    OBVIOUS
  <2>l. /\ longer \in Seq(Alarms) /\ Len(longer) = Len(alarms_) + 1
        /\ longer[Len(alarms_) + 1] = b
        /\ \A i \in 1 .. Len(alarms_) : longer[i] = alarms_[i]
    BY <2>4, <2>5 DEF Types
  <2>6. /\ alarms_' \in Seq(Alarms)
        /\ \/ alarms_' = longer /\ Len(alarms_) < MaxAlarms
           \/ /\ Len(alarms_) = MaxAlarms /\ Len(alarms_') = MaxAlarms
              /\ \A i \in 1 .. MaxAlarms : alarms_'[i] = longer[i + 1]
    <3>1. alarms_' = PushAlarm(alarms_, b, MaxAlarms) /\ alarms_ \in Seq(Alarms)
      BY <2>1, <2>2 DEF Types
    <3>2. /\ PushAlarm(alarms_, b, MaxAlarms) \in Seq(Alarms)
          /\ Len(alarms_) < MaxAlarms => PushAlarm(alarms_, b, MaxAlarms) = Append(alarms_, b)
          /\ Len(alarms_) = MaxAlarms =>
               /\ Len(PushAlarm(alarms_, b, MaxAlarms)) = MaxAlarms
               /\ \A i \in 1 .. MaxAlarms :
                    PushAlarm(alarms_, b, MaxAlarms)[i] = Append(alarms_, b)[i + 1]
      BY <2>4, <3>1, PushAlarmEffect, ZenonT(30)
    <3>3. Len(alarms_) < MaxAlarms \/ Len(alarms_) = MaxAlarms
      BY <2>4
    <3> QED BY <2>5, <3>1, <3>2, <3>3
  <2>d. \A i, j \in 1 .. Len(alarms_) + 1 : longer[i] = longer[j] => i = j
    BY <2>3, <2>4, <2>l DEF Once, AlarmKeptOnce, Kept
  <2>m. PICK k \in {0, 1} : /\ Len(alarms_') + k = Len(alarms_) + 1
                            /\ \A i \in 1 .. Len(alarms_') : alarms_'[i] = longer[i + k]
    <3>1. CASE alarms_' = longer
      <4>1. Len(alarms_') + 0 = Len(alarms_) + 1 /\ \A i \in 1 .. Len(alarms_') : i + 0 = i
        BY <2>4, <2>l, <3>1
      <4> QED BY <3>1, <4>1
    <3>2. CASE /\ Len(alarms_) = MaxAlarms /\ Len(alarms_') = MaxAlarms
               /\ \A i \in 1 .. MaxAlarms : alarms_'[i] = longer[i + 1]
      BY <3>2
    <3> QED BY <2>6, <3>1, <3>2
  <2>e. Len(alarms_') \in Nat /\ Len(alarms_') <= MaxAlarms
    BY <2>4, <2>6, <2>l
  <2>7. AlarmKeptOnce'
    <3>1. \A i, j \in 1 .. Len(alarms_') : longer[i + k] = longer[j + k] => i = j
      BY <2>4, <2>d, <2>e, <2>m
    <3> QED BY <2>e, <2>m, <3>1 DEF AlarmKeptOnce
  <2>8. \A c : Kept(c)' => Kept(c) \/ c = b
    <3>1. \A i \in 1 .. Len(alarms_) + 1 :
            longer[i] = b \/ \E j \in 1 .. Len(alarms_) : longer[i] = alarms_[j]
      BY <2>4, <2>l
    <3>2. \A i \in 1 .. Len(alarms_') : i + k \in 1 .. Len(alarms_) + 1
      BY <2>4, <2>e, <2>m
    <3> QED BY <2>m, <3>1, <3>2 DEF Kept
  <2>9. \A c \in Alarms : Unsent(c)' => ~Kept(c)' /\ ~Sent(c)'
    <3>1. \A c \in Alarms : (Unsent(c)' <=> Unsent(c)) /\ (Sent(c)' => Sent(c))
      BY <2>1 DEF Unsent, Sent
    <3>2. Sent(b)
      BY <2>2 DEF Sent
    <3> QED BY <2>8, <3>1, <3>2 DEF Once
  <2>10. \A g \in frames' : ~Kept(g[2])'
    BY <2>1, <2>3, <2>8 DEF Once
  <2>11. Types'
    BY <2>1, <2>6 DEF Types
  <2> QED BY <2>1, <2>7, <2>9, <2>10, <2>11 DEF Once
<1> QED BY <1>1, <1>2, <1>3, <1>4, <1>5, <1>6 DEF Next, Region

\* Types and Once hold from the start.
LEMMA OnceHolds ==
  ASSUME NumAlarms \in Nat, MaxAlarms \in Nat PROVE Spec => [](Types /\ Once)
<1>1. Init => Types /\ Once
  BY DEF Init, Types, Stages, Once, AlarmKeptOnce, Kept, Sent, NoAlarms
<1>2. (Types /\ Once) /\ [Next]_vars => (Types /\ Once)'
  BY NextOnce
<1> QED BY <1>1, <1>2, PTL DEF Spec

\* Whatever the chains of a region do to each other on the stream they share,
\* central stores an alarm once and no more than MAX_ALARMS of them
\* (post_alarm, the ALARM_UP branch of on_message, push_alarm).
THEOREM CentralKeepsAlarmOnce ==
  ASSUME NumAlarms \in Nat, MaxAlarms \in Nat PROVE Spec => []AlarmKeptOnce
<1>1. Once => AlarmKeptOnce
  BY DEF Once
<1> QED BY <1>1, OnceHolds, PTL

-----------------------------------------------------------------------------
(* The chain that is alone *)

\* the chain of a has been started and is not over
Active(a) == stage[a] \notin {"idle", "ended"}

\* while the chain of a is active, no other is
Alone(a) == Active(a) => \A b \in Alarms : Active(b) => b = a

\* AlarmArrives for the alarm a
Arrives(a) == stage[a] = "ended" /\ a \notin netfail /\ ~down => Kept(a) \/ Sent(a)

\* what the chain finds on the stream at each of its stages when it is alone:
\* a stream of its own, then its own connection, with the handshake on it
Own(a) ==
  /\ stage[a] = "idle" => result[a] = "pending"
  /\ stage[a] = "ended" => result[a] # "pending"
  /\ result[a] = "error" => a \in netfail
  /\ stage[a] \in {"resolve", "connect"} => tls = "fresh"
  /\ stage[a] = "connect" /\ result[a] = "ok" => conn = a
  /\ stage[a] \in {"handshake", "write", "read"} => conn = a /\ hello = a
  /\ stage[a] = "read" \/ (stage[a] \in {"write", "ended"} /\ result[a] = "ok")
       => Kept(a) \/ Sent(a)

\* With room for all alarms of the region, what central takes out of a frame
\* stays in its list.
LEMMA TakenIsKept ==
  ASSUME NumAlarms \in Nat, MaxAlarms \in Nat, NumAlarms <= MaxAlarms, Types, Once,
         CentralTakesAlarm, NEW a \in Alarms, Kept(a) \/ Sent(a)
  PROVE  Kept(a)' \/ Sent(a)'
<1>1. PICK f \in frames : /\ frames' = frames \ {f}
                          /\ alarms_' = PushAlarm(alarms_, f[2], MaxAlarms)
  BY DEF CentralTakesAlarm
<1>2. PICK b \in Alarms : b = f[2]
  BY DEF Types
<1>3. alarms_ \in Seq(1 .. NumAlarms) /\ b \in 1 .. NumAlarms /\ Len(alarms_) \in Nat
  BY <1>2 DEF Types, Alarms
<1>4. /\ \A i, j \in 1 .. Len(alarms_) : alarms_[i] = alarms_[j] => i = j
      /\ \A i \in 1 .. Len(alarms_) : alarms_[i] # b
  BY <1>2 DEF Once, AlarmKeptOnce, Kept
<1>5. Len(alarms_) < NumAlarms
  BY <1>3, <1>4, RoomForOneMore
<1>6. Len(alarms_) < MaxAlarms /\ Len(alarms_) <= MaxAlarms
  BY <1>3, <1>5
<1>7. PushAlarm(alarms_, b, MaxAlarms) = Append(alarms_, b)
  BY <1>3, <1>6 DEF PushAlarm
<1>8. alarms_' = Append(alarms_, b)
  BY <1>1, <1>2, <1>7
<1>9. Kept(b)' /\ \A c : Kept(c) => Kept(c)'
  <2>1. /\ Len(alarms_') = Len(alarms_) + 1 /\ alarms_'[Len(alarms_) + 1] = b
        /\ \A i \in 1 .. Len(alarms_) : alarms_'[i] = alarms_[i] /\ i \in 1 .. Len(alarms_) + 1
        /\ Len(alarms_) + 1 \in 1 .. Len(alarms_) + 1
    BY <1>3, <1>8
  <2> QED BY <2>1 DEF Kept
<1>10. CASE a = b
  BY <1>9, <1>10
<1>11. CASE a # b
  BY <1>1, <1>2, <1>9, <1>11 DEF Sent
<1> QED BY <1>10, <1>11

\* A step of central, or of a chain while a's own chain is not active, leaves
\* a's part of the state alone; while it is active only its own steps happen.
LEMMA NextOwn ==
  ASSUME NumAlarms \in Nat, MaxAlarms \in Nat, NumAlarms <= MaxAlarms, NEW a \in Alarms,
         Types, Once, Own(a), Alone(a), Alone(a)', [Next]_vars
  PROVE  Own(a)'
<1>1. CASE UNCHANGED vars
  BY <1>1 DEF vars, Own, Kept, Sent
<1>2. CASE CentralTakesAlarm
  <2>1. UNCHANGED <<stage, result, conn, tls, hello, netfail>>
    BY <1>2 DEF CentralTakesAlarm
  <2>2. Kept(a) \/ Sent(a) => Kept(a)' \/ Sent(a)'
    BY <1>2, TakenIsKept
  <2> QED BY <2>1, <2>2 DEF Own
<1>3. ASSUME NEW b \in Alarms, b # a,
             PostAlarm(b) \/ OperationEnds(b) \/ OperationFails(b) \/ RunHandler(b)
      PROVE  Own(a)'
  <2>1. stage'[a] = stage[a] /\ alarms_' = alarms_ /\ frames \subseteq frames'
        /\ netfail \subseteq netfail'
    BY <1>3 DEF PostAlarm, OperationEnds, OperationFails, RunHandler, Restarted, Goes, Types
  <2>2. Active(b) \/ Active(b)'
    BY <1>3 DEF PostAlarm, OperationEnds, OperationFails, RunHandler, Restarted, Active, Types
  <2>3. ~Active(a)
    BY <1>3, <2>1, <2>2 DEF Alone, Active
  <2>4. result'[a] = result[a]
    BY <1>3, <2>3 DEF PostAlarm, OperationEnds, OperationFails, RunHandler, Restarted, Goes,
                      OnStream, UnderWay, Active, Types, Stages
  <2> QED BY <2>1, <2>3, <2>4 DEF Own, Active, Kept, Sent, Types, Stages
<1>4. CASE PostAlarm(a)
  <2>1. stage'[a] = "resolve" /\ result'[a] = "pending" /\ tls' = "fresh"
    BY <1>4 DEF PostAlarm, Restarted, Types
  <2> QED BY <2>1 DEF Own
<1>5. CASE OperationEnds(a)
  <2>1. /\ result[a] = "pending" /\ result'[a] = "ok" /\ stage'[a] = stage[a]
        /\ UNCHANGED <<hello, alarms_, netfail>> /\ frames \subseteq frames'
        /\ stage[a] \in {"resolve", "connect", "handshake", "write", "read"}
    BY <1>5 DEF OperationEnds, Types
  <2>2. /\ stage[a] \in {"resolve", "connect"} => tls' = tls
        /\ stage[a] = "connect" => conn' = a
        /\ stage[a] # "connect" => conn' = conn
        /\ stage[a] = "write" /\ conn = hello => <<conn, a>> \in frames'
    BY <1>5 DEF OperationEnds
  <2>3. stage[a] = "write" => Sent(a)'
    BY <2>2 DEF Own, Sent
  <2>4. Kept(a) \/ Sent(a) => Kept(a)' \/ Sent(a)'
    BY <2>1 DEF Kept, Sent
  <2> QED BY <2>1, <2>2, <2>3, <2>4 DEF Own
<1>6. CASE OperationFails(a)
  <2>1. /\ result'[a] = "error" /\ stage'[a] = stage[a]
        /\ UNCHANGED <<conn, tls, hello, alarms_, frames>>
        /\ stage[a] \in {"resolve", "connect", "handshake", "write", "read"}
    BY <1>6 DEF OperationFails, Types
  <2>2. stage[a] \in {"handshake", "write", "read"} => conn # 0 /\ conn = hello
    BY DEF Own, Alarms
  <2>3. a \in netfail'
    BY <1>6, <2>1, <2>2 DEF OperationFails
  <2> QED BY <2>1, <2>3 DEF Own, Kept, Sent
<1>7. CASE RunHandler(a)
  <2>1. UNCHANGED <<frames, alarms_, netfail>>
    BY <1>7 DEF RunHandler
  <2>2. \/ /\ result[a] = "error" /\ result'[a] = "error" /\ stage'[a] = "ended"
        \/ /\ result[a] = "ok" /\ result'[a] = "pending"
           /\ \/ stage[a] = "resolve" /\ stage'[a] = "connect" /\ tls' = tls
              \/ /\ stage[a] = "connect" /\ stage'[a] = "handshake"
                 /\ conn' = conn /\ (tls = "fresh" => hello' = conn)
              \/ /\ stage[a] = "handshake" /\ stage'[a] = "write" /\ UNCHANGED <<conn, hello>>
              \/ /\ stage[a] = "write" /\ stage'[a] = "read" /\ UNCHANGED <<conn, hello>>
        \/ /\ result[a] = "ok" /\ result'[a] = "ok"
           /\ stage[a] = "read" /\ stage'[a] = "ended"
    BY <1>7 DEF RunHandler, Restarted, Goes, Types
  <2>3. Kept(a) \/ Sent(a) => Kept(a)' \/ Sent(a)'
    BY <2>1 DEF Kept, Sent
  <2> QED BY <2>1, <2>2, <2>3 DEF Own
<1> QED BY <1>1, <1>2, <1>3, <1>4, <1>5, <1>6, <1>7 DEF Next, Region

\* An alarm whose chain runs while no other chain is active is at central, or
\* on its way there, when the chain ends without an error of the network,
\* whatever the other chains did before and do after it: only chains that
\* share alarm_sock_ (post_alarm, read_alarm_ack) lose alarms.
THEOREM LoneAlarmArrives ==
  ASSUME NumAlarms \in Nat, MaxAlarms \in Nat, NumAlarms <= MaxAlarms, NEW a \in Alarms
  PROVE  Spec /\ []Alone(a) => []Arrives(a)
<1>1. Init => Own(a)
  BY DEF Init, Own
<1>2. (Types /\ Once) /\ Own(a) /\ Alone(a) /\ Alone(a)' /\ [Next]_vars => Own(a)'
  BY NextOwn
<1>3. (Types /\ Once) /\ Own(a) => Arrives(a)
  BY DEF Own, Arrives, Types
<1> QED BY <1>1, <1>2, <1>3, OnceHolds, PTL DEF Spec

\* When no two chains of a region are ever active together, every alarm
\* arrives: what test_06_alarm_lamp.sh waits for holds of alarms far enough
\* apart, and the run region_alarms shows that it does not of others.
THEOREM AlarmsFarApartArrive ==
  ASSUME NumAlarms \in Nat, MaxAlarms \in Nat, NumAlarms <= MaxAlarms
  PROVE  Spec /\ [](\A a \in Alarms : Alone(a)) => []AlarmArrives
<1> DEFINE Apart == \A a \in Alarms : Alone(a)
           Owns  == \A a \in Alarms : Own(a)
<1>1. Init => Owns
  BY DEF Init, Own
<1>2. (Types /\ Once) /\ Owns /\ Apart /\ Apart' /\ [Next]_vars => Owns'
  BY NextOwn
<1>3. (Types /\ Once) /\ Owns => AlarmArrives
  BY DEF Own, AlarmArrives, Types, Kept, Sent
<1> QED BY <1>1, <1>2, <1>3, OnceHolds, PTL DEF Spec
=============================================================================
