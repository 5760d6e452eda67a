------------------------ MODULE RegionalServer_proofs -----------------------
(***************************************************************************)
(* What holds of the regional server for every set of devices and zones,   *)
(* every timeout and every clock.  ReportedFaultSticks is not inductive: a *)
(* handler that copied an entry writes the copy back later.  Copies says   *)
(* that every copy on the way to an entry with a reported fault has the    *)
(* fault too, whichever of the lamp's sessions holds it, unless the report *)
(* raced with another session.                                             *)
(***************************************************************************)
EXTENDS RegionalServer, TLAPS

\* what a running handler carries
Copies ==
  /\ \A c \in Sessions :
       /\ sess[c].pc = "status" /\ UriOf[c] \in reported \ raced => sess[c].st.fault
       /\ sess[c].pc = "fault" => sess[c].st.fault
       /\ sess[c].pc \in {"status", "fault"} => sess[c].st.type # "NONE"
  /\ \A u \in reported : dev[u].type # "NONE"
  /\ udp.pc # "idle" => udp.uri \in Sensors
  /\ udp.pc = "put" => udp.st.type # "NONE"
  /\ udp.pc = "put" /\ udp.uri \in reported => udp.st.fault
  /\ udp.pc = "fault" => dev[udp.uri].type # "NONE"
  /\ udp.pc = "put" /\ udp.motion # 254 => udp.motion \in {0, 1}
  /\ udp.pc = "motion" => udp.motion \in {0, 1}

IInv == TypeOK /\ LampsReachable /\ ReportedFaultSticks /\ Copies

-----------------------------------------------------------------------------

\* Registry::upsert keeps the registry well-typed and its index complete.
LEMMA UpsertKeepsIndex ==
  ASSUME NEW uri \in Uris, NEW st \in DeviceState,
         dev \in [Uris -> DeviceState], zone_to_lamps \in [Zones -> SUBSET Uris],
         LampsReachable, Upsert(uri, st)
  PROVE  /\ dev' \in [Uris -> DeviceState]
         /\ zone_to_lamps' \in [Zones -> SUBSET Uris]
         /\ dev'[uri] = st
         /\ \A u \in Uris : u # uri => dev'[u] = dev[u]
         /\ LampsReachable'
<1>1. /\ dev' = [dev EXCEPT ![uri] = st]
      /\ zone_to_lamps' = IF st.type = "LUMINAIRE" /\ st.zone # 0
                          THEN [zone_to_lamps EXCEPT ![st.zone] = @ \cup {uri}]
                          ELSE zone_to_lamps
  BY DEF Upsert
<1>2. st.zone # 0 => st.zone \in Zones
  BY DEF DeviceState, ZoneIds
<1>3. \A u \in Uris : dev[u].zone # 0 => dev[u].zone \in Zones
  BY DEF DeviceState, ZoneIds
<1>4. \A z \in Zones : zone_to_lamps[z] \subseteq zone_to_lamps'[z]
  BY <1>1
<1>5. st.type = "LUMINAIRE" /\ st.zone # 0 => uri \in zone_to_lamps'[st.zone]
  BY <1>1, <1>2
<1>6. dev'[uri] = st /\ \A u \in Uris : u # uri => dev'[u] = dev[u]
  BY <1>1
<1>7. LampsReachable'
  BY <1>3, <1>4, <1>5, <1>6 DEF LampsReachable
<1>8. /\ dev' \in [Uris -> DeviceState]
      /\ zone_to_lamps' \in [Zones -> SUBSET Uris]
  BY <1>1, <1>2
<1> QED BY <1>6, <1>7, <1>8

\* Registry::detect_comm_lost sets faults and changes nothing else.
LEMMA DetectOnlyMarks ==
  ASSUME NEW at, dev \in [Uris -> DeviceState],
         LampsReachable, DetectCommLost(at)
  PROVE  /\ dev' \in [Uris -> DeviceState]
         /\ \A u \in Uris : dev[u].fault => dev'[u].fault
         /\ \A u \in Uris : dev'[u].type = dev[u].type
         /\ LampsReachable'
<1>1. \A u \in Uris : /\ dev'[u] \in DeviceState
                      /\ dev'[u].type = dev[u].type
                      /\ dev'[u].zone = dev[u].zone
                      /\ dev[u].fault => dev'[u].fault
  BY DEF DetectCommLost, DeviceState
<1>2. dev' = [u \in Uris |-> dev'[u]]
  BY DEF DetectCommLost
<1> QED BY <1>1, <1>2 DEF LampsReachable, DetectCommLost

\* A stamp read between the copy and its upsert keeps the entry well-typed.
LEMMA StampedType ==
  ASSUME NEW st \in DeviceState, NEW from \in Nat, now \in Nat
  PROVE  \A x \in Stamped(st, from) : x \in DeviceState /\ x.fault = st.fault /\ x.type = st.type
BY DEF Stamped, DeviceState

\* The records the handlers start from are well-typed.
LEMMA ConstantRecords ==
  /\ NoDevice \in DeviceState
  /\ \A t \in {"LUMINAIRE", "SENSOR"}, z \in ZoneIds : FreshDevice(t, z) \in DeviceState
  /\ Zones \subseteq ZoneIds /\ 0 \in ZoneIds
BY DEF NoDevice, FreshDevice, DeviceState, ZoneIds

\* The invariant holds when the server starts.
LEMMA InitIInv == Init => IInv
<1> SUFFICES ASSUME Init PROVE IInv
  OBVIOUS
<1>1. TypeOK
  BY ConstantRecords DEF Init, RegInit, TypeOK, IdleSession, IdleUdp, SessPc, UdpPc, TickPc, ServerState, Motions
<1>2. LampsReachable /\ ReportedFaultSticks /\ Copies
  BY DEF Init, RegInit, LampsReachable, ReportedFaultSticks, Copies, NoDevice, IdleSession, IdleUdp
<1> QED BY <1>1, <1>2 DEF IInv

\* No step of the server, of a device or of the clock breaks the invariant.
LEMMA NextIInv == IInv /\ [Next]_vars => IInv'
<1> SUFFICES ASSUME IInv, [Next]_vars PROVE IInv'
  OBVIOUS
<1> USE DEF IInv
<1>t. TypeOK /\ LampsReachable /\ ReportedFaultSticks /\ Copies
  OBVIOUS
<1>c. /\ \A u \in Lamps : u \in Uris /\ u \notin Sensors
      /\ \A c \in Sessions : UriOf[c] \in Lamps
      /\ \A s \in Sensors : s \in Uris
      /\ NoDevice \in DeviceState /\ IdleSession.pc = "idle" /\ IdleUdp.pc = "idle"
      /\ IdleSession \in [pc : SessPc, st : DeviceState, at : Nat]
      /\ IdleUdp \in [pc : UdpPc, uri : Sensors \cup {"none"}, zone : ZoneIds, motion : Motions,
                      st : DeviceState, at : Nat]
  BY ConstantRecords, UriAssumption, SessionAssumption DEF Uris, IdleSession, IdleUdp, SessPc, UdpPc, Motions
<1>x. \A s \in Sensors : s \notin raced
  BY <1>c, <1>t DEF TypeOK
<1>1. CASE Boot
  <2>1. TypeOK'
    BY <1>t, <1>1, TimerAssumption DEF TypeOK, Boot, regvars, hist, ServerState, Normal
  <2> QED BY <2>1, <1>t, <1>1 DEF Boot, regvars, hist, LampsReachable, ReportedFaultSticks, Copies
<1>2. CASE Advance
  <2>1. TypeOK'
    BY <1>t, <1>2 DEF TypeOK, Advance, regvars, hist
  <2> QED BY <2>1, <1>t, <1>2 DEF Advance, regvars, hist, LampsReachable, ReportedFaultSticks, Copies
<1>3. ASSUME NEW c \in Sessions, NEW z \in Zones, Register(c, z) PROVE IInv'
  <2>0. PICK u \in Lamps : u = UriOf[c]
    BY <1>c
  <2> DEFINE st == [FreshDevice("LUMINAIRE", z) EXCEPT !.seen = now]
  <2>1. st \in DeviceState /\ st.type # "NONE"
    BY <1>t, ConstantRecords DEF DeviceState, TypeOK, FreshDevice, ZoneIds
  <2>2. Upsert(u, st)
    BY <1>3, <2>0 DEF Register
  <2> HIDE DEF st
  <2>3. /\ dev' \in [Uris -> DeviceState]
        /\ zone_to_lamps' \in [Zones -> SUBSET Uris]
        /\ dev'[u] = st
        /\ \A v \in Uris : v # u => dev'[v] = dev[v]
        /\ LampsReachable'
    BY <1>c, <1>t, <2>1, <2>2, UpsertKeepsIndex DEF TypeOK
  <2>4. TypeOK'
    BY <1>c, <1>t, <1>3, <2>0, <2>3 DEF TypeOK, Register
  <2>5. ReportedFaultSticks'
    BY <1>t, <1>3, <2>0, <2>3 DEF TypeOK, Register, ReportedFaultSticks
  <2>6. Copies'
    BY <1>c, <1>t, <1>3, <2>0, <2>1, <2>3 DEF TypeOK, Register, Copies
  <2> QED BY <2>3, <2>4, <2>5, <2>6
<1>4. ASSUME NEW c \in Sessions, NEW z \in Zones, NEW on \in OnValues, StatusGet(c, z, on)
      PROVE  IInv'
  <2>0. PICK u \in Lamps : u = UriOf[c]
    BY <1>c
  <2> DEFINE st == [dev[u] EXCEPT !.zone = z, !.on = on]
  <2>1. /\ dev[u] \in DeviceState /\ st \in DeviceState
        /\ st.fault = dev[u].fault /\ st.type # "NONE"
    <3>1. dev[u] \in DeviceState
      BY <1>c, <1>t DEF TypeOK
    <3>2. dev[u].type # "NONE"
      BY <1>4, <2>0 DEF StatusGet, Known
    <3>3. z \in ZoneIds /\ on \in BOOLEAN
      BY OnAssumption DEF ZoneIds
    <3> HIDE DEF IInv
    <3> QED BY <3>1, <3>2, <3>3 DEF DeviceState
  <2> HIDE DEF st
  <2>2. sess' = [sess EXCEPT ![c] = [pc |-> "status", at |-> now, st |-> st]]
    BY <1>4, <2>0 DEF StatusGet, st
  <2>3. TypeOK'
    BY <1>t, <1>4, <2>1, <2>2 DEF TypeOK, StatusGet, regvars, hist, SessPc
  <2>4. Copies'
    <3>1. UNCHANGED <<dev, udp, reported, raced>>
      BY <1>4 DEF StatusGet, regvars, hist
    <3>2. sess'[c].pc = "status" /\ sess'[c].st = st
      BY <1>t, <2>2 DEF TypeOK
    <3>3. \A d \in Sessions : d # c => sess'[d] = sess[d]
      BY <1>t, <2>2 DEF TypeOK
    <3>4. u \in reported \ raced => st.fault
      BY <1>t, <2>1 DEF ReportedFaultSticks
    <3> QED BY <1>t, <2>0, <2>1, <3>1, <3>2, <3>3, <3>4 DEF Copies
  <2> QED BY <1>t, <1>4, <2>3, <2>4 DEF StatusGet, regvars, hist, LampsReachable, ReportedFaultSticks
<1>5. ASSUME NEW c \in Sessions, NEW z \in Zones, FaultGet(c, z) PROVE IInv'
  <2>0. PICK u \in Lamps : u = UriOf[c]
    BY <1>c
  <2> DEFINE old == IF Known(u) THEN dev[u] ELSE FreshDevice("LUMINAIRE", z)
             st  == [old EXCEPT !.zone = z, !.fault = TRUE]
  <2>1. old \in DeviceState /\ old.type # "NONE"
    BY <1>c, <1>t, ConstantRecords DEF TypeOK, Known, FreshDevice
  <2> HIDE DEF old
  <2>2. st \in DeviceState /\ st.fault /\ st.type # "NONE"
    BY <2>1 DEF DeviceState, ZoneIds
  <2>3. sess' = [sess EXCEPT ![c] = [pc |-> "fault", at |-> now, st |-> st]]
    BY <1>5, <2>0 DEF FaultGet, old
  <2> HIDE DEF st
  <2>4. TypeOK'
    BY <1>t, <1>5, <2>2, <2>3 DEF TypeOK, FaultGet, regvars, hist, SessPc
  <2>5. Copies'
    <3>1. UNCHANGED <<dev, udp, reported, raced>>
      BY <1>5 DEF FaultGet, regvars, hist
    <3>2. sess'[c].pc = "fault" /\ sess'[c].st = st
      BY <1>t, <2>3 DEF TypeOK
    <3>3. \A d \in Sessions : d # c => sess'[d] = sess[d]
      BY <1>t, <2>3 DEF TypeOK
    <3> QED BY <1>t, <2>2, <3>1, <3>2, <3>3 DEF Copies
  <2> QED BY <1>t, <1>5, <2>4, <2>5 DEF FaultGet, regvars, hist, LampsReachable, ReportedFaultSticks
<1>6. ASSUME NEW c \in Sessions, StatusPut(c) PROVE IInv'
  <2>0. PICK u \in Lamps : u = UriOf[c]
    BY <1>c
  <2>1. PICK st \in Stamped(sess[c].st, sess[c].at) : Upsert(u, st)
    BY <1>6, <2>0 DEF StatusPut
  <2>2. st \in DeviceState /\ st.fault = sess[c].st.fault /\ st.type # "NONE"
    BY <1>t, <1>6, <2>1, StampedType DEF TypeOK, Copies, StatusPut
  <2>3. /\ dev' \in [Uris -> DeviceState]
        /\ zone_to_lamps' \in [Zones -> SUBSET Uris]
        /\ dev'[u] = st
        /\ \A v \in Uris : v # u => dev'[v] = dev[v]
        /\ LampsReachable'
    BY <1>c, <1>t, <2>1, <2>2, UpsertKeepsIndex DEF TypeOK
  <2>4. TypeOK'
    BY <1>c, <1>t, <1>6, <2>0, <2>3 DEF TypeOK, StatusPut
  <2>5. ReportedFaultSticks'
    BY <1>t, <1>6, <2>0, <2>2, <2>3 DEF TypeOK, StatusPut, ReportedFaultSticks, Copies
  <2>6. Copies'
    BY <1>c, <1>t, <1>6, <2>0, <2>2, <2>3, ZenonT(30) DEF TypeOK, StatusPut, Copies
  <2> QED BY <2>3, <2>4, <2>5, <2>6
<1>7. ASSUME NEW c \in Sessions, FaultPut(c) PROVE IInv'
  <2>0. PICK u \in Lamps : u = UriOf[c]
    BY <1>c
  <2>1. PICK st \in Stamped(sess[c].st, sess[c].at) : Upsert(u, st)
    BY <1>7, <2>0 DEF FaultPut
  <2>2. st \in DeviceState /\ st.fault /\ st.type # "NONE"
    BY <1>t, <1>7, <2>1, StampedType, SMTT(30) DEF TypeOK, FaultPut, Copies
  <2>3. /\ dev' \in [Uris -> DeviceState]
        /\ zone_to_lamps' \in [Zones -> SUBSET Uris]
        /\ dev'[u] = st
        /\ \A v \in Uris : v # u => dev'[v] = dev[v]
        /\ LampsReachable'
    BY <1>c, <1>t, <2>1, <2>2, UpsertKeepsIndex DEF TypeOK
  <2>4. TypeOK'
    BY <1>c, <1>t, <1>7, <2>0, <2>3 DEF TypeOK, FaultPut, SessPc, AlarmKind
  <2>5. /\ reported' = reported \cup {u}
        /\ \A v \in Lamps : v # u => (v \in raced' <=> v \in raced)
        /\ u \notin raced' => ~OlderCopy(u)
        /\ udp' = udp
    BY <1>7, <2>0 DEF FaultPut
  <2>6. \A v \in Sensors : v \in reported' \ raced' => v \in reported \ raced
    BY <1>c, <1>x, <2>5
  <2>7. ReportedFaultSticks'
    BY <1>t, <2>2, <2>3, <2>5, <2>6 DEF TypeOK, ReportedFaultSticks, Uris
  <2>8. \A d \in Sessions : \/ d = c /\ sess'[d].pc = "fault_cb"
                            \/ d # c /\ sess'[d] = sess[d]
    BY <1>t, <1>7 DEF TypeOK, FaultPut
  <2>9. ASSUME NEW d \in Sessions, sess'[d].pc = "status", UriOf[d] \in reported' \ raced'
        PROVE  sess'[d].st.fault
    <3>1. sess'[d] = sess[d]
      BY <2>8, <2>9
    <3>2. CASE UriOf[d] = u
      BY <2>5, <2>9, <3>1, <3>2 DEF OlderCopy
    <3>3. CASE UriOf[d] # u
      BY <1>c, <1>t, <2>5, <2>9, <3>1, <3>3 DEF Copies
    <3> QED BY <3>2, <3>3
  <2>10. \A d \in Sessions :
           /\ sess'[d].pc = "fault" => sess'[d].st.fault
           /\ sess'[d].pc \in {"status", "fault"} => sess'[d].st.type # "NONE"
    BY <1>t, <2>8 DEF Copies
  <2>11. \A v \in reported' : dev'[v].type # "NONE"
    BY <1>t, <2>2, <2>3, <2>5 DEF Copies, TypeOK
  <2>12. udp.pc # "idle" => dev'[udp.uri] = dev[udp.uri] /\ udp.uri # u
    BY <1>c, <1>t, <2>3 DEF Copies
  <2>13. Copies'
    BY <1>t, <2>5, <2>9, <2>10, <2>11, <2>12 DEF Copies
  <2> QED BY <2>3, <2>4, <2>7, <2>13
<1>8. ASSUME NEW c \in Sessions, FaultCallback(c) \/ FaultSwitch(c) PROVE IInv'
  <2>1. TypeOK'
    <3>1. CASE FaultCallback(c)
      BY <1>c, <1>t, <3>1 DEF TypeOK, FaultCallback, regvars, SessPc
    <3>2. CASE FaultSwitch(c)
      BY <1>c, <1>t, <3>2 DEF TypeOK, FaultSwitch, regvars, ServerState
    <3> QED BY <1>8, <3>1, <3>2
  <2>2. UNCHANGED <<dev, zone_to_lamps, reported, raced, udp>>
    BY <1>8 DEF FaultCallback, FaultSwitch, regvars
  <2>3. \A d \in Sessions : sess'[d] = sess[d] \/ sess'[d].pc \in {"idle", "fault_switch"}
    BY <1>c, <1>t, <1>8 DEF TypeOK, FaultCallback, FaultSwitch
  <2> QED BY <1>t, <2>1, <2>2, <2>3 DEF LampsReachable, ReportedFaultSticks, Copies
<1>9. ASSUME NEW s \in Sensors, NEW m \in Motions, UdpReceive(s, m) PROVE IInv'
  <2> DEFINE z  == ZoneOf[s]
             st == IF Known(s) THEN [dev[s] EXCEPT !.type = "SENSOR", !.zone = z]
                   ELSE FreshDevice("SENSOR", z)
  <2>1. z \in ZoneIds
    BY SensorAssumption
  <2> HIDE DEF z
  <2>2. dev[s] \in DeviceState
    BY <1>c, <1>t DEF TypeOK
  <2>3. st \in DeviceState /\ st.type # "NONE" /\ (s \in reported => st.fault)
    <3>1. CASE Known(s)
      BY <1>c, <1>t, <1>x, <2>1, <2>2, <3>1 DEF DeviceState, ReportedFaultSticks
    <3>2. CASE ~Known(s)
      <4>1. s \notin reported
        BY <1>t, <3>2 DEF Copies, Known
      <4>2. st = FreshDevice("SENSOR", z)
        BY <3>2
      <4> QED BY <2>1, <4>1, <4>2, ConstantRecords DEF FreshDevice
    <3> QED BY <3>1, <3>2
  <2> HIDE DEF st
  <2>5. udp' = [pc |-> "put", uri |-> s, zone |-> z, motion |-> m, st |-> st, at |-> now]
    BY <1>9 DEF UdpReceive, z, st
  <2>6. TypeOK'
    BY <1>t, <1>9, <2>1, <2>3, <2>5 DEF TypeOK, UdpReceive, regvars, hist, UdpPc
  <2>7. Copies'
    <3>1. udp'.pc = "put" /\ udp'.uri = s /\ udp'.st = st /\ udp'.motion = m
      BY <2>5
    <3>2. UNCHANGED <<dev, sess, reported, raced>>
      BY <1>9 DEF UdpReceive, regvars, hist
    <3> QED BY <1>t, <2>3, <3>1, <3>2 DEF Copies, Motions
  <2> QED BY <1>t, <1>9, <2>6, <2>7 DEF UdpReceive, regvars, hist, LampsReachable, ReportedFaultSticks
<1>10. CASE UdpPut
  <2>0. udp.uri \in Sensors /\ udp.uri \in Uris
    BY <1>c, <1>t, <1>10 DEF UdpPut, Copies
  <2>1. PICK st \in Stamped(udp.st, udp.at) : Upsert(udp.uri, st)
    BY <1>10 DEF UdpPut
  <2>2. st \in DeviceState /\ st.fault = udp.st.fault /\ st.type # "NONE"
    BY <1>t, <1>10, <2>1, StampedType DEF TypeOK, Copies, UdpPut
  <2>3. /\ dev' \in [Uris -> DeviceState]
        /\ zone_to_lamps' \in [Zones -> SUBSET Uris]
        /\ dev'[udp.uri] = st
        /\ \A v \in Uris : v # udp.uri => dev'[v] = dev[v]
        /\ LampsReachable'
    BY <1>t, <2>0, <2>1, <2>2, UpsertKeepsIndex DEF TypeOK
  <2>4. TypeOK'
    BY <1>t, <1>10, <2>0, <2>3 DEF TypeOK, UdpPut, UdpPc
  <2>5. ReportedFaultSticks'
    BY <1>t, <1>10, <2>2, <2>3 DEF TypeOK, UdpPut, ReportedFaultSticks, Copies
  <2>6. Copies'
    BY <1>c, <1>t, <1>10, <2>0, <2>2, <2>3, ZenonT(30) DEF TypeOK, UdpPut, Copies
  <2> QED BY <2>3, <2>4, <2>5, <2>6
<1>11. CASE UdpMotion
  <2>1. udp.motion \in {0, 1}
    BY <1>t, <1>11 DEF UdpMotion, Copies
  <2>2. cmd' \in [Lamps -> {"none", "ON", "OFF"}]
    BY <1>t, <1>11 DEF UdpMotion, TypeOK
  <2>3. missed' \in BOOLEAN
    BY <1>t, <1>11 DEF UdpMotion, TypeOK
  <2>4. TypeOK'
    BY <1>c, <1>t, <1>11, <2>1, <2>2, <2>3 DEF TypeOK, UdpMotion, UdpIdle, regvars
  <2>5. Copies'
    BY <1>c, <1>t, <1>11 DEF UdpMotion, UdpIdle, regvars, Copies, IdleUdp
  <2> QED BY <1>t, <1>11, <2>4, <2>5 DEF UdpMotion, regvars, LampsReachable, ReportedFaultSticks
<1>12. CASE UdpFault
  <2> DEFINE st == [dev[udp.uri] EXCEPT !.fault = TRUE, !.seen = now]
  <2>0. udp.uri \in Sensors /\ udp.uri \in Uris
    BY <1>c, <1>t, <1>12 DEF UdpFault, Copies
  <2>1. st \in DeviceState /\ st.fault /\ st.type # "NONE"
    <3>1. dev[udp.uri] \in DeviceState /\ now \in Nat
      BY <1>t, <2>0 DEF TypeOK
    <3>2. dev[udp.uri].type # "NONE"
      BY <1>t, <1>12 DEF UdpFault, Copies
    <3> QED BY <3>1, <3>2 DEF DeviceState
  <2>2. Upsert(udp.uri, st)
    BY <1>12 DEF UdpFault
  <2> HIDE DEF st
  <2>3. /\ dev' \in [Uris -> DeviceState]
        /\ zone_to_lamps' \in [Zones -> SUBSET Uris]
        /\ dev'[udp.uri] = st
        /\ \A v \in Uris : v # udp.uri => dev'[v] = dev[v]
        /\ LampsReachable'
    BY <1>t, <2>0, <2>1, <2>2, UpsertKeepsIndex DEF TypeOK
  <2>4. TypeOK'
    BY <1>t, <1>12, <2>0, <2>3 DEF TypeOK, UdpFault, UdpPc, AlarmKind
  <2>5. ReportedFaultSticks'
    BY <1>t, <1>12, <2>1, <2>3 DEF TypeOK, UdpFault, ReportedFaultSticks
  <2>6. Copies'
    BY <1>c, <1>t, <1>12, <2>0, <2>1, <2>3 DEF TypeOK, UdpFault, Copies
  <2> QED BY <2>3, <2>4, <2>5, <2>6
<1>13. CASE UdpFaultCallback \/ UdpFaultSwitch
  <2>1. /\ UNCHANGED <<dev, zone_to_lamps, reported, raced, sess>>
        /\ udp' \in {[udp EXCEPT !.pc = "fault_switch"], [udp EXCEPT !.pc = "fault_put"]}
        /\ udp.pc \in {"fault_cb", "fault_switch"}
    BY <1>13 DEF UdpFaultCallback, UdpFaultSwitch, regvars, hist
  <2>2. TypeOK'
    <3>1. CASE UdpFaultCallback
      BY <1>t, <3>1 DEF TypeOK, UdpFaultCallback, regvars, hist, UdpPc
    <3>2. CASE UdpFaultSwitch
      BY <1>t, <3>2 DEF TypeOK, UdpFaultSwitch, regvars, hist, UdpPc, ServerState
    <3> QED BY <1>13, <3>1, <3>2
  <2>3. Copies'
    BY <1>t, <2>1 DEF TypeOK, Copies
  <2> QED BY <1>t, <2>1, <2>2, <2>3 DEF LampsReachable, ReportedFaultSticks
<1>14. CASE UdpFaultPut
  <2> DEFINE st == [FreshDevice("SENSOR", udp.zone) EXCEPT !.fault = TRUE, !.seen = now]
  <2>0. udp.uri \in Sensors /\ udp.uri \in Uris
    BY <1>c, <1>t, <1>14 DEF UdpFaultPut, Copies
  <2>1. st \in DeviceState /\ st.fault /\ st.type # "NONE"
    BY <1>t, ConstantRecords DEF TypeOK, DeviceState, FreshDevice
  <2>2. Upsert(udp.uri, st)
    BY <1>14 DEF UdpFaultPut
  <2> HIDE DEF st
  <2>3. /\ dev' \in [Uris -> DeviceState]
        /\ zone_to_lamps' \in [Zones -> SUBSET Uris]
        /\ dev'[udp.uri] = st
        /\ \A v \in Uris : v # udp.uri => dev'[v] = dev[v]
        /\ LampsReachable'
    BY <1>t, <2>0, <2>1, <2>2, UpsertKeepsIndex DEF TypeOK
  <2>4. TypeOK'
    BY <1>c, <1>t, <1>14, <2>3 DEF TypeOK, UdpFaultPut, UdpIdle
  <2>5. ReportedFaultSticks'
    BY <1>t, <1>14, <2>1, <2>3 DEF TypeOK, UdpFaultPut, ReportedFaultSticks
  <2>6. Copies'
    BY <1>c, <1>t, <1>14, <2>0, <2>1, <2>3 DEF TypeOK, UdpFaultPut, UdpIdle, Copies, IdleUdp
  <2> QED BY <2>3, <2>4, <2>5, <2>6
<1>15. CASE TickDetect
  <2>1. /\ dev' \in [Uris -> DeviceState]
        /\ \A u \in Uris : dev[u].fault => dev'[u].fault
        /\ \A u \in Uris : dev'[u].type = dev[u].type
        /\ LampsReachable'
    BY <1>t, <1>15, DetectOnlyMarks DEF TypeOK, TickDetect
  <2>2. CommLost(tick.at) \subseteq Uris
    BY DEF CommLost
  <2>a. tick' = [tick EXCEPT !.pc = "loop", !.lost = CommLost(tick.at), !.todo = CommLost(tick.at)]
    BY <1>15 DEF TickDetect
  <2>b. tick' \in [pc : TickPc, at : Nat, uri : Uris \cup {"none"},
                   lost : SUBSET Uris, todo : SUBSET Uris]
    BY <1>t, <2>2, <2>a DEF TypeOK, TickPc
  <2>c. owed' \subseteq (Uris \cup Sessions) \X AlarmKind
    BY <1>t, <1>15, <2>2 DEF TypeOK, TickDetect, AlarmKind
  <2>d. heard' \subseteq Uris
    BY <1>t, <1>15 DEF TypeOK, TickDetect
  <2>e. UNCHANGED <<zone_to_lamps, now, state_, sess, sessions, cmd, udp, last_motion, due,
                    active_lost, reported, raced, missed>>
    BY <1>15 DEF TickDetect, DetectCommLost
  <2>3. TypeOK'
    BY <1>t, <2>1, <2>b, <2>c, <2>d, <2>e DEF TypeOK
  <2>4. Copies'
    BY <1>c, <1>t, <2>1, <2>e DEF TypeOK, Copies
  <2>5. ReportedFaultSticks'
    BY <1>t, <2>1, <2>e DEF TypeOK, ReportedFaultSticks
  <2> QED BY <2>1, <2>3, <2>4, <2>5
<1>16. ASSUME \/ TickFire \/ TickSwitch \/ TickRecover \/ TickRecoverSwitch
              \/ \E u \in Uris : TickLoop(u)
       PROVE  IInv'
  <2>1. UNCHANGED <<dev, zone_to_lamps, reported, raced, sess, udp>>
    <3>1. CASE TickFire \/ TickRecover \/ TickRecoverSwitch
      BY <3>1 DEF TickFire, TickRecover, TickRecoverSwitch, regvars, hist
    <3>2. CASE TickSwitch \/ \E u \in Uris : TickLoop(u)
      BY <3>2 DEF TickSwitch, TickLoop, regvars
    <3> QED BY <1>16, <3>1, <3>2
  <2>2. TypeOK'
    <3>1. CASE TickFire
      BY <1>t, <3>1 DEF TypeOK, TickFire, regvars, hist, TickPc
    <3>2. CASE TickSwitch
      BY <1>t, <3>2 DEF TypeOK, TickSwitch, regvars, ServerState, TickPc
    <3>r. ASSUME Rearm
          PROVE  /\ tick' \in [pc : TickPc, at : Nat, uri : Uris \cup {"none"},
                               lost : SUBSET Uris, todo : SUBSET Uris]
                 /\ due' \in Nat
      <4>1. tick \in [pc : TickPc, at : Nat, uri : Uris \cup {"none"},
                      lost : SUBSET Uris, todo : SUBSET Uris]
        BY <1>t DEF TypeOK
      <4>2. tick' = [tick EXCEPT !.pc = "wait", !.at = 0, !.lost = {}, !.todo = {}]
        BY <3>r DEF Rearm
      <4>3. due' \in Nat
        BY <1>t, <3>r, TimerAssumption DEF TypeOK, Rearm
      <4> QED BY <4>1, <4>2, <4>3 DEF TickPc
    <3>3. CASE TickRecover
      <4>1. /\ tick' \in [pc : TickPc, at : Nat, uri : Uris \cup {"none"},
                          lost : SUBSET Uris, todo : SUBSET Uris]
            /\ due' \in Nat
        <5>1. CASE Rearm
          BY <3>r, <5>1
        <5>2. CASE tick' = [tick EXCEPT !.pc = "recover_switch"] /\ UNCHANGED due
          BY <1>t, <5>2 DEF TypeOK, TickPc
        <5> QED BY <3>3, <5>1, <5>2 DEF TickRecover
      <4> QED BY <1>t, <3>3, <4>1 DEF TypeOK, TickRecover, regvars, hist
    <3>4. CASE TickRecoverSwitch
      <4>1. /\ tick' \in [pc : TickPc, at : Nat, uri : Uris \cup {"none"},
                          lost : SUBSET Uris, todo : SUBSET Uris]
            /\ due' \in Nat
        BY <3>r, <3>4 DEF TickRecoverSwitch
      <4> QED BY <1>t, <3>4, <4>1 DEF TypeOK, TickRecoverSwitch, regvars, hist, ServerState
    <3>5. ASSUME NEW u \in Uris, TickLoop(u) PROVE TypeOK'
      <4>1. tick' \in [pc : TickPc, at : Nat, uri : Uris \cup {"none"},
                       lost : SUBSET Uris, todo : SUBSET Uris]
        <5>1. tick \in [pc : TickPc, at : Nat, uri : Uris \cup {"none"},
                        lost : SUBSET Uris, todo : SUBSET Uris]
          BY <1>t DEF TypeOK
        <5>2. \/ tick' = [tick EXCEPT !.todo = @ \ {u}]
              \/ tick' = [tick EXCEPT !.pc = "switch", !.uri = u, !.todo = @ \ {u}]
          BY <3>5 DEF TickLoop
        <5>3. CASE tick' = [tick EXCEPT !.todo = @ \ {u}]
          BY <5>1, <5>3
        <5>4. CASE tick' = [tick EXCEPT !.pc = "switch", !.uri = u, !.todo = @ \ {u}]
          BY <5>1, <5>4 DEF TickPc
        <5> QED BY <5>2, <5>3, <5>4
      <4>2. owed' \subseteq (Uris \cup Sessions) \X AlarmKind
        BY <1>t, <3>5 DEF TypeOK, TickLoop
      <4> QED BY <1>t, <3>5, <4>1, <4>2 DEF TypeOK, TickLoop, regvars
    <3> QED BY <1>16, <3>1, <3>2, <3>3, <3>4, <3>5
  <2> QED BY <1>t, <2>1, <2>2 DEF LampsReachable, ReportedFaultSticks, Copies
<1>17. ASSUME NEW u \in Lamps, SessionClose(u) PROVE IInv'
  <2>1. UNCHANGED <<regvars, now, state_, sess, cmd, udp, last_motion, tick, due, active_lost, hist>>
        /\ sessions' \subseteq sessions
    BY <1>17 DEF SessionClose
  <2> QED BY <1>t, <2>1 DEF regvars, hist, TypeOK, LampsReachable, ReportedFaultSticks, Copies
<1>18. CASE UNCHANGED vars
  BY <1>t, <1>18 DEF vars, TypeOK, LampsReachable, ReportedFaultSticks, Copies
<1> QED
  BY <1>1, <1>2, <1>3, <1>4, <1>5, <1>6, <1>7, <1>8, <1>9, <1>10, <1>11, <1>12, <1>13, <1>14,
     <1>15, <1>16, <1>17, <1>18
     DEF Next, Messages, SessionStep, UdpStep, TickStep

-----------------------------------------------------------------------------

\* The invariant holds in every reachable state.
LEMMA IInvHolds == Spec => []IInv
<1>1. IInv /\ [Next]_vars => IInv'
  BY NextIInv
<1> QED BY InitIInv, <1>1, PTL DEF Spec

\* Every variable of the regional server keeps its type.
THEOREM TypeCorrect == Spec => []TypeOK
<1>1. IInv => TypeOK
  BY DEF IInv
<1> QED BY IInvHolds, <1>1, PTL

\* Whatever handlers wrote the registry last, every luminaire it knows in a
\* zone is found by the motion callbacks of that zone.
THEOREM MotionFindsEveryLamp == Spec => []LampsReachable
<1>1. IInv => LampsReachable
  BY DEF IInv
<1> QED BY IInvHolds, <1>1, PTL

\* Whatever the sessions, of one lamp or of several, and however their handlers
\* interleave: a fault that a device reported itself is lost, before the device
\* registers again, only when handle_status of another session of the lamp had
\* copied the entry before the report and writes it back after it.
THEOREM ReportedFaultLostOnlyToOverlap == Spec => []ReportedFaultSticks
<1>1. IInv => ReportedFaultSticks
  BY DEF IInv
<1> QED BY IInvHolds, <1>1, PTL

-----------------------------------------------------------------------------
(* One loss for one silence.  A device whose entry could be marked lost    *)
(* has been heard from since it was last marked.                           *)

Listened ==
  /\ \A u \in Uris : ~dev[u].fault /\ dev[u].seen > 0 => u \in heard
  /\ tick.pc \in {"wait", "detect"} => tick.lost = {}

\* An upsert by a handler that also counts as hearing from the device.
LEMMA UpsertListened ==
  ASSUME dev \in [Uris -> DeviceState], Listened,
         NEW uri \in Uris, NEW st, Upsert(uri, st),
         heard' = heard \cup {uri}, UNCHANGED tick
  PROVE  Listened'
BY DEF Listened, Upsert

\* No step breaks Listened.
LEMMA NextListened == IInv /\ Listened /\ [Next]_vars => Listened'
<1> SUFFICES ASSUME IInv, Listened, [Next]_vars PROVE Listened'
  OBVIOUS
<1>t. /\ dev \in [Uris -> DeviceState]
      /\ udp.pc # "idle" => udp.uri \in Uris
      /\ \A c \in Sessions : UriOf[c] \in Uris
  BY SessionAssumption DEF IInv, TypeOK, Copies, Uris
<1>u. ASSUME UNCHANGED <<dev, heard, tick>> PROVE Listened'
  BY <1>u DEF Listened
<1>1. CASE Boot \/ Advance \/ UNCHANGED vars
  BY <1>1, <1>u DEF Boot, Advance, vars, regvars, hist
<1>2. ASSUME NEW c \in Sessions, NEW z \in Zones, Register(c, z) PROVE Listened'
  BY <1>t, <1>2, UpsertListened DEF Register
<1>3. ASSUME NEW c \in Sessions, StatusPut(c) PROVE Listened'
  BY <1>t, <1>3, UpsertListened DEF StatusPut
<1>4. ASSUME NEW c \in Sessions, FaultPut(c) PROVE Listened'
  BY <1>t, <1>4, UpsertListened DEF FaultPut
<1>5. CASE UdpPut
  BY <1>t, <1>5, UpsertListened DEF UdpPut
<1>6. CASE UdpFault
  BY <1>t, <1>6, UpsertListened DEF UdpFault
<1>7. CASE UdpFaultPut
  <2>1. dev' = [dev EXCEPT ![udp.uri] = [FreshDevice("SENSOR", udp.zone) EXCEPT !.fault = TRUE, !.seen = now]]
    BY <1>7 DEF UdpFaultPut, Upsert
  <2>2. dev'[udp.uri].fault
    BY <1>t, <1>7, <2>1 DEF UdpFaultPut, FreshDevice
  <2>3. \A v \in Uris : v # udp.uri => dev'[v] = dev[v]
    BY <1>t, <2>1
  <2> QED BY <1>7, <2>2, <2>3 DEF UdpFaultPut, Listened
<1>8. ASSUME \/ \E c \in Sessions, z \in Zones, on \in OnValues : StatusGet(c, z, on)
             \/ \E c \in Sessions, z \in Zones : FaultGet(c, z)
             \/ \E c \in Sessions : FaultCallback(c) \/ FaultSwitch(c)
             \/ \E u \in Lamps : SessionClose(u)
      PROVE  Listened'
  BY <1>8, <1>u DEF StatusGet, FaultGet, FaultCallback, FaultSwitch, SessionClose, regvars, hist
<1>9. CASE \/ \E s \in Sensors, m \in Motions : UdpReceive(s, m)
           \/ UdpMotion \/ UdpFaultCallback \/ UdpFaultSwitch
  BY <1>9, <1>u DEF UdpReceive, UdpMotion, UdpFaultCallback, UdpFaultSwitch, regvars, hist
<1>10. CASE TickDetect
  <2>1. \A u \in Uris : ~dev'[u].fault => dev'[u] = dev[u] /\ u \notin CommLost(tick.at)
    BY <1>t, <1>10 DEF TickDetect, DetectCommLost, DeviceState
  <2>2. heard' = heard \ CommLost(tick.at) /\ tick'.pc = "loop"
    BY <1>10 DEF TickDetect, IInv, TypeOK
  <2> QED BY <2>1, <2>2 DEF Listened
<1>11. ASSUME \/ TickFire \/ TickSwitch \/ TickRecover \/ TickRecoverSwitch
              \/ \E u \in Uris : TickLoop(u)
       PROVE  Listened'
  <2>1. UNCHANGED <<dev, heard>>
    BY <1>11 DEF TickFire, TickSwitch, TickRecover, TickRecoverSwitch, TickLoop, regvars, hist
  <2>2. tick'.pc \in {"wait", "detect"} => tick'.lost = {}
    BY <1>11, ZenonT(30)
       DEF TickFire, TickSwitch, TickRecover, TickRecoverSwitch, TickLoop, Rearm, IInv, TypeOK, Listened
  <2> QED BY <2>1, <2>2 DEF Listened
<1> QED
  BY <1>1, <1>2, <1>3, <1>4, <1>5, <1>6, <1>7, <1>8, <1>9, <1>10, <1>11
     DEF Next, Messages, SessionStep, UdpStep, TickStep

\* Listened holds in every reachable state.
LEMMA ListenedHolds == Spec => []Listened
<1>1. Init => Listened
  BY DEF Init, RegInit, Listened, NoDevice
<1>2. IInv /\ Listened /\ [Next]_vars => Listened'
  BY NextListened
<1> QED BY <1>1, <1>2, IInvHolds, PTL DEF Spec

\* In the step from detect to the loop, and in no other, devices are found lost.
LEMMA LostIsFound ==
  ASSUME IInv, Listened, Next, tick.pc = "detect", NEW u \in Uris, u \in tick'.lost
  PROVE  u \in CommLost(tick.at)
<1>1. CASE TickDetect
  BY <1>1 DEF TickDetect, IInv, TypeOK
<1>2. CASE UNCHANGED tick
  BY <1>2 DEF Listened
<1> QED
  BY <1>1, <1>2 DEF Next, Messages, SessionStep, UdpStep, TickStep, Boot, Advance, Register,
     StatusGet, StatusPut, FaultGet, FaultPut, FaultCallback, FaultSwitch, SessionClose,
     UdpReceive, UdpPut, UdpMotion, UdpFault, UdpFaultCallback, UdpFaultSwitch, UdpFaultPut,
     TickFire, TickLoop, TickSwitch, TickRecover, TickRecoverSwitch

\* A device is marked lost, and so alarmed, a second time only after a message
\* from it arrived in between.
THEOREM OneSilenceOneLoss == Spec => OneLossPerSilence
<1>1. IInv /\ Listened /\ [Next]_vars
        => [\A u \in Uris : tick.pc = "detect" /\ u \in tick'.lost => u \in heard]_vars
  <2> SUFFICES ASSUME IInv, Listened, Next, tick.pc = "detect", NEW u \in Uris, u \in tick'.lost
               PROVE  u \in heard
    OBVIOUS
  <2>1. u \in CommLost(tick.at)
    BY LostIsFound
  <2> QED BY <2>1 DEF CommLost, Listened
<1> QED BY <1>1, IInvHolds, ListenedHolds, PTL DEF Spec, OneLossPerSilence

-----------------------------------------------------------------------------
(***************************************************************************)
(* Alarms and commands of the regional server, for every set of devices    *)
(* and zones and every timing that TimerAssumption allows.                 *)
(*                                                                         *)
(* A device that is in active_lost is not alarmed again, so every real     *)
(* loss is alarmed only if a device the last check left in active_lost     *)
(* cannot have been silent for the whole timeout at the next one.  Clock   *)
(* bounds how late handlers are, Silences how old the entry of such a      *)
(* device can be, and Owing says which handler still has an alarm to send. *)
(***************************************************************************)

\* how late handlers and the comm_lost timer are
Clock ==
  /\ Running => now <= due + Late
  /\ ~Running => /\ tick.pc = "wait" /\ active_lost = {} /\ udp.pc = "idle"
                 /\ \A c \in Sessions : sess[c].pc = "idle"
  /\ \A c \in Sessions : sess[c].pc # "idle" => sess[c].at <= now /\ now <= sess[c].at + Late
  /\ udp.pc # "idle" => udp.at <= now /\ now <= udp.at + Late
  /\ tick.pc # "wait" => tick.at <= now /\ (due <= tick.at \/ now = MaxNow)
  /\ Running /\ tick.pc \in {"wait", "detect"} => due <= now + Period

\* the entry of u is marked, or was stamped no more than Late before b
Since(u, b) == \/ dev[u].fault
               \/ dev[u].seen + Late >= b
               \/ now = MaxNow /\ dev[u].seen + Late >= MaxNow

\* a device found lost by the running check, or by the last one, has been
\* stamped since the check began unless it is still marked
Silences ==
  /\ tick.pc \in {"wait", "detect"} => \A u \in active_lost : Since(u, due - Period - Late)
  /\ tick.pc \in {"loop", "switch", "recover_switch"} => \A u \in tick.lost : Since(u, due)
  /\ tick.pc = "recover_switch" => active_lost = {}

\* who will send the alarms that are owed
Owing ==
  /\ \A c \in Sessions : <<c, "device_fault">> \in owed =>
       sess[c].pc \in {"fault_cb", "fault_switch"}
  /\ \A u \in Uris : <<u, "sensor_fault">> \in owed =>
       udp.uri = u /\ udp.pc \in {"fault_cb", "fault_switch", "fault_put"}
  /\ \A u \in Uris : <<u, "comm_lost">> \in owed =>
       \/ tick.pc \in {"loop", "switch"} /\ u \in tick.todo /\ u \notin active_lost
       \/ tick.pc = "switch" /\ u = tick.uri

-----------------------------------------------------------------------------
(* The clock                                                               *)

\* The numbers these proofs compute with.
LEMMA Numbers ==
  ASSUME TypeOK
  PROVE  /\ now \in Nat /\ due \in Nat /\ Period \in Nat /\ Late \in Nat /\ Timeout \in Nat
         /\ MaxNow \in Nat /\ tick.at \in Nat /\ udp.at \in Nat
         /\ \A c \in Sessions : sess[c].at \in Nat
         /\ \A u \in Uris : dev[u] \in DeviceState /\ dev[u].seen \in Nat
         /\ Period + 3 * Late <= Timeout
BY TimerAssumption, HorizonAssumption, ClockAssumption DEF TypeOK, DeviceState

\* A step of a session or of the telemetry receiver: the clock and the timer
\* stand still, a handler that runs after it started now or was running.
LEMMA HandlerClock ==
  ASSUME TypeOK, Clock, UNCHANGED <<now, due, tick, active_lost>>,
         state_' = state_ \/ (Running /\ Running'),
         \A c \in Sessions : sess'[c].pc # "idle" =>
           Running /\ (sess'[c].at = now \/ (sess[c].pc # "idle" /\ sess'[c].at = sess[c].at)),
         udp'.pc # "idle" =>
           Running /\ (udp'.at = now \/ (udp.pc # "idle" /\ udp'.at = udp.at))
  PROVE  Clock'
<1>1. Running' <=> Running
  BY DEF Running
<1>2. \A c \in Sessions : sess'[c].pc # "idle" => sess'[c].at <= now /\ now <= sess'[c].at + Late
  BY Numbers DEF Clock
<1>3. udp'.pc # "idle" => udp'.at <= now /\ now <= udp'.at + Late
  BY Numbers DEF Clock
<1>4. ~Running' => udp'.pc = "idle" /\ \A c \in Sessions : sess'[c].pc = "idle"
  BY <1>1
<1> QED BY <1>1, <1>2, <1>3, <1>4 DEF Clock

\* Arming the timer again.
LEMMA RearmClock ==
  ASSUME TypeOK, Clock, Rearm, Running, Running', UNCHANGED <<now, sess, udp>>
  PROVE  Clock'
<1>1. tick'.pc = "wait" /\ due' = now + Period
  BY DEF Rearm, TypeOK
<1> QED BY <1>1, Numbers DEF Clock

\* One round of the loop over the lost devices.
LEMMA LoopEffect ==
  ASSUME TypeOK, NEW u \in Uris, TickLoop(u)
  PROVE  /\ tick.pc = "loop" /\ u \in tick.todo
         /\ tick'.at = tick.at /\ tick'.lost = tick.lost /\ tick'.todo = tick.todo \ {u}
         /\ active_lost' = active_lost \cup {u}
         /\ \/ tick'.pc = "loop" /\ u \in active_lost /\ owed' = owed
            \/ tick'.pc = "switch" /\ tick'.uri = u /\ owed' = owed
            \/ tick'.pc = "loop" /\ owed' = owed \ {<<u, "comm_lost">>}
         /\ UNCHANGED <<dev, zone_to_lamps, now, state_, sess, udp, due>>
<1>1. tick \in [pc : TickPc, at : Nat, uri : Uris \cup {"none"},
                lost : SUBSET Uris, todo : SUBSET Uris]
  BY DEF TypeOK
<1>2. /\ tick.pc = "loop" /\ u \in tick.todo /\ active_lost' = active_lost \cup {u}
      /\ UNCHANGED <<dev, zone_to_lamps, now, state_, sess, udp, due>>
  BY DEF TickLoop, regvars
<1>3. \/ /\ tick' = [tick EXCEPT !.todo = @ \ {u}]
         /\ (u \in active_lost /\ owed' = owed) \/ owed' = owed \ {<<u, "comm_lost">>}
      \/ tick' = [tick EXCEPT !.pc = "switch", !.uri = u, !.todo = @ \ {u}] /\ owed' = owed
  BY DEF TickLoop
<1>4. CASE tick' = [tick EXCEPT !.todo = @ \ {u}]
  BY <1>1, <1>2, <1>3, <1>4
<1>5. CASE tick' = [tick EXCEPT !.pc = "switch", !.uri = u, !.todo = @ \ {u}] /\ owed' = owed
  BY <1>1, <1>2, <1>5
<1> QED BY <1>3, <1>4, <1>5

\* No step breaks Clock.
LEMMA NextClock == IInv /\ Clock /\ [Next]_vars => Clock'
<1> SUFFICES ASSUME IInv, Clock, [Next]_vars PROVE Clock'
  OBVIOUS
<1>t. TypeOK
  BY DEF IInv
<1>i. IdleSession.pc = "idle" /\ IdleUdp.pc = "idle"
  BY DEF IdleSession, IdleUdp
<1>r. /\ \A c \in Sessions : sess[c].pc # "idle" => Running
      /\ udp.pc # "idle" => Running
      /\ tick.pc # "wait" => Running
  BY DEF Clock
<1>f. (state_' = Fault \/ state_' = Normal) => Running'
  BY DEF Running, Fault, Normal
<1>1. CASE Boot
  <2>1. /\ ~Running /\ Running' /\ due' = now + Period
        /\ UNCHANGED <<now, sess, udp, tick, active_lost>>
    BY <1>1, <1>f DEF Boot, Running
  <2> QED BY <1>t, <2>1, Numbers DEF Clock
<1>2. CASE Advance
  <2>1. /\ Running /\ Running' /\ now < MaxNow /\ now < due + Late /\ now' = now + 1
        /\ \A c \in Sessions : sess[c].pc # "idle" => now < sess[c].at + Late
        /\ udp.pc # "idle" => now < udp.at + Late
        /\ UNCHANGED <<due, sess, udp, tick, active_lost>>
    BY <1>2 DEF Advance, Running
  <2> QED BY <1>t, <2>1, Numbers DEF Clock
<1>3. CASE UNCHANGED vars \/ \E u \in Lamps : SessionClose(u)
  <2>1. UNCHANGED <<now, due, state_, sess, udp, tick, active_lost>>
    BY <1>3 DEF vars, SessionClose
  <2> QED BY <2>1 DEF Clock, Running
\* sessions
<1>4. ASSUME NEW c \in Sessions,
             \/ \E z \in Zones : Register(c, z)
             \/ \E z \in Zones, on \in OnValues : StatusGet(c, z, on)
             \/ \E z \in Zones : FaultGet(c, z)
             \/ StatusPut(c) \/ FaultPut(c) \/ FaultCallback(c) \/ FaultSwitch(c)
      PROVE  Clock'
  <2>1. UNCHANGED <<now, due, tick, active_lost, udp>>
    BY <1>4 DEF Register, StatusGet, FaultGet, StatusPut, FaultPut, FaultCallback, FaultSwitch
  <2>2. state_' = state_ \/ (Running /\ Running')
    BY <1>4, <1>f, <1>r DEF Register, StatusGet, FaultGet, StatusPut, FaultPut, FaultCallback,
       FaultSwitch
  <2>3. \A d \in Sessions : sess'[d].pc # "idle" =>
           Running /\ (sess'[d].at = now \/ (sess[d].pc # "idle" /\ sess'[d].at = sess[d].at))
    <3>1. CASE UNCHANGED sess
      BY <1>r, <3>1
    <3>2. ASSUME NEW z \in Zones, NEW on \in OnValues, StatusGet(c, z, on)
          PROVE  /\ Running /\ sess'[c].at = now
                 /\ \A d \in Sessions : d # c => sess'[d] = sess[d]
      BY <1>t, <3>2 DEF StatusGet, TypeOK
    <3>3. ASSUME NEW z \in Zones, FaultGet(c, z)
          PROVE  /\ Running /\ sess'[c].at = now
                 /\ \A d \in Sessions : d # c => sess'[d] = sess[d]
      BY <1>t, <3>3 DEF FaultGet, TypeOK
    <3>4. CASE StatusPut(c) \/ FaultPut(c) \/ FaultCallback(c) \/ FaultSwitch(c)
      <4>1. /\ sess[c].pc # "idle"
            /\ sess'[c].pc = "idle" \/ sess'[c].at = sess[c].at
            /\ \A d \in Sessions : d # c => sess'[d] = sess[d]
        BY <1>t, <1>i, <3>4 DEF StatusPut, FaultPut, FaultCallback, FaultSwitch, TypeOK
      <4> QED BY <1>r, <4>1
    <3>5. CASE \E z \in Zones : Register(c, z)
      BY <3>1, <3>5 DEF Register
    <3> QED BY <1>4, <1>r, <3>2, <3>3, <3>4, <3>5
  <2> QED BY <1>r, <1>t, <2>1, <2>2, <2>3, HandlerClock
\* telemetry
<1>5. ASSUME \/ \E s \in Sensors, m \in Motions : UdpReceive(s, m)
             \/ UdpPut \/ UdpMotion \/ UdpFault \/ UdpFaultCallback \/ UdpFaultSwitch \/ UdpFaultPut
      PROVE  Clock'
  <2>1. UNCHANGED <<now, due, tick, active_lost, sess>>
    BY <1>5 DEF UdpReceive, UdpPut, UdpMotion, UdpFault, UdpFaultCallback, UdpFaultSwitch,
       UdpFaultPut
  <2>2. state_' = state_ \/ (Running /\ Running')
    BY <1>5, <1>f, <1>r DEF UdpReceive, UdpPut, UdpMotion, UdpFault, UdpFaultCallback,
       UdpFaultSwitch, UdpFaultPut
  <2>3. udp'.pc # "idle" =>
          Running /\ (udp'.at = now \/ (udp.pc # "idle" /\ udp'.at = udp.at))
    <3>1. CASE \E s \in Sensors, m \in Motions : UdpReceive(s, m)
      BY <3>1 DEF UdpReceive
    <3>2. CASE UdpPut \/ UdpFault \/ UdpFaultCallback \/ UdpFaultSwitch
      <4>1. udp'.at = udp.at /\ udp.pc # "idle"
        BY <1>t, <3>2 DEF UdpPut, UdpFault, UdpFaultCallback, UdpFaultSwitch, TypeOK
      <4> QED BY <1>r, <4>1
    <3>3. CASE UdpMotion \/ UdpFaultPut
      BY <1>i, <3>3 DEF UdpMotion, UdpFaultPut, UdpIdle
    <3> QED BY <1>5, <3>1, <3>2, <3>3
  <2> QED BY <1>r, <1>t, <2>1, <2>2, <2>3, HandlerClock
\* the comm_lost check
<1>6. CASE TickFire
  <2>1. /\ Running /\ Running' /\ (now >= due \/ now = MaxNow)
        /\ tick'.pc = "detect" /\ tick'.at = now /\ tick.pc = "wait"
        /\ UNCHANGED <<now, due, sess, udp, active_lost>>
    BY <1>t, <1>6 DEF TickFire, TypeOK, Running
  <2> QED BY <1>t, <2>1, Numbers DEF Clock
<1>7. ASSUME TickDetect \/ TickSwitch \/ \E u \in Uris : TickLoop(u) PROVE Clock'
  <2>1. /\ tick'.pc \notin {"wait", "detect"} /\ tick.pc # "wait" /\ tick'.at = tick.at
        /\ UNCHANGED <<now, due, sess, udp>>
    <3>1. CASE TickDetect
      <4> DEFINE lost == CommLost(tick.at)
      <4>1. /\ tick' = [tick EXCEPT !.pc = "loop", !.lost = lost, !.todo = lost]
            /\ tick.pc = "detect" /\ UNCHANGED <<now, due, sess, udp>>
        BY <3>1 DEF TickDetect
      <4> HIDE DEF lost
      <4> QED BY <1>t, <4>1 DEF TypeOK
    <3>2. CASE TickSwitch
      BY <1>t, <3>2 DEF TickSwitch, TypeOK
    <3>3. ASSUME NEW u \in Uris, TickLoop(u)
          PROVE  /\ tick'.pc \notin {"wait", "detect"} /\ tick.pc # "wait" /\ tick'.at = tick.at
                 /\ UNCHANGED <<now, due, sess, udp>>
      BY <1>t, <3>3, LoopEffect
    <3> QED BY <1>7, <3>1, <3>2, <3>3
  <2>2. Running /\ Running'
    BY <1>7, <1>f, <1>r, <2>1 DEF TickDetect, TickSwitch, TickLoop, Running
  <2> QED BY <1>t, <2>1, <2>2, Numbers DEF Clock
<1>8. CASE TickRecover
  <2>1. /\ Running /\ Running' /\ tick.pc = "loop" /\ UNCHANGED <<now, sess, udp>>
    BY <1>8, <1>r DEF TickRecover, Running
  <2>2. CASE Rearm
    BY <1>t, <2>1, <2>2, RearmClock
  <2>3. CASE tick' = [tick EXCEPT !.pc = "recover_switch"] /\ UNCHANGED due
    <3>1. tick'.pc = "recover_switch" /\ tick'.at = tick.at
      BY <1>t, <2>3 DEF TypeOK
    <3> QED BY <1>t, <2>1, <2>3, <3>1, Numbers DEF Clock
  <2> QED BY <1>8, <2>2, <2>3 DEF TickRecover
<1>9. CASE TickRecoverSwitch
  <2>1. Running /\ Running' /\ Rearm /\ UNCHANGED <<now, sess, udp>>
    BY <1>9, <1>f, <1>r DEF TickRecoverSwitch
  <2> QED BY <1>t, <2>1, RearmClock
<1> QED
  BY <1>1, <1>2, <1>3, <1>4, <1>5, <1>6, <1>7, <1>8, <1>9
     DEF Next, Messages, SessionStep, UdpStep, TickStep

-----------------------------------------------------------------------------
(* Silences                                                                *)

\* A put by a handler that started no more than Late ago, or that marks.
LEMMA PutSilences ==
  ASSUME TypeOK, Clock, Silences, Running, NEW uri \in Uris, NEW st \in DeviceState,
         st.fault \/ st.seen + Late >= now, Upsert(uri, st),
         UNCHANGED <<now, due, tick, active_lost>>
  PROVE  Silences'
<1>1. dev'[uri] = st /\ \A u \in Uris : u # uri => dev'[u] = dev[u]
  BY DEF TypeOK, Upsert
<1>2. ASSUME NEW b, b <= now \/ now = MaxNow, b \in Int, NEW u \in Uris, Since(u, b)
      PROVE  Since(u, b)'
  <2>1. CASE u # uri
    BY <1>1, <1>2, <2>1 DEF Since
  <2>2. CASE u = uri
    <3>1. st.seen \in Nat /\ dev'[u] = st
      BY <1>1, <2>2 DEF DeviceState
    <3>2. st.fault \/ st.seen + Late >= b \/ (now = MaxNow /\ st.seen + Late >= MaxNow)
      BY <1>2, <3>1, Numbers
    <3> QED BY <3>1, <3>2 DEF Since
  <2> QED BY <2>1, <2>2
<1>3. tick.lost \subseteq Uris /\ active_lost \subseteq Uris
  BY DEF TypeOK
<1>4. /\ tick.pc \in {"wait", "detect"} => due - Period - Late <= now
      /\ tick.pc \in {"loop", "switch", "recover_switch"} => due <= now \/ now = MaxNow
      /\ due - Period - Late \in Int /\ due \in Int
  BY Numbers DEF Clock
<1>5. /\ tick.pc \in {"wait", "detect"} => \A u \in active_lost : Since(u, due - Period - Late)'
      /\ tick.pc \in {"loop", "switch", "recover_switch"} => \A u \in tick.lost : Since(u, due)'
  BY <1>2, <1>3, <1>4 DEF Silences
<1> QED BY <1>5 DEF Silences, Since

\* The timer is armed again no more than Late after it was due.
LEMMA RearmSilences ==
  ASSUME TypeOK, Clock, Rearm, Running, UNCHANGED <<dev, now>>,
         \A u \in active_lost' : u \in Uris /\ Since(u, due)
  PROVE  Silences'
<1>1. tick'.pc = "wait" /\ due' = now + Period
  BY DEF Rearm, TypeOK
<1>2. \A u \in active_lost' : Since(u, due - Period - Late)'
  <2> SUFFICES ASSUME NEW u \in active_lost' PROVE Since(u, due - Period - Late)'
    OBVIOUS
  <2>1. due' - Period - Late <= due /\ due' - Period - Late \in Int
    BY <1>1, Numbers DEF Clock
  <2>2. dev[u].seen \in Nat
    BY Numbers
  <2>3. dev[u].seen + Late >= due => dev[u].seen + Late >= due' - Period - Late
    BY <2>1, <2>2, Numbers
  <2> QED BY <2>3 DEF Since
<1> QED BY <1>1, <1>2 DEF Silences

\* No step breaks Silences.
LEMMA NextSilences == IInv /\ Clock /\ Silences /\ [Next]_vars => Silences'
<1> SUFFICES ASSUME IInv, Clock, Silences, [Next]_vars PROVE Silences'
  OBVIOUS
<1>t. TypeOK /\ Copies
  BY DEF IInv
<1>n. now \in Nat /\ Late \in Nat
  BY <1>t, Numbers
<1>c. (\A c \in Sessions : UriOf[c] \in Uris) /\ (\A s \in Sensors : s \in Uris)
  BY SessionAssumption DEF Uris
<1>r. /\ \A c \in Sessions : sess[c].pc # "idle" => Running
      /\ udp.pc # "idle" => Running
      /\ tick.pc # "wait" => Running
  BY DEF Clock
<1>u. ASSUME UNCHANGED <<dev, now, due, tick, active_lost>> PROVE Silences'
  BY <1>u DEF Silences, Since
\* stamps are read after the handler started
<1>p. ASSUME NEW st \in DeviceState, NEW from \in Nat, now <= from + Late,
             NEW x \in Stamped(st, from)
      PROVE  x \in DeviceState /\ x.seen + Late >= now
  <2>1. PICK t \in from .. now : x = [st EXCEPT !.seen = t]
    BY DEF Stamped
  <2>2. x.seen = t
    BY <2>1 DEF DeviceState
  <2> QED BY <1>n, <1>p, <2>1, <2>2, StampedType
<1>1. CASE Boot
  <2>1. tick.pc = "wait" /\ active_lost = {} /\ UNCHANGED <<tick, active_lost>>
    BY <1>1 DEF Boot, Clock, Running
  <2> QED BY <2>1 DEF Silences
<1>2. CASE Advance
  <2>1. now < MaxNow /\ UNCHANGED <<dev, due, tick, active_lost>>
    BY <1>2 DEF Advance, regvars
  <2>2. now # MaxNow
    BY <1>n, <2>1
  <2> QED BY <2>1, <2>2 DEF Silences, Since
<1>3. CASE UNCHANGED vars
  BY <1>3, <1>u DEF vars
<1>4. ASSUME NEW c \in Sessions, NEW z \in Zones, Register(c, z) PROVE Silences'
  <2> DEFINE st == [FreshDevice("LUMINAIRE", z) EXCEPT !.seen = now]
  <2>1. st \in DeviceState /\ st.seen = now
    BY <1>n, ConstantRecords DEF DeviceState, FreshDevice, ZoneIds
  <2>2. Upsert(UriOf[c], st) /\ Running /\ UNCHANGED <<now, due, tick, active_lost>>
    BY <1>4 DEF Register
  <2> HIDE DEF st
  <2>3. st.seen + Late >= now
    BY <1>n, <2>1
  <2> QED BY <1>c, <1>t, <2>1, <2>2, <2>3, PutSilences
<1>5. ASSUME NEW c \in Sessions, StatusPut(c) \/ FaultPut(c) PROVE Silences'
  <2>1. PICK x \in Stamped(sess[c].st, sess[c].at) : Upsert(UriOf[c], x)
    BY <1>5 DEF StatusPut, FaultPut
  <2>2. sess[c].pc # "idle" /\ UNCHANGED <<now, due, tick, active_lost>>
    BY <1>5 DEF StatusPut, FaultPut
  <2>3. sess[c].st \in DeviceState /\ sess[c].at \in Nat /\ now <= sess[c].at + Late
    BY <1>t, <2>2 DEF TypeOK, Clock
  <2>4. x \in DeviceState /\ x.seen + Late >= now
    BY <1>p, <2>3
  <2> QED BY <1>c, <1>r, <1>t, <2>1, <2>2, <2>4, PutSilences
<1>6. ASSUME \/ \E c \in Sessions, z \in Zones, on \in OnValues : StatusGet(c, z, on)
             \/ \E c \in Sessions, z \in Zones : FaultGet(c, z)
             \/ \E c \in Sessions : FaultCallback(c) \/ FaultSwitch(c)
             \/ \E u \in Lamps : SessionClose(u)
      PROVE  Silences'
  BY <1>6, <1>u DEF StatusGet, FaultGet, FaultCallback, FaultSwitch, SessionClose, regvars
<1>7. CASE UdpPut
  <2>1. PICK x \in Stamped(udp.st, udp.at) : Upsert(udp.uri, x)
    BY <1>7 DEF UdpPut
  <2>2. udp.pc # "idle" /\ UNCHANGED <<now, due, tick, active_lost>>
    BY <1>7 DEF UdpPut
  <2>3. /\ udp.st \in DeviceState /\ udp.at \in Nat /\ now <= udp.at + Late
        /\ udp.uri \in Uris
    BY <1>c, <1>t, <2>2 DEF TypeOK, Clock, Copies
  <2>4. x \in DeviceState /\ x.seen + Late >= now
    BY <1>p, <2>3
  <2> QED BY <1>r, <1>t, <2>1, <2>2, <2>3, <2>4, PutSilences
<1>8. CASE UdpFault
  <2> DEFINE st == [dev[udp.uri] EXCEPT !.fault = TRUE, !.seen = now]
  <2>1. udp.pc # "idle" /\ udp.uri \in Uris
    BY <1>c, <1>t, <1>8 DEF UdpFault, Copies
  <2>2. dev[udp.uri] \in DeviceState
    BY <1>t, <2>1 DEF TypeOK
  <2>3. st \in DeviceState /\ st.fault
    BY <1>n, <2>2 DEF DeviceState
  <2>4. Upsert(udp.uri, st) /\ UNCHANGED <<now, due, tick, active_lost>>
    BY <1>8 DEF UdpFault
  <2> HIDE DEF st
  <2> QED BY <1>r, <1>t, <2>1, <2>3, <2>4, PutSilences
<1>9. CASE UdpFaultPut
  <2> DEFINE st == [FreshDevice("SENSOR", udp.zone) EXCEPT !.fault = TRUE, !.seen = now]
  <2>1. udp.pc # "idle" /\ udp.uri \in Uris
    BY <1>c, <1>t, <1>9 DEF UdpFaultPut, Copies
  <2>2. st \in DeviceState /\ st.fault
    BY <1>t, ConstantRecords DEF TypeOK, DeviceState, FreshDevice
  <2>3. Upsert(udp.uri, st) /\ UNCHANGED <<now, due, tick, active_lost>>
    BY <1>9 DEF UdpFaultPut
  <2> HIDE DEF st
  <2> QED BY <1>r, <1>t, <2>1, <2>2, <2>3, PutSilences
<1>10. CASE \/ \E s \in Sensors, m \in Motions : UdpReceive(s, m)
            \/ UdpMotion \/ UdpFaultCallback \/ UdpFaultSwitch
  BY <1>10, <1>u DEF UdpReceive, UdpMotion, UdpFaultCallback, UdpFaultSwitch, regvars
<1>11. CASE TickFire
  <2>1. tick.pc = "wait" /\ tick'.pc = "detect" /\ UNCHANGED <<dev, now, due, active_lost>>
    BY <1>t, <1>11 DEF TickFire, TypeOK, regvars
  <2> QED BY <2>1 DEF Silences, Since
<1>12. CASE TickDetect
  <2> DEFINE lost == CommLost(tick.at)
  <2>1. tick' = [tick EXCEPT !.pc = "loop", !.lost = lost, !.todo = lost]
    BY <1>12 DEF TickDetect
  <2>2. \A u \in lost : dev'[u].fault
    BY <1>t, <1>12 DEF TickDetect, DetectCommLost, CommLost, TypeOK, DeviceState
  <2> HIDE DEF lost
  <2>3. tick'.pc = "loop" /\ tick'.lost = lost
    BY <1>t, <2>1 DEF TypeOK
  <2> QED BY <2>2, <2>3 DEF Silences, Since
<1>13. ASSUME TickSwitch \/ \E u \in Uris : TickLoop(u) PROVE Silences'
  <2>1. /\ tick.pc \in {"loop", "switch"} /\ tick'.pc \in {"loop", "switch"}
        /\ tick'.lost = tick.lost
    BY <1>t, <1>13, ZenonT(30) DEF TickSwitch, TickLoop, TypeOK
  <2>2. UNCHANGED <<dev, now, due>>
    BY <1>13 DEF TickSwitch, TickLoop, regvars
  <2> QED BY <2>1, <2>2 DEF Silences, Since
<1>14. CASE TickRecover
  <2>1. /\ tick.pc = "loop" /\ active_lost' = active_lost \cap tick.lost
        /\ UNCHANGED <<dev, now>>
    BY <1>14 DEF TickRecover, regvars
  <2>2. CASE Rearm
    <3>1. \A u \in active_lost' : u \in Uris /\ Since(u, due)
      BY <1>t, <2>1 DEF TypeOK, Silences
    <3> QED BY <1>r, <1>t, <2>1, <2>2, <3>1, RearmSilences
  <2>3. CASE tick' = [tick EXCEPT !.pc = "recover_switch"] /\ active_lost' = {} /\ UNCHANGED due
    <3>1. tick'.pc = "recover_switch" /\ tick'.lost = tick.lost
      BY <1>t, <2>3 DEF TypeOK
    <3> QED BY <2>1, <2>3, <3>1 DEF Silences, Since
  <2> QED BY <1>14, <2>2, <2>3 DEF TickRecover
<1>15. CASE TickRecoverSwitch
  <2>1. /\ tick.pc = "recover_switch" /\ Rearm /\ UNCHANGED <<dev, now, active_lost>>
    BY <1>15 DEF TickRecoverSwitch, regvars
  <2>2. active_lost' = {}
    BY <2>1 DEF Silences
  <2> QED BY <1>r, <1>t, <2>1, <2>2, RearmSilences
<1> QED
  BY <1>1, <1>2, <1>3, <1>4, <1>5, <1>6, <1>7, <1>8, <1>9, <1>10, <1>11, <1>12, <1>13, <1>14,
     <1>15 DEF Next, Messages, SessionStep, UdpStep, TickStep

-----------------------------------------------------------------------------
(* Alarms                                                                  *)

\* A device that is in active_lost is not lost anew: it was stamped after the
\* last check began, and the timer, late as it may be, is not that late.
LEMMA LostIsNew ==
  ASSUME TypeOK, Clock, Silences, tick.pc = "detect", NEW u \in active_lost,
         ~dev[u].fault
  PROVE  ~(tick.at - dev[u].seen > Timeout)
<1>1. u \in Uris
  BY DEF TypeOK
<1>2. \/ dev[u].seen + Late >= due - Period - Late
      \/ now = MaxNow /\ dev[u].seen + Late >= MaxNow
  BY DEF Silences, Since
<1>3. tick.at <= now /\ now <= due + Late
  BY DEF Clock
<1>4. dev[u].seen \in Nat
  BY <1>1, Numbers
<1> QED BY <1>2, <1>3, <1>4, Numbers

\* No step leaves an owed alarm without the handler that sends it.
LEMMA NextOwing == IInv /\ Clock /\ Silences /\ Owing /\ [Next]_vars => Owing'
<1> SUFFICES ASSUME IInv, Clock, Silences, Owing, [Next]_vars PROVE Owing'
  OBVIOUS
<1>t. TypeOK /\ Copies
  BY DEF IInv
<1>u. ASSUME UNCHANGED <<owed, sess, udp, tick, active_lost>> PROVE Owing'
  BY <1>u DEF Owing
\* a step of a session
<1>s. ASSUME NEW c \in Sessions, UNCHANGED <<udp, tick, active_lost>>,
             \A d \in Sessions : d # c => sess'[d] = sess[d],
             \/ owed' = owed
             \/ owed' = owed \cup {<<c, "device_fault">>}
             \/ owed' = owed \ {<<c, "device_fault">>},
             <<c, "device_fault">> \in owed' => sess'[c].pc \in {"fault_cb", "fault_switch"}
      PROVE  Owing'
  <2>1. \A d \in Sessions : d # c => (<<d, "device_fault">> \in owed' <=> <<d, "device_fault">> \in owed)
    BY <1>s
  <2>2. \A v \in Uris : /\ <<v, "sensor_fault">> \in owed' <=> <<v, "sensor_fault">> \in owed
                        /\ <<v, "comm_lost">> \in owed' <=> <<v, "comm_lost">> \in owed
    BY <1>s
  <2> QED BY <1>s, <2>1, <2>2 DEF Owing
\* a step of the telemetry receiver
<1>d. ASSUME UNCHANGED <<sess, tick, active_lost>>,
             \/ owed' = owed
             \/ owed' = owed \cup {<<udp.uri, "sensor_fault">>}
             \/ owed' = owed \ {<<udp.uri, "sensor_fault">>},
             \A v \in Uris : <<v, "sensor_fault">> \in owed' =>
               udp'.uri = v /\ udp'.pc \in {"fault_cb", "fault_switch", "fault_put"}
      PROVE  Owing'
  <2>1. /\ \A d \in Sessions : <<d, "device_fault">> \in owed' <=> <<d, "device_fault">> \in owed
        /\ \A v \in Uris : <<v, "comm_lost">> \in owed' <=> <<v, "comm_lost">> \in owed
    BY <1>d
  <2> QED BY <1>d, <2>1 DEF Owing
<1>1. CASE Boot \/ Advance \/ UNCHANGED vars
  BY <1>1, <1>u DEF Boot, Advance, vars, hist
<1>2. ASSUME \/ \E c \in Sessions, z \in Zones : Register(c, z)
             \/ \E u \in Lamps : SessionClose(u)
      PROVE  Owing'
  BY <1>2, <1>u DEF Register, SessionClose, hist
<1>3. ASSUME NEW c \in Sessions, NEW z \in Zones, NEW on \in OnValues,
             StatusGet(c, z, on)
      PROVE  Owing'
  <2>1. sess[c].pc = "idle" /\ UNCHANGED <<udp, tick, active_lost, owed>>
    BY <1>3 DEF StatusGet, hist
  <2>2. \A d \in Sessions : d # c => sess'[d] = sess[d]
    BY <1>t, <1>3 DEF StatusGet, TypeOK
  <2>3. <<c, "device_fault">> \notin owed
    BY <2>1 DEF Owing
  <2> QED BY <1>s, <2>1, <2>2, <2>3
<1>4. ASSUME NEW c \in Sessions, NEW z \in Zones, FaultGet(c, z) PROVE Owing'
  <2>1. sess[c].pc = "idle" /\ UNCHANGED <<udp, tick, active_lost, owed>>
    BY <1>4 DEF FaultGet, hist
  <2>2. \A d \in Sessions : d # c => sess'[d] = sess[d]
    BY <1>t, <1>4 DEF FaultGet, TypeOK
  <2>3. <<c, "device_fault">> \notin owed
    BY <2>1 DEF Owing
  <2> QED BY <1>s, <2>1, <2>2, <2>3
<1>5. ASSUME NEW c \in Sessions, StatusPut(c) PROVE Owing'
  <2>1. sess[c].pc = "status" /\ UNCHANGED <<udp, tick, active_lost, owed>>
    BY <1>5 DEF StatusPut
  <2>2. \A d \in Sessions : d # c => sess'[d] = sess[d]
    BY <1>t, <1>5 DEF StatusPut, TypeOK
  <2>3. <<c, "device_fault">> \notin owed
    BY <2>1 DEF Owing
  <2> QED BY <1>s, <2>1, <2>2, <2>3
<1>6. ASSUME NEW c \in Sessions, FaultPut(c) PROVE Owing'
  <2>1. owed' = owed \cup {<<c, "device_fault">>} /\ UNCHANGED <<udp, tick, active_lost>>
    BY <1>6 DEF FaultPut
  <2>2. sess'[c].pc = "fault_cb" /\ \A d \in Sessions : d # c => sess'[d] = sess[d]
    BY <1>t, <1>6 DEF FaultPut, TypeOK
  <2> QED BY <1>s, <2>1, <2>2
<1>7. ASSUME NEW c \in Sessions, FaultCallback(c) PROVE Owing'
  <2>1. UNCHANGED <<udp, tick, active_lost>>
    BY <1>7 DEF FaultCallback
  <2>2. \A d \in Sessions : d # c => sess'[d] = sess[d]
    BY <1>t, <1>7 DEF FaultCallback, TypeOK
  <2>3. \/ owed' = owed /\ sess'[c].pc = "fault_switch"
        \/ owed' = owed \ {<<c, "device_fault">>}
    BY <1>t, <1>7 DEF FaultCallback, TypeOK
  <2> QED BY <1>s, <2>1, <2>2, <2>3
<1>8. ASSUME NEW c \in Sessions, FaultSwitch(c) PROVE Owing'
  <2>1. owed' = owed \ {<<c, "device_fault">>} /\ UNCHANGED <<udp, tick, active_lost>>
    BY <1>8 DEF FaultSwitch
  <2>2. \A d \in Sessions : d # c => sess'[d] = sess[d]
    BY <1>t, <1>8 DEF FaultSwitch, TypeOK
  <2> QED BY <1>s, <2>1, <2>2
<1>9. CASE (\E s \in Sensors, m \in Motions : UdpReceive(s, m)) \/ UdpPut \/ UdpMotion
  <2>1. /\ udp.pc \in {"idle", "put", "motion"}
        /\ UNCHANGED <<sess, tick, active_lost, owed>>
    BY <1>9 DEF UdpReceive, UdpPut, UdpMotion, hist
  <2>2. \A v \in Uris : <<v, "sensor_fault">> \notin owed
    BY <2>1 DEF Owing
  <2> QED BY <1>d, <2>1, <2>2
<1>10. CASE UdpFault
  <2>1. /\ udp.pc = "fault" /\ owed' = owed \cup {<<udp.uri, "sensor_fault">>}
        /\ UNCHANGED <<sess, tick, active_lost>>
    BY <1>10 DEF UdpFault
  <2>2. udp'.pc = "fault_cb" /\ udp'.uri = udp.uri
    BY <1>t, <1>10 DEF UdpFault, TypeOK
  <2>3. \A v \in Uris : <<v, "sensor_fault">> \notin owed
    BY <2>1 DEF Owing
  <2>4. \A v \in Uris : <<v, "sensor_fault">> \in owed' => v = udp.uri
    BY <2>1, <2>3
  <2> QED BY <1>d, <2>1, <2>2, <2>4
<1>11. CASE UdpFaultCallback \/ UdpFaultSwitch
  <2>1. UNCHANGED <<sess, tick, active_lost, owed>>
    BY <1>11 DEF UdpFaultCallback, UdpFaultSwitch, hist
  <2>2. udp'.pc \in {"fault_switch", "fault_put"} /\ udp'.uri = udp.uri
    BY <1>t, <1>11 DEF UdpFaultCallback, UdpFaultSwitch, TypeOK
  <2> QED BY <1>d, <2>1, <2>2 DEF Owing
<1>12. CASE UdpFaultPut
  <2>1. owed' = owed \ {<<udp.uri, "sensor_fault">>} /\ UNCHANGED <<sess, tick, active_lost>>
    BY <1>12 DEF UdpFaultPut
  <2>2. \A v \in Uris : <<v, "sensor_fault">> \notin owed'
    BY <2>1 DEF Owing
  <2> QED BY <1>d, <2>1, <2>2
<1>13. CASE TickDetect
  <2> DEFINE lost == CommLost(tick.at)
             real == {v \in lost : tick.at - dev[v].seen > Timeout}
  <2>1. /\ tick' = [tick EXCEPT !.pc = "loop", !.lost = lost, !.todo = lost]
        /\ owed' = owed \cup {<<u, "comm_lost">> : u \in real}
        /\ tick.pc = "detect" /\ UNCHANGED <<sess, udp, active_lost>>
    BY <1>13 DEF TickDetect
  <2>2. \A u \in lost : u \in Uris /\ ~dev[u].fault
    BY DEF CommLost
  <2>3. \A u \in real : u \in lost /\ u \notin active_lost
    BY <1>t, <2>1, <2>2, LostIsNew
  <2> HIDE DEF lost, real
  <2>4. tick'.pc = "loop" /\ tick'.todo = lost
    BY <1>t, <2>1 DEF TypeOK
  <2>5. \A u \in Uris : <<u, "comm_lost">> \notin owed
    BY <2>1 DEF Owing
  <2>6. /\ \A d \in Sessions : <<d, "device_fault">> \in owed' <=> <<d, "device_fault">> \in owed
        /\ \A u \in Uris :
           /\ <<u, "sensor_fault">> \in owed' <=> <<u, "sensor_fault">> \in owed
           /\ <<u, "comm_lost">> \in owed' => u \in real
    BY <2>1, <2>5
  <2> QED BY <2>1, <2>3, <2>4, <2>6 DEF Owing
<1>14. ASSUME NEW u \in Uris, TickLoop(u) PROVE Owing'
  <2>1. /\ tick.pc = "loop" /\ u \in tick.todo
        /\ tick'.at = tick.at /\ tick'.lost = tick.lost /\ tick'.todo = tick.todo \ {u}
        /\ active_lost' = active_lost \cup {u}
        /\ \/ tick'.pc = "loop" /\ u \in active_lost /\ owed' = owed
           \/ tick'.pc = "switch" /\ tick'.uri = u /\ owed' = owed
           \/ tick'.pc = "loop" /\ owed' = owed \ {<<u, "comm_lost">>}
        /\ UNCHANGED <<sess, udp>>
    BY <1>14, <1>t, LoopEffect
  <2>2. /\ \A d \in Sessions : <<d, "device_fault">> \in owed' <=> <<d, "device_fault">> \in owed
        /\ \A v \in Uris :
           /\ <<v, "sensor_fault">> \in owed' <=> <<v, "sensor_fault">> \in owed
           /\ <<v, "comm_lost">> \in owed' => <<v, "comm_lost">> \in owed
    BY <2>1
  <2>3. \A v \in Uris : <<v, "comm_lost">> \in owed => v \in tick.todo /\ v \notin active_lost
    BY <2>1 DEF Owing
  <2>4. <<u, "comm_lost">> \in owed' => tick'.pc = "switch" /\ tick'.uri = u
    BY <2>1, <2>3
  <2>5. tick'.pc \in {"loop", "switch"}
    BY <2>1
  <2> QED BY <2>1, <2>2, <2>3, <2>4, <2>5 DEF Owing
<1>15. CASE TickSwitch
  <2>1. /\ owed' = owed \ {<<tick.uri, "comm_lost">>} /\ tick.pc = "switch"
        /\ UNCHANGED <<sess, udp, active_lost>>
    BY <1>15 DEF TickSwitch
  <2>2. tick'.pc = "loop" /\ tick'.todo = tick.todo
    BY <1>t, <1>15 DEF TickSwitch, TypeOK
  <2>3. /\ \A d \in Sessions : <<d, "device_fault">> \in owed' <=> <<d, "device_fault">> \in owed
        /\ \A v \in Uris :
           /\ <<v, "sensor_fault">> \in owed' <=> <<v, "sensor_fault">> \in owed
           /\ <<v, "comm_lost">> \in owed' =>
                <<v, "comm_lost">> \in owed /\ v # tick.uri
    BY <2>1
  <2> QED BY <2>1, <2>2, <2>3 DEF Owing
<1>16. CASE TickFire \/ TickRecover \/ TickRecoverSwitch
  <2>1. UNCHANGED <<owed, sess, udp>>
    BY <1>16 DEF TickFire, TickRecover, TickRecoverSwitch, hist
  <2>2. \A v \in Uris : <<v, "comm_lost">> \notin owed
    BY <1>16 DEF TickFire, TickRecover, TickRecoverSwitch, Owing
  <2> QED BY <2>1, <2>2 DEF Owing
<1> QED
  BY <1>1, <1>2, <1>3, <1>4, <1>5, <1>6, <1>7, <1>8, <1>9, <1>10, <1>11, <1>12, <1>13, <1>14,
     <1>15, <1>16 DEF Next, Messages, SessionStep, UdpStep, TickStep

\* Clock, Silences and Owing hold in every reachable state.
LEMMA TimingInductive == Spec => [](Clock /\ Silences /\ Owing)
<1>1. Init => Clock /\ Silences /\ Owing
  <2> SUFFICES ASSUME Init PROVE Clock /\ Silences /\ Owing
    OBVIOUS
  <2>1. /\ ~Running /\ active_lost = {} /\ owed = {} /\ udp.pc = "idle" /\ tick.pc = "wait"
        /\ \A c \in Sessions : sess[c].pc = "idle"
    BY DEF Init, Running, IdleUdp, IdleSession
  <2> QED BY <2>1 DEF Clock, Silences, Owing
<1>2. IInv /\ (Clock /\ Silences /\ Owing) /\ [Next]_vars => (Clock /\ Silences /\ Owing)'
  BY NextClock, NextSilences, NextOwing
<1> QED BY <1>1, <1>2, IInvHolds, PTL DEF Spec

\* Every fault and every real loss is alarmed by the handler that found it
\* (on_fault, on_sensor_fault and the loop of schedule_comm_lost_check with
\* active_lost), for every timeout of at least the check's period and three
\* times the longest delay of a handler.
THEOREM EveryFaultIsAlarmed == Spec => []EveryFaultAlarmed
<1>1. Owing => EveryFaultAlarmed
  BY DEF Owing, EveryFaultAlarmed, Uris
<1> QED BY <1>1, TimingInductive, PTL

-----------------------------------------------------------------------------
(* False losses.  A difference of the clock values wraps only when the     *)
(* later one is subtracted, as no clock value reaches ClockMod.            *)

Stamps == /\ now < ClockMod
          /\ \A u \in Uris : dev[u].seen <= now

\* An upsert of an entry stamped by now.
LEMMA UpsertStamps ==
  ASSUME dev \in [Uris -> DeviceState], Stamps, NEW uri \in Uris, NEW st, st.seen <= now,
         Upsert(uri, st), UNCHANGED now
  PROVE  Stamps'
BY DEF Stamps, Upsert

\* The stamp now_ms() gives between a get and its upsert is not later than now.
LEMMA StampedByNow ==
  ASSUME NEW st \in DeviceState, NEW from \in Nat, now \in Nat
  PROVE  \A x \in Stamped(st, from) : x.seen <= now
BY DEF Stamped, DeviceState

\* No step breaks Stamps.
LEMMA NextStamps == IInv /\ Stamps /\ [Next]_vars => Stamps'
<1> SUFFICES ASSUME IInv, Stamps, [Next]_vars PROVE Stamps'
  OBVIOUS
<1>t. /\ dev \in [Uris -> DeviceState] /\ now \in Nat
      /\ udp.pc # "idle" => udp.uri \in Uris
      /\ \A c \in Sessions : UriOf[c] \in Uris /\ sess[c].st \in DeviceState /\ sess[c].at \in Nat
      /\ udp.st \in DeviceState /\ udp.at \in Nat /\ udp.zone \in ZoneIds
  BY SessionAssumption DEF IInv, TypeOK, Copies, Uris
<1>n. now <= now
  BY <1>t
<1>u. ASSUME UNCHANGED <<dev, now>> PROVE Stamps'
  BY <1>u DEF Stamps
<1>1. CASE Boot \/ UNCHANGED vars
  BY <1>1, <1>u DEF Boot, vars, regvars, hist
<1>2. CASE Advance
  <2>1. now' = now + 1 /\ now < MaxNow /\ dev' = dev
    BY <1>2 DEF Advance, regvars
  <2>2. now' < ClockMod
    BY <1>t, <2>1, HorizonAssumption, ClockAssumption
  <2>3. \A u \in Uris : dev[u].seen \in Nat
    BY <1>t DEF DeviceState
  <2> QED BY <1>t, <2>1, <2>2, <2>3 DEF Stamps
<1>3. ASSUME NEW c \in Sessions, NEW z \in Zones, Register(c, z) PROVE Stamps'
  <2>1. [FreshDevice("LUMINAIRE", z) EXCEPT !.seen = now].seen <= now
    BY <1>n DEF FreshDevice
  <2> QED BY <1>t, <1>3, <2>1, UpsertStamps DEF Register
<1>4. ASSUME NEW c \in Sessions, StatusPut(c) \/ FaultPut(c) PROVE Stamps'
  <2>1. PICK st \in Stamped(sess[c].st, sess[c].at) : Upsert(UriOf[c], st)
    BY <1>4 DEF StatusPut, FaultPut
  <2>2. st.seen <= now
    BY <1>t, StampedByNow
  <2>3. UNCHANGED now
    BY <1>4 DEF StatusPut, FaultPut
  <2> QED BY <1>t, <2>1, <2>2, <2>3, UpsertStamps
<1>5. CASE UdpPut
  <2>1. PICK st \in Stamped(udp.st, udp.at) : Upsert(udp.uri, st)
    BY <1>5 DEF UdpPut
  <2>2. st.seen <= now
    BY <1>t, StampedByNow
  <2>3. UNCHANGED now /\ udp.uri \in Uris
    BY <1>t, <1>5 DEF UdpPut
  <2> QED BY <1>t, <2>1, <2>2, <2>3, UpsertStamps
<1>6. CASE UdpFault
  <2>1. udp.uri \in Uris /\ dev[udp.uri] \in DeviceState
    BY <1>t, <1>6 DEF UdpFault
  <2>2. [dev[udp.uri] EXCEPT !.fault = TRUE, !.seen = now].seen <= now
    BY <1>n, <2>1 DEF DeviceState
  <2> QED BY <1>t, <1>6, <2>1, <2>2, UpsertStamps DEF UdpFault
<1>7. CASE UdpFaultPut
  <2>1. udp.uri \in Uris
    BY <1>t, <1>7 DEF UdpFaultPut
  <2>2. [FreshDevice("SENSOR", udp.zone) EXCEPT !.fault = TRUE, !.seen = now].seen <= now
    BY <1>n DEF FreshDevice
  <2> QED BY <1>t, <1>7, <2>1, <2>2, UpsertStamps DEF UdpFaultPut
<1>8. ASSUME \/ \E c \in Sessions, z \in Zones, on \in OnValues : StatusGet(c, z, on)
             \/ \E c \in Sessions, z \in Zones : FaultGet(c, z)
             \/ \E c \in Sessions : FaultCallback(c) \/ FaultSwitch(c)
             \/ \E u \in Lamps : SessionClose(u)
      PROVE  Stamps'
  BY <1>8, <1>u DEF StatusGet, FaultGet, FaultCallback, FaultSwitch, SessionClose, regvars
<1>9. CASE \/ \E s \in Sensors, m \in Motions : UdpReceive(s, m)
           \/ UdpMotion \/ UdpFaultCallback \/ UdpFaultSwitch
  BY <1>9, <1>u DEF UdpReceive, UdpMotion, UdpFaultCallback, UdpFaultSwitch, regvars
<1>10. CASE TickDetect
  <2>1. \A u \in Uris : dev'[u].seen = dev[u].seen
    BY <1>t, <1>10 DEF TickDetect, DetectCommLost, DeviceState
  <2>2. UNCHANGED now
    BY <1>10 DEF TickDetect
  <2> QED BY <2>1, <2>2 DEF Stamps
<1>11. CASE \/ TickFire \/ TickSwitch \/ TickRecover \/ TickRecoverSwitch
            \/ \E u \in Uris : TickLoop(u)
  BY <1>11, <1>u DEF TickFire, TickSwitch, TickRecover, TickRecoverSwitch, TickLoop, regvars
<1> QED
  BY <1>1, <1>2, <1>3, <1>4, <1>5, <1>6, <1>7, <1>8, <1>9, <1>10, <1>11
     DEF Next, Messages, SessionStep, UdpStep, TickStep

\* The only false losses are those of the run regional_false_loss: whatever the
\* timing, a device detect_comm_lost reports had been silent for longer than the
\* timeout when the check read the clock, or was stamped after that.
THEOREM FalseLossIsARace == Spec => LostIfSilentOrRaced
<1>1. Init => Stamps
  <2> SUFFICES ASSUME Init PROVE Stamps
    OBVIOUS
  <2>1. now = 1 /\ dev = [u \in Uris |-> NoDevice]
    BY DEF Init, RegInit
  <2>2. 1 < ClockMod
    BY ClockAssumption, TimerAssumption
  <2> QED BY <2>1, <2>2 DEF Stamps, NoDevice
<1>2. IInv /\ Stamps /\ [Next]_vars => Stamps'
  BY NextStamps
<1>3. IInv /\ Stamps /\ (Clock /\ Silences /\ Owing) /\ Listened /\ [Next]_vars =>
        [\A u \in Uris : tick.pc = "detect" /\ u \in tick'.lost =>
           \/ tick.at - dev[u].seen > Timeout
           \/ tick.at < dev[u].seen /\ dev[u].seen <= now]_vars
  <2> SUFFICES ASSUME IInv, Stamps, Clock, Listened, Next, tick.pc = "detect",
                      NEW u \in Uris, u \in tick'.lost
               PROVE  \/ tick.at - dev[u].seen > Timeout
                      \/ tick.at < dev[u].seen /\ dev[u].seen <= now
    OBVIOUS
  <2>1. u \in CommLost(tick.at)
    BY LostIsFound
  <2>2. PICK a \in Nat, b \in Nat : a = tick.at /\ b = dev[u].seen
    BY Numbers DEF IInv
  <2>3. a < ClockMod /\ b <= now
    <3>1. a <= now /\ now < ClockMod /\ b <= now
      BY <2>2 DEF Clock, Stamps
    <3> QED BY <2>2, <3>1, Numbers, ClockAssumption DEF IInv
  <2>4. (a - b) % ClockMod > Timeout
    BY <2>1, <2>2 DEF CommLost, Elapsed
  <2>5. b <= a => (a - b) % ClockMod = a - b
    BY <2>2, <2>3, ClockAssumption
  <2> QED BY <2>2, <2>3, <2>4, <2>5
<1> QED
  BY <1>1, <1>2, <1>3, IInvHolds, ListenedHolds, TimingInductive, PTL DEF Spec, LostIfSilentOrRaced

-----------------------------------------------------------------------------
(* Motion commands.  CommandFitsMotion speaks of the state in which the    *)
(* datagram handler is idle; Fits also says which zone the running handler *)
(* will command, and that a commanded lamp is one its sensor's next edge   *)
(* commands too: the index never loses a lamp.                             *)

\* one sensor in the region: two sensors of a zone command the same lamps
OneSensor == \A s, t \in Sensors : s = t

Fits ==
  /\ udp.pc # "idle" => udp.zone = ZoneOf[udp.uri]
  /\ \A s \in Sensors, u \in Lamps : cmd[u] # "none" =>
       /\ u \in GetLampsInZone(ZoneOf[s])
       /\ ~missed /\ u \in sessions => (cmd[u] = "ON" <=> last_motion[s] = 1)

\* Registry::upsert takes no lamp out of the index of a zone.
LEMMA UpsertGrows ==
  ASSUME NEW uri, NEW st, zone_to_lamps \in [Zones -> SUBSET Uris], Upsert(uri, st)
  PROVE  \A z : GetLampsInZone(z) \subseteq GetLampsInZone(z)'
<1>1. zone_to_lamps' = zone_to_lamps \/ zone_to_lamps' = [zone_to_lamps EXCEPT ![st.zone] = @ \cup {uri}]
  BY DEF Upsert
<1>2. \A z \in Zones : zone_to_lamps[z] \subseteq zone_to_lamps'[z]
  BY <1>1
<1> QED BY <1>2 DEF GetLampsInZone

\* No step takes a lamp out of the index of a zone.
LEMMA IndexGrows ==
  IInv /\ [Next]_vars => \A z : GetLampsInZone(z) \subseteq GetLampsInZone(z)'
<1> SUFFICES ASSUME IInv, [Next]_vars
             PROVE  \A z : GetLampsInZone(z) \subseteq GetLampsInZone(z)'
  OBVIOUS
<1>t. zone_to_lamps \in [Zones -> SUBSET Uris]
  BY DEF IInv, TypeOK
<1>1. \/ zone_to_lamps' = zone_to_lamps
      \/ \E uri, st : Upsert(uri, st)
  <2>1. \A u, z : Register(u, z) => \E uri, st : Upsert(uri, st)
    BY DEF Register
  <2>2. \A u : StatusPut(u) \/ FaultPut(u) => \E uri, st : Upsert(uri, st)
    BY DEF StatusPut, FaultPut
  <2>3. UdpPut \/ UdpFault \/ UdpFaultPut => \E uri, st : Upsert(uri, st)
    BY DEF UdpPut, UdpFault, UdpFaultPut
  <2>4. TickDetect => zone_to_lamps' = zone_to_lamps
    BY DEF TickDetect, DetectCommLost
  <2>5. /\ UNCHANGED vars \/ Boot \/ Advance => zone_to_lamps' = zone_to_lamps
        /\ \A u, z : FaultGet(u, z) => zone_to_lamps' = zone_to_lamps
        /\ \A u, z, on : StatusGet(u, z, on) => zone_to_lamps' = zone_to_lamps
        /\ \A s, m : UdpReceive(s, m) => zone_to_lamps' = zone_to_lamps
    BY DEF vars, Boot, Advance, FaultGet, StatusGet, UdpReceive, regvars
  <2>6. \A u : SessionClose(u) \/ FaultCallback(u) \/ FaultSwitch(u) \/ TickLoop(u)
                 => zone_to_lamps' = zone_to_lamps
    BY DEF SessionClose, FaultCallback, FaultSwitch, TickLoop, regvars
  <2>7. UdpMotion \/ UdpFaultCallback \/ UdpFaultSwitch => zone_to_lamps' = zone_to_lamps
    BY DEF UdpMotion, UdpFaultCallback, UdpFaultSwitch, regvars
  <2>8. TickFire \/ TickSwitch \/ TickRecover \/ TickRecoverSwitch => zone_to_lamps' = zone_to_lamps
    BY DEF TickFire, TickSwitch, TickRecover, TickRecoverSwitch, regvars
  <2> QED
    BY <2>1, <2>2, <2>3, <2>4, <2>5, <2>6, <2>7, <2>8 DEF Next, Messages, SessionStep, UdpStep, TickStep
<1>2. CASE zone_to_lamps' = zone_to_lamps
  BY <1>2 DEF GetLampsInZone
<1>3. ASSUME NEW uri, NEW st, Upsert(uri, st)
      PROVE  \A z : GetLampsInZone(z) \subseteq GetLampsInZone(z)'
  BY <1>t, <1>3, UpsertGrows
<1> QED BY <1>1, <1>2, <1>3

\* A step that neither commands a lamp nor records a motion keeps Fits.
LEMMA FitsKept ==
  ASSUME IInv, [Next]_vars, Fits,
         UNCHANGED <<cmd, last_motion, missed>>, sessions' \subseteq sessions,
         udp'.pc # "idle" => udp'.zone = ZoneOf[udp'.uri]
  PROVE  Fits'
<1>1. \A z : GetLampsInZone(z) \subseteq GetLampsInZone(z)'
  BY IndexGrows
<1> QED BY <1>1 DEF Fits

\* The datagram handler is the only one that commands and records, and it does
\* both for the same edge; every other step leaves them alone.
LEMMA NextFits == OneSensor /\ IInv /\ Fits /\ [Next]_vars => Fits'
<1> SUFFICES ASSUME OneSensor, IInv, Fits, [Next]_vars PROVE Fits'
  OBVIOUS
<1>t. TypeOK /\ Copies
  BY DEF IInv
<1>g. \A z : GetLampsInZone(z) \subseteq GetLampsInZone(z)'
  BY IndexGrows
<1>z. udp.pc # "idle" => udp.zone = ZoneOf[udp.uri]
  BY DEF Fits
<1>1. CASE UNCHANGED vars \/ Boot \/ Advance \/ TickStep
  <2>1. UNCHANGED <<cmd, last_motion, missed, sessions, udp>>
    BY <1>1 DEF vars, Boot, Advance, TickStep, TickFire, TickDetect, TickSwitch, TickRecover,
                TickRecoverSwitch, TickLoop, hist
  <2> QED BY <1>z, <2>1, FitsKept
<1>2. ASSUME NEW c \in Sessions, SessionStep(c) PROVE Fits'
  <2>1. UNCHANGED <<cmd, last_motion, missed, sessions, udp>>
    BY <1>2 DEF SessionStep, StatusPut, FaultPut, FaultCallback, FaultSwitch
  <2> QED BY <1>z, <2>1, FitsKept
<1>3. ASSUME NEW z, NEW on,
             \/ \E c \in Sessions : FaultGet(c, z) \/ StatusGet(c, z, on)
             \/ \E u \in Lamps : SessionClose(u)
      PROVE  Fits'
  <2>1. UNCHANGED <<cmd, last_motion, missed, udp>> /\ sessions' \subseteq sessions
    BY <1>3 DEF FaultGet, StatusGet, SessionClose, hist
  <2> QED BY <1>z, <2>1, FitsKept
<1>4. ASSUME NEW c \in Sessions, NEW z \in Zones, Register(c, z) PROVE Fits'
  <2>0. PICK u \in Lamps : u = UriOf[c]
    BY SessionAssumption
  <2>1. /\ sessions' = sessions \cup {u} /\ cmd' = [cmd EXCEPT ![u] = "none"]
        /\ UNCHANGED <<last_motion, missed, udp>>
    BY <1>4, <2>0 DEF Register
  <2>2. /\ cmd'[u] = "none"
        /\ \A v \in Lamps : v # u => cmd'[v] = cmd[v] /\ (v \in sessions' <=> v \in sessions)
    BY <1>t, <2>1 DEF TypeOK
  <2> QED BY <1>g, <2>1, <2>2 DEF Fits
<1>5. ASSUME NEW s \in Sensors, NEW m \in Motions, UdpReceive(s, m) PROVE Fits'
  <2>1. /\ UNCHANGED <<cmd, last_motion, missed, sessions>>
        /\ udp'.uri = s /\ udp'.zone = ZoneOf[s]
    BY <1>5 DEF UdpReceive, hist
  <2> QED BY <2>1, FitsKept
<1>6. CASE UdpPut \/ UdpFault \/ UdpFaultCallback \/ UdpFaultSwitch
  <2>1. UNCHANGED <<cmd, last_motion, missed, sessions>> /\ udp.pc # "idle"
    BY <1>6 DEF UdpPut, UdpFault, UdpFaultCallback, UdpFaultSwitch, hist
  <2>2. udp'.uri = udp.uri /\ udp'.zone = udp.zone
    BY <1>t, <1>6 DEF UdpPut, UdpFault, UdpFaultCallback, UdpFaultSwitch, TypeOK
  <2> QED BY <1>z, <2>1, <2>2, FitsKept
<1>7. CASE UdpFaultPut
  <2>1. UNCHANGED <<cmd, last_motion, missed, sessions>> /\ udp'.pc = "idle"
    BY <1>7 DEF UdpFaultPut, UdpIdle, IdleUdp
  <2> QED BY <2>1, FitsKept
<1>8. CASE UdpMotion
  <2>0. PICK s \in Sensors : s = udp.uri
    BY <1>t, <1>8 DEF Copies, UdpMotion
  <2> DEFINE edge == last_motion[s] # udp.motion
             to   == IF edge THEN Commanded(udp.zone) ELSE {}
  <2>1. /\ cmd' = [u \in Lamps |-> IF u \in to THEN IF udp.motion = 1 THEN "ON" ELSE "OFF"
                                   ELSE cmd[u]]
        /\ missed' = (missed \/ (edge /\ state_ # Normal))
        /\ last_motion' = [last_motion EXCEPT ![s] = udp.motion]
        /\ UNCHANGED sessions
        /\ udp.pc = "motion" /\ udp'.pc = "idle"
    BY <1>8, <2>0 DEF UdpMotion, UdpIdle, IdleUdp
  <2>2. s \in Sensors /\ udp.motion \in {0, 1} /\ udp.zone = ZoneOf[s]
    BY <1>t, <1>z, <2>0, <2>1 DEF Copies
  <2>3. \A t \in Sensors : t = s
    BY <2>2 DEF OneSensor
  <2>4. last_motion'[s] = udp.motion /\ last_motion[s] \in {0, 1}
    BY <1>t, <2>1, <2>2 DEF TypeOK
  <2>5. \A u \in to : u \in GetLampsInZone(ZoneOf[s])
    BY <2>2 DEF Commanded
  <2>6. missed \in BOOLEAN /\ cmd \in [Lamps -> {"none", "ON", "OFF"}]
    BY <1>t DEF TypeOK
  <2>7. edge /\ ~missed' => to = GetLampsInZone(ZoneOf[s]) \cap sessions
    BY <2>1, <2>2, <2>6 DEF Commanded
  <2>8. ~edge => to = {}
    OBVIOUS
  <2> HIDE DEF to
  <2>9. ASSUME NEW u \in Lamps, cmd'[u] # "none"
        PROVE  /\ u \in GetLampsInZone(ZoneOf[s])'
               /\ ~missed' /\ u \in sessions' => (cmd'[u] = "ON" <=> last_motion'[s] = 1)
    <3>1. CASE u \in to
      <4>1. cmd'[u] = IF udp.motion = 1 THEN "ON" ELSE "OFF"
        BY <2>1, <3>1
      <4> QED BY <1>g, <2>4, <2>5, <3>1, <4>1
    <3>2. CASE u \notin to
      <4>1. cmd'[u] = cmd[u]
        BY <2>1, <3>2
      <4>2. /\ u \in GetLampsInZone(ZoneOf[s])
            /\ ~missed /\ u \in sessions => (cmd[u] = "ON" <=> last_motion[s] = 1)
        BY <2>2, <2>9, <4>1 DEF Fits
      <4>3. ~missed' /\ u \in sessions' => ~edge /\ ~missed
        BY <2>1, <2>6, <2>7, <3>2, <4>2
      <4> QED BY <1>g, <2>1, <2>4, <4>1, <4>2, <4>3
    <3> QED BY <3>1, <3>2
  <2> QED BY <2>1, <2>3, <2>9 DEF Fits
<1> QED
  BY <1>1, <1>2, <1>3, <1>4, <1>5, <1>6, <1>7, <1>8 DEF Next, Messages, UdpStep

\* In a region with one sensor, whatever its lamps, its zones and the order of
\* registrations, closed sessions and datagrams, the last command a lamp got
\* since it registered fits the last motion (motion_on, motion_off and
\* last_motion_), unless an edge met an FSM outside NORMAL_OPERATION.
THEOREM CommandsFitMotion == ASSUME OneSensor PROVE Spec => []CommandFitsMotion
<1>1. Init => Fits
  <2> SUFFICES ASSUME Init PROVE Fits
    OBVIOUS
  <2>1. udp.pc = "idle" /\ \A u \in Lamps : cmd[u] = "none"
    BY DEF Init, IdleUdp
  <2> QED BY <2>1 DEF Fits
<1>2. IInv /\ Fits /\ [Next]_vars => Fits'
  BY NextFits
<1>3. Fits => CommandFitsMotion
  BY DEF Fits, CommandFitsMotion
<1> QED BY <1>1, <1>2, <1>3, IInvHolds, PTL DEF Spec
=============================================================================
