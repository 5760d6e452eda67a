---------------------------- MODULE MCAdminReport ---------------------------
(* Registries with lamps and a sensor in no zone, one zone and two, dark,    *)
(* lit and faulty, with powers that overflow an u32 of four small bytes, and *)
(* messages with their fields at both ends of their range.                   *)
EXTENDS AdminReport, TLC

Lamp(z, on, fault, p) == [type |-> "LUMINAIRE", zone_id |-> z, on |-> on, fault |-> fault, power_mw |-> p]
Sensor(z, fault) == [type |-> "SENSOR", zone_id |-> z, on |-> FALSE, fault |-> fault, power_mw |-> 0]

LampStates == <<Lamp(0, TRUE, FALSE, 7), Lamp(1, TRUE, FALSE, 200), Lamp(1, FALSE, TRUE, 0),
                Lamp(2, TRUE, TRUE, 100)>>
SensorStates == {Sensor(1, FALSE), Sensor(2, TRUE)}

\* two lamps and a sensor: two alike with a sensor in zone 1, two that differ with
\* a faulty one in zone 2
Trios == {(1 :> l) @@ (2 :> l) @@ (3 :> Sensor(1, FALSE)) : l \in Range(LampStates)}
         \cup {(1 :> LampStates[p[1]]) @@ (2 :> LampStates[p[2]]) @@ (3 :> Sensor(2, TRUE)) :
                 p \in {q \in (1 .. 4) \X (1 .. 4) : q[1] < q[2]}}

\* a report too long for MaxBody; the longest one about two zones is not
ThreeZones == (5 :> Lamp(1, TRUE, FALSE, 3)) @@ (6 :> Lamp(2, FALSE, FALSE, 0)) @@ (7 :> Lamp(3, TRUE, TRUE, 9))

MCRegistries ==
  (1 :> ({(1 :> l) : l \in Range(LampStates)} \cup {(3 :> s) : s \in SensorStates} \cup Trios))
  @@ (2 :> {(5 :> Lamp(1, TRUE, FALSE, 3)), (6 :> Sensor(1, FALSE)), ThreeZones})

MCAlarms == {[region_id |-> 1, ts_unix |-> t, device_type |-> 2, zone_id |-> 9, code |-> 3,
              uri |-> <<1, 2>>, text |-> <<>>] : t \in {0, 255}}

Kind(k, recs) == {[kind |-> k, rec |-> r] : r \in recs}
S == {<<>>, <<3, 0, 2>>}
B == {0, 3}
W == {1, 66, 255}
MCMessages ==
  Kind("REGISTER_REQ", [type : {1, 2}, uri : S, zone_id : W])
  \cup Kind("REGISTER_ACK", [server_time_unix : W])
  \cup Kind("STATUS_REPORT", [uri : S, zone_id : W, on : {0, 1}, intensity : B, power_mw : W])
  \cup Kind("CMD", [uri : S, cmd : {1, 2, 3}, value : B])
  \cup Kind("FAULT_REPORT", [uri : S, zone_id : W, code : B, text : S])
  \cup Kind("ALARM_ACK", [region_id : W, ts_unix : W, ok : {0, 1}])
  \cup Kind("REGION_SYNC_ACK", [region_id : W, version : W, ok : {0, 1}])
=============================================================================
