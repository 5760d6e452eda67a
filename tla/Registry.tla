------------------------------ MODULE Registry ------------------------------
(***************************************************************************)
(* The regional server's device registry (registry.hpp, class Registry):   *)
(* the map dev_ of the last known state of each device and the index       *)
(* zone_to_lamps_ that motion commands are dispatched through.  Each       *)
(* operation runs under one scoped_lock of mu_, so each is one atomic      *)
(* formula here; the callers (RegionalServer) are the ones that take       *)
(* several of them in a row without a lock in between.                     *)
(*                                                                         *)
(* A device state keeps the fields a property can tell apart: type, zone,  *)
(* on, fault and last_seen_ms.  intensity and power_mw are functions of    *)
(* the STATUS_REPORT they came with and are left out.                      *)
(***************************************************************************)
EXTENDS Integers

CONSTANTS Lamps,      \* uris of the luminaires
          Sensors,    \* uris of the sensors
          Zones,      \* nonzero zone ids
          Timeout,    \* comm_lost timeout, in clock units
          ClockMod    \* 2^64 in the code: the width of now_ms()

ASSUME UriAssumption == Lamps \cap Sensors = {}
ASSUME ZoneAssumption == Zones \subseteq Nat \ {0}
ASSUME ClockAssumption == /\ Timeout \in Nat
                          /\ ClockMod \in Nat
                          /\ Timeout < ClockMod

VARIABLES dev,           \* dev_: uri -> DeviceState, NoDevice when absent
          zone_to_lamps  \* zone_to_lamps_: zone -> uris (push_back only after find: a set)

regvars == <<dev, zone_to_lamps>>

Uris    == Lamps \cup Sensors
ZoneIds == Zones \cup {0}

DeviceState == [type : {"NONE", "LUMINAIRE", "SENSOR"}, zone : ZoneIds,
                on : BOOLEAN, fault : BOOLEAN, seen : Nat]

NoDevice == [type |-> "NONE", zone |-> 0, on |-> FALSE, fault |-> FALSE, seen |-> 0]

\* a DeviceState with on, intensity and power_mw zero and no fault
FreshDevice(type, zone) ==
  [type |-> type, zone |-> zone, on |-> FALSE, fault |-> FALSE, seen |-> 0]

Known(uri) == dev[uri].type # "NONE"

RegInit == /\ dev = [u \in Uris |-> NoDevice]
           /\ zone_to_lamps = [z \in Zones |-> {}]

-----------------------------------------------------------------------------

\* A plausible slip: the index is only maintained for a device seen for the
\* first time.
UpsertIndexOnce(uri, st) ==
  /\ dev' = [dev EXCEPT ![uri] = st]
  /\ zone_to_lamps' = IF st.type = "LUMINAIRE" /\ st.zone # 0 /\ ~Known(uri)
                      THEN [zone_to_lamps EXCEPT ![st.zone] = @ \cup {uri}]
                      ELSE zone_to_lamps

\* upsert: the entry is overwritten and a lamp joins the index of its zone.
\* It never leaves the index of a zone it was in before.
Upsert(uri, st) ==
  /\ dev' = [dev EXCEPT ![uri] = st]
  /\ zone_to_lamps' = IF st.type = "LUMINAIRE" /\ st.zone # 0
                      THEN [zone_to_lamps EXCEPT ![st.zone] = @ \cup {uri}]
                      ELSE zone_to_lamps

\* now - last_seen_ms on uint64_t
Elapsed(at, seen) == (at - seen) % ClockMod

\* A plausible slip: a device is lost at the timeout, not after it.
CommLostAtTimeout(at) ==
  {u \in Uris : ~dev[u].fault /\ dev[u].seen > 0 /\ Elapsed(at, dev[u].seen) >= Timeout}

\* the uris detect_comm_lost returns for the clock value at
CommLost(at) ==
  {u \in Uris : ~dev[u].fault /\ dev[u].seen > 0 /\ Elapsed(at, dev[u].seen) > Timeout}

\* A plausible slip: the devices are returned but not marked.
DetectWithoutMark(at) == UNCHANGED <<dev, zone_to_lamps>>

\* detect_comm_lost: every lost device is marked with a fault
DetectCommLost(at) ==
  /\ dev' = [u \in Uris |-> IF u \in CommLost(at)
                            THEN [dev[u] EXCEPT !.fault = TRUE] ELSE dev[u]]
  /\ UNCHANGED zone_to_lamps

\* get_lamps_in_zone: empty for a zone that has no entry (zone 0 included)
GetLampsInZone(z) == IF z \in Zones THEN zone_to_lamps[z] ELSE {}
=============================================================================
