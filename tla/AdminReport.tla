----------------------------- MODULE AdminReport ----------------------------
(***************************************************************************)
(* From the devices to the administrator's screen: the registry's          *)
(* aggregates (registry.hpp), the REGION_SYNC_UP and ALARM_UP messages     *)
(* that carry them, CentralStore, encode_admin_snapshot and what admin_cli *)
(* prints of it; and every other message of the protocol on its way.  Each *)
(* message really goes through ProtoCodec.  A transfer is one step: the    *)
(* orders in which transfers can happen and fail are CentralSync's and     *)
(* RegionAlarms' subject.                                                  *)
(***************************************************************************)
EXTENDS ProtoCodec, CentralStore, FiniteSetsExt

CONSTANTS Registries,    \* region -> the contents of its registry that are tried
          Alarms,        \* the ALARM_UP records that are tried
          Messages,      \* the other messages that are tried: records with kind and rec
          MaxAlarms,     \* MAX_ALARMS of push_alarm: 2000 in the code
          MaxPushed,     \* bound: alarms sent
          MaxBody        \* the longest body read_header accepts: 1 MB in the code

ASSUME RegistriesAssumption ==
  \A r \in DOMAIN Registries : \A d \in Registries[r] : \A u \in DOMAIN d :
    d[u].type \in {"LUMINAIRE", "SENSOR"} /\ d[u].zone_id \in Nat /\ d[u].power_mw \in Nat

VARIABLES dev,        \* region -> its registry at the last sync central took; no entry before
          regions_,   \* CentralStore::regions_
          alarms_,    \* CentralStore::alarms_
          pushed,     \* history: the alarms sent, in order
          wire        \* the last message sent: kind and rec

vars == <<dev, regions_, alarms_, pushed, wire>>

-----------------------------------------------------------------------------
(* Registry: the loops over dev_ *)

Bump(f, z, n, width) ==
  [x \in DOMAIN f \cup {z} |-> IF x # z THEN f[x]
                               ELSE ((IF z \in DOMAIN f THEN f[z] ELSE 0) + n) % width]

\* zone_power_sum: lamps with a zone add their power to the zone's entry
zone_power_sum(d) ==
  LET add(u, sums) == IF d[u].type = "LUMINAIRE" /\ d[u].zone_id # 0
                      THEN Bump(sums, d[u].zone_id, d[u].power_mw, U32) ELSE sums
  IN  FoldSet(add, <<>>, DOMAIN d)

NoDevices == [lamp_total |-> 0, lamp_on |-> 0, lamp_fault |-> 0, sensor_total |-> 0, sensor_fault |-> 0]

\* zone_device_summary: one accumulator per zone that has a device
zone_device_summary(d) ==
  LET bit(b) == IF b THEN 1 ELSE 0
      counted(acc, st) ==
        IF st.type = "LUMINAIRE"
        THEN [acc EXCEPT !.lamp_total = (@ + 1) % U16, !.lamp_on = (@ + bit(st.on)) % U16,
                         !.lamp_fault = (@ + bit(st.fault)) % U16]
        ELSE [acc EXCEPT !.sensor_total = (@ + 1) % U16, !.sensor_fault = (@ + bit(st.fault)) % U16]
      add(u, acc) == LET z == d[u].zone_id
                     IN  IF z = 0 THEN acc
                         ELSE [x \in DOMAIN acc \cup {z} |-> IF x # z THEN acc[x]
                                 ELSE counted(IF z \in DOMAIN acc THEN acc[z] ELSE NoDevices, d[u])]
  IN  FoldSet(add, <<>>, DOMAIN d)

-----------------------------------------------------------------------------
(* Messages.  An unordered_map is sent as a list of its entries in some      *)
(* order; zone_device_summary sorts its entries by zone.                     *)

EntriesAt(zs, f, entry(_, _)) == [i \in 1 .. Len(zs) |-> entry(zs[i], f[zs[i]])]
Entries(f, entry(_, _))       == EntriesAt(SetToSeq(DOMAIN f), f, entry)
SortedEntries(f, entry(_, _)) == EntriesAt(SetToSortSeq(DOMAIN f, <), f, entry)

PowerEntry(z, p) == [zone_id |-> z, power |-> p]
SummaryEntry(z, s) == [x \in DOMAIN s \cup {"zone_id"} |-> IF x = "zone_id" THEN z ELSE s[x]]

\* do_sync_once's RegionSyncUp
SyncOf(r, d, v) ==
  [region_id |-> r, version |-> v,
   zone_power_sum |-> Entries(zone_power_sum(d), PowerEntry),
   zone_device_summary |-> SortedEntries(zone_device_summary(d), SummaryEntry)]

PowerMap(s) == [z \in {e.zone_id : e \in Range(s)} |->
                  (CHOOSE e \in Range(s) : e.zone_id = z).power]
SummaryMap(s) == [z \in {e.zone_id : e \in Range(s)} |->
                    LET e == CHOOSE e \in Range(s) : e.zone_id = z
                    IN  [f \in DOMAIN NoDevices |-> e[f]]]

\* encode_admin_snapshot: the zones of zone_power_mw, a zone without a summary
\* with zeros, and the alarms at the end
SnapshotRec ==
  [regions |-> Entries(regions_, LAMBDA r, agg :
     [region_id |-> r, version |-> agg.version,
      zones |-> Entries(agg.power, LAMBDA z, p :
        LET s == IF z \in DOMAIN agg.summary THEN agg.summary[z] ELSE NoDevices
        IN  [f \in DOMAIN NoDevices \cup {"zone_id", "power"} |->
               CASE f = "zone_id" -> z [] f = "power" -> p [] OTHER -> s[f]])]),
   alarms |-> alarms_]

encode_admin_snapshot ==
  <<list("regions",
      <<u32("region_id"), u32("version"),
        list("zones", <<u32("zone_id"), u32("power"), u16("lamp_total"), u16("lamp_on"),
                        u16("lamp_fault"), u16("sensor_total"), u16("sensor_fault")>>)>>),
    list("alarms", <<u32("region_id"), u32("ts_unix"), u8("device_type"), u32("zone_id"),
                     u8("code"), str("uri"), str("text")>>)>>

\* admin_cli's print_snapshot, which prints while it decodes: a layout tells what
\* a whole snapshot is shown as.  Of one that ends too soon it has printed what
\* came before the end when it says "decode snapshot fail".
print_snapshot ==
  <<list("regions",
      <<u32("region_id"), u32("version"),
        list("zones", <<u32("zone_id"), u32("power"), u16("lamp_total"), u16("lamp_on"),
                        u16("lamp_fault"), u16("sensor_total"), u16("sensor_fault")>>)>>),
    optlist("alarms", <<u32("region_id"), u32("ts_unix"), u8("device_type"), u32("zone_id"),
                        u8("code"), str("uri"), str("text")>>)>>

\* the two layouts of each kind of message
Put(kind) ==
  CASE kind = "REGISTER_REQ" -> encode_register_req [] kind = "REGISTER_ACK" -> encode_register_ack
    [] kind = "STATUS_REPORT" -> encode_status_report [] kind = "CMD" -> encode_command
    [] kind = "FAULT_REPORT" -> encode_fault_report
    [] kind = "ALARM_UP" -> encode_alarm_up [] kind = "ALARM_ACK" -> encode_alarm_ack
    [] kind = "REGION_SYNC_UP" -> encode_region_sync_up
    [] kind = "REGION_SYNC_ACK" -> encode_region_sync_ack
    [] kind = "ADMIN_SNAPSHOT_ACK" -> encode_admin_snapshot
Get(kind) ==
  CASE kind = "REGISTER_REQ" -> decode_register_req [] kind = "REGISTER_ACK" -> decode_register_ack
    [] kind = "STATUS_REPORT" -> decode_status_report [] kind = "CMD" -> decode_command
    [] kind = "FAULT_REPORT" -> decode_fault_report
    [] kind = "ALARM_UP" -> decode_alarm_up [] kind = "ALARM_ACK" -> decode_alarm_ack
    [] kind = "REGION_SYNC_UP" -> decode_region_sync_up
    [] kind = "REGION_SYNC_ACK" -> decode_region_sync_ack
    [] kind = "ADMIN_SNAPSHOT_ACK" -> print_snapshot

Bytes(m) == Encode(Put(m.kind), m.rec)

\* The limit of the one who reads such a message: the sessions of both servers and
\* the lamp have one, the region's client and admin_cli, which read the
\* acknowledgements and the snapshot, have none.
Limit(kind) == IF kind \in {"REGION_SYNC_ACK", "ALARM_ACK", "ADMIN_SNAPSHOT_ACK"}
               THEN NoLimit ELSE MaxBody

\* read_header accepts the length of this message
Accepted(m) == Limit(m.kind) = NoLimit \/ 1 + Len(Bytes(m)) <= Limit(m.kind)

-----------------------------------------------------------------------------

Init ==
  /\ dev = <<>>
  /\ regions_ = NoRegions
  /\ alarms_ = NoAlarms
  /\ pushed = <<>>
  /\ wire = [kind |-> "REGISTER_ACK", rec |-> [server_time_unix |-> 1]]

\* A message between a device and its region, or an acknowledgement.  It does
\* not touch what central stores (bound: tried before the first report only).
Transmit(m) ==
  /\ DOMAIN dev = {} /\ pushed = <<>>
  /\ wire' = m
  /\ UNCHANGED <<dev, regions_, alarms_, pushed>>

\* A region with registry d reports; central decodes and stores what it got.
SyncUp(r, d, v) ==
  LET m   == [kind |-> "REGION_SYNC_UP", rec |-> SyncOf(r, d, v)]
      got == Decode(decode_region_sync_up, Bytes(m))
  IN  /\ Accepted(m)
      /\ wire' = m
      /\ dev' = [x \in DOMAIN dev \cup {r} |-> IF x = r THEN d ELSE dev[x]]
      /\ regions_' = IF got.ok
                     THEN UpsertRegion(regions_, got.v.region_id, got.v.version,
                                       PowerMap(got.v.zone_power_sum),
                                       SummaryMap(got.v.zone_device_summary))
                     ELSE regions_
      /\ UNCHANGED <<alarms_, pushed>>

\* A report with too many zones: central's read_header ends the session, and the
\* region's last report stays as it was.
SyncRefused(r, d, v) ==
  LET m == [kind |-> "REGION_SYNC_UP", rec |-> SyncOf(r, d, v)]
  IN  /\ ~Accepted(m)
      /\ wire' = m
      /\ UNCHANGED <<dev, regions_, alarms_, pushed>>

\* ALARM_UP: central decodes and stores (it is never too long: put_str keeps its
\* two strings under 64 KB)
AlarmUp(a) ==
  LET m   == [kind |-> "ALARM_UP", rec |-> a]
      got == Decode(decode_alarm_up, Bytes(m))
  IN  /\ Len(pushed) < MaxPushed
      /\ wire' = m
      /\ pushed' = Append(pushed, a)
      /\ alarms_' = IF got.ok THEN PushAlarm(alarms_, got.v, MaxAlarms) ELSE alarms_
      /\ UNCHANGED <<dev, regions_>>

\* ADMIN_SNAPSHOT_REQ: the snapshot of this state
AdminAsks ==
  /\ wire' = [kind |-> "ADMIN_SNAPSHOT_ACK", rec |-> SnapshotRec]
  /\ UNCHANGED <<dev, regions_, alarms_, pushed>>

Next == \/ \E m \in Messages : Transmit(m)
        \/ \E r \in DOMAIN Registries : \E d \in Registries[r] : SyncUp(r, d, 1) \/ SyncRefused(r, d, 1)
        \/ \E a \in Alarms : AlarmUp(a)
        \/ AdminAsks

Spec == Init /\ [][Next]_vars

-----------------------------------------------------------------------------

\* Whatever is sent arrives as it was: every decode_ function gives back the
\* record its encode_ function was given, and uses up its bytes.
RoundTrip ==
  LET got == Decode(Get(wire.kind), Bytes(wire))
  IN  got.ok /\ got.v = wire.rec /\ got.rest = <<>>

\* A message cut short is refused (the get_ functions throw; admin_cli has then
\* printed what came before the cut) and not taken for another one, except where the decoder means to accept it: a REGION_SYNC_UP
\* that ends before its summaries, and a snapshot that ends before its alarms,
\* which are taken as the same message without them.
ShortRefused ==
  LET all == Bytes(wire)
  IN  \A n \in 0 .. Len(all) - 1 :
        LET got == Decode(Get(wire.kind), SubSeq(all, 1, n))
        IN  got.ok => \/ /\ wire.kind = "REGION_SYNC_UP"
                         /\ got.v = [wire.rec EXCEPT !.zone_device_summary = <<>>]
                      \/ /\ wire.kind = "ADMIN_SNAPSHOT_ACK"
                         /\ got.v = [wire.rec EXCEPT !.alarms = <<>>]

\* Frames keep their bounds in the stream: of two frames in a row and of any
\* beginning of them, the reader takes exactly the frames that are complete, and
\* none where its read_header refuses the length.  A snapshot is taken whatever its
\* length: read_frame of admin_cli has no limit.
FramesKept ==
  LET body   == <<wire.kind>> \o Bytes(wire)
      frame  == Frame(wire.kind, Bytes(wire))
      stream == frame \o frame
  IN  \A n \in 0 .. Len(stream) :
        ReadFrames(SubSeq(stream, 1, n), Limit(wire.kind)) =
          IF Accepted(wire) THEN [i \in 1 .. n \div Len(frame) |-> body] ELSE <<>>

\* what the administrator reads: the snapshot of this state, printed
Screen == Decode(print_snapshot, Encode(encode_admin_snapshot, SnapshotRec)).v

LampsIn(d, z)   == {u \in DOMAIN d : d[u].type = "LUMINAIRE" /\ d[u].zone_id = z}
SensorsIn(d, z) == {u \in DOMAIN d : d[u].type = "SENSOR" /\ d[u].zone_id = z}

\* what a zone's line should say
LineOf(d, z) ==
  [zone_id |-> z, power |-> MapThenSumSet(LAMBDA u : d[u].power_mw, LampsIn(d, z)) % U32,
   lamp_total |-> Cardinality(LampsIn(d, z)),
   lamp_on |-> Cardinality({u \in LampsIn(d, z) : d[u].on}),
   lamp_fault |-> Cardinality({u \in LampsIn(d, z) : d[u].fault}),
   sensor_total |-> Cardinality(SensorsIn(d, z)),
   sensor_fault |-> Cardinality({u \in SensorsIn(d, z) : d[u].fault})]

\* The screen shows each region of which central took a report, with the zones (other than
\* 0) that have a lamp and the true figures of each.  A zone with sensors only
\* has no line: encode_admin_snapshot goes through zone_power_mw.
AdminSeesRegistry ==
  /\ {x.region_id : x \in Range(Screen.regions)} = DOMAIN dev
  /\ Len(Screen.regions) = Cardinality(DOMAIN dev)
  /\ \A x \in Range(Screen.regions) :
       LET d == dev[x.region_id]
       IN  Range(x.zones) = {LineOf(d, z) : z \in {d[u].zone_id : u \in
                               {w \in DOMAIN d : d[w].type = "LUMINAIRE" /\ d[w].zone_id # 0}}}

\* The screen shows the newest MaxAlarms alarms, oldest first.
AdminSeesAlarms ==
  LET n == Len(pushed)
  IN  Screen.alarms = IF n <= MaxAlarms THEN pushed ELSE SubSeq(pushed, n - MaxAlarms + 1, n)
=============================================================================
