----------------------------- MODULE ProtoCodec -----------------------------
(***************************************************************************)
(* The messages of the binary protocol (proto.hpp) over the fields of      *)
(* WireFields.  What an encode_ or decode_ function does is the list of    *)
(* its put_ or get_ calls, a layout; the two layouts of a message are      *)
(* written down from their own functions, so that they can disagree.  A    *)
(* field of a layout has a name and a type: u8, u16, u32, str or list (an  *)
(* u16 count and so many elements of the layout "of"; "opt" when the       *)
(* decoder takes an empty rest for an empty list).                         *)
(***************************************************************************)
EXTENDS WireFields, SequencesExt

u8(f)  == [t |-> "u8", f |-> f]
u16(f) == [t |-> "u16", f |-> f]
u32(f) == [t |-> "u32", f |-> f]
str(f) == [t |-> "str", f |-> f]
list(f, of) == [t |-> "list", f |-> f, of |-> of, opt |-> FALSE]
optlist(f, of) == [t |-> "list", f |-> f, of |-> of, opt |-> TRUE]

-----------------------------------------------------------------------------
(* Writing the fields of a layout *)

RECURSIVE Encode(_, _)
PutField(fd, v) ==
  IF fd.t # "list" THEN PutScalar(fd.t, v)
  ELSE put_u16(Len(v)) \o FlattenSeq([i \in 1 .. Len(v) |-> Encode(fd.of, v[i])])
Encode(layout, rec) ==
  FlattenSeq([i \in 1 .. Len(layout) |-> PutField(layout[i], rec[layout[i].f])])

-----------------------------------------------------------------------------
(* Reading them back: what was read and the bytes left, or Underflow *)

RECURSIVE GetFields(_, _, _), GetElements(_, _, _)
GetElements(of, n, b) ==
  IF n = 0 THEN [ok |-> TRUE, v |-> <<>>, rest |-> b]
  ELSE LET first  == GetFields(of, 1, b)
           others == GetElements(of, n - 1, first.rest)
       IN  IF ~first.ok \/ ~others.ok THEN Underflow
           ELSE [ok |-> TRUE, v |-> <<first.v>> \o others.v, rest |-> others.rest]
GetField(fd, b) ==
  IF fd.t # "list" THEN GetScalar(fd.t, b)
  ELSE IF fd.opt /\ b = <<>> THEN [ok |-> TRUE, v |-> <<>>, rest |-> b]
  ELSE LET n == get_u16(b)
       IN  IF n.ok THEN GetElements(fd.of, n.v, n.rest) ELSE Underflow
GetFields(layout, i, b) ==
  IF i > Len(layout) THEN [ok |-> TRUE, v |-> [f \in {} |-> 0], rest |-> b]
  ELSE LET x  == GetField(layout[i], b)
           xs == GetFields(layout, i + 1, x.rest)
       IN  IF ~x.ok \/ ~xs.ok THEN Underflow
           ELSE [ok |-> TRUE, rest |-> xs.rest,
                 v |-> [f \in DOMAIN xs.v \cup {layout[i].f} |->
                          IF f = layout[i].f THEN x.v ELSE xs.v[f]]]

\* a decode_ function takes what it needs; it does not look at what is left
Decode(layout, b) == GetFields(layout, 1, b)

-----------------------------------------------------------------------------
(* The encode_ functions *)

encode_register_req   == <<u8("type"), str("uri"), u32("zone_id")>>
encode_register_ack   == <<u32("server_time_unix")>>
encode_alarm_up       == <<u32("region_id"), u32("ts_unix"), u8("device_type"), u32("zone_id"),
                           u8("code"), str("uri"), str("text")>>
encode_alarm_ack      == <<u32("region_id"), u32("ts_unix"), u8("ok")>>

\* A plausible slip: two fields of one width are written in the wrong order.
encode_status_swapped == <<str("uri"), u32("zone_id"), u8("intensity"), u8("on"), u32("power_mw")>>

encode_status_report  == <<str("uri"), u32("zone_id"), u8("on"), u8("intensity"), u32("power_mw")>>
encode_command        == <<str("uri"), u8("cmd"), u8("value")>>
encode_fault_report   == <<str("uri"), u32("zone_id"), u8("code"), str("text")>>
encode_region_sync_up ==
  <<u32("region_id"), u32("version"),
    list("zone_power_sum", <<u32("zone_id"), u32("power")>>),
    list("zone_device_summary", <<u32("zone_id"), u16("lamp_total"), u16("lamp_on"),
                                  u16("lamp_fault"), u16("sensor_total"), u16("sensor_fault")>>)>>
encode_region_sync_ack == <<u32("region_id"), u32("version"), u8("ok")>>

(* The decode_ functions *)

decode_register_req   == <<u8("type"), str("uri"), u32("zone_id")>>
decode_register_ack   == <<u32("server_time_unix")>>
decode_alarm_up       == <<u32("region_id"), u32("ts_unix"), u8("device_type"), u32("zone_id"),
                           u8("code"), str("uri"), str("text")>>
decode_alarm_ack      == <<u32("region_id"), u32("ts_unix"), u8("ok")>>
decode_status_report  == <<str("uri"), u32("zone_id"), u8("on"), u8("intensity"), u32("power_mw")>>
decode_command        == <<str("uri"), u8("cmd"), u8("value")>>
decode_fault_report   == <<str("uri"), u32("zone_id"), u8("code"), str("text")>>
decode_region_sync_up ==
  <<u32("region_id"), u32("version"),
    list("zone_power_sum", <<u32("zone_id"), u32("power")>>),
    optlist("zone_device_summary", <<u32("zone_id"), u16("lamp_total"), u16("lamp_on"),
                                     u16("lamp_fault"), u16("sensor_total"), u16("sensor_fault")>>)>>
decode_region_sync_ack == <<u32("region_id"), u32("version"), u8("ok")>>

-----------------------------------------------------------------------------
\* the limit of a reader that has none (a limit of 0 would refuse every frame)
NoLimit == 0

\* the bodies a reader takes out of a stream of bytes: header, body, and again
RECURSIVE ReadFrames(_, _)
ReadFrames(b, max) ==
  LET f == IF max = NoLimit THEN ReadFrame(b) ELSE ReadFrameUpTo(b, max)
  IN  IF f.ok THEN <<f.v>> \o ReadFrames(f.rest, max) ELSE <<>>
=============================================================================
