---------------------------- MODULE CentralStore ----------------------------
(***************************************************************************)
(* What the central server keeps in memory (central_store.hpp): the last   *)
(* aggregate of every region and the list of the newest alarms.  Each      *)
(* method runs under mu_, so it is an operator from the old value to the   *)
(* new one, applied by the handlers of CentralSync, RegionAlarms and       *)
(* AdminReport.  A vector of (zone, figure) entries without duplicates,    *)
(* which is all that Registry's aggregates produce, is a function.         *)
(***************************************************************************)
EXTENDS Integers, Sequences

\* regions_ and alarms_ when the process starts
NoRegions == <<>>
NoAlarms  == <<>>

\* A plausible slip: the aggregate's maps are not cleared before the new
\* entries are assigned.
UpsertWithoutClear(regions, region_id, version, power, summary) ==
  LET old == IF region_id \in DOMAIN regions THEN regions[region_id].power ELSE <<>>
      new == [version |-> version,
              power   |-> [z \in DOMAIN old \cup DOMAIN power |->
                             IF z \in DOMAIN power THEN power[z] ELSE old[z]],
              summary |-> summary]
  IN  [r \in DOMAIN regions \cup {region_id} |-> IF r = region_id THEN new ELSE regions[r]]

\* upsert_region: whatever version the region had before, its aggregate is
\* replaced, zones that are no longer reported included
UpsertRegion(regions, region_id, version, power, summary) ==
  [r \in DOMAIN regions \cup {region_id} |->
     IF r = region_id THEN [version |-> version, power |-> power, summary |-> summary]
                      ELSE regions[r]]

\* A plausible slip: the list is cut at the wrong end.
PushAlarmCutBack(alarms, a, max) ==
  LET longer == Append(alarms, a)
  IN  IF Len(longer) > max THEN SubSeq(longer, 1, max) ELSE longer

\* push_alarm: the oldest alarms give way when there are more than max
PushAlarm(alarms, a, max) ==
  LET longer == Append(alarms, a)
  IN  IF Len(longer) > max THEN SubSeq(longer, Len(longer) - max + 1, Len(longer)) ELSE longer
=============================================================================
