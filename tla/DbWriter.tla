------------------------------ MODULE DbWriter ------------------------------
(***************************************************************************)
(* The database writer of the central server (db.cpp): handlers append to  *)
(* q_ under mu_, one worker thread takes the events out and inserts their  *)
(* rows.  Each sqlite3_step is a transaction of its own, and it can fail:  *)
(* the central and the regional servers open the same sls.db without a     *)
(* busy timeout (central_server.cpp:28, regional_server.cpp:177), so an    *)
(* insert meets SQLITE_BUSY whenever another process is writing.           *)
(* worker_main catches the exception and drops the rest of the event.      *)
(*                                                                         *)
(* Modelled for the event the central server logs, RegionSyncEvent.  An    *)
(* event carries the run of the region that sent it (inc), which is        *)
(* history: neither the wire nor the tables hold it.                       *)
(***************************************************************************)
EXTENDS Integers, Sequences

VARIABLES q_,
          worker,             \* where worker_main is: "wait", "sync", "rows"
          ev,                 \* the event it handles
          todo,               \* its zones that have no row yet
          region_sync,        \* table: (region, version), unique
          region_zone_power,  \* table: one row per event and zone
          dropped             \* history: events that lost rows

dbvars == <<q_, worker, ev, todo, region_sync, region_zone_power, dropped>>

NoEvent == [region |-> 0, inc |-> 0, version |-> 0, power |-> <<>>]

DbInit == /\ q_ = <<>>
          /\ worker = "wait"
          /\ ev = NoEvent
          /\ todo = {}
          /\ region_sync = {}
          /\ region_zone_power = {}
          /\ dropped = {}

RowsOf(e) == {[region |-> e.region, inc |-> e.inc, version |-> e.version,
               zone |-> z, power |-> e.power[z]] : z \in DOMAIN e.power}

-----------------------------------------------------------------------------

\* log_region_sync, enqueue: running_ is set for the life of the process
LogRegionSync(e) ==
  /\ q_' = Append(q_, e)
  /\ UNCHANGED <<worker, ev, todo, region_sync, region_zone_power, dropped>>

\* worker_main: the front of q_ is moved out
WorkerTakes ==
  /\ worker = "wait"
  /\ q_ # <<>>
  /\ ev' = Head(q_)
  /\ q_' = Tail(q_)
  /\ worker' = "sync"
  /\ UNCHANGED <<todo, region_sync, region_zone_power, dropped>>

\* A plausible slip: a version that is already in region_sync is taken for a
\* duplicate of the whole event.
InsertSyncSkip ==
  /\ worker = "sync"
  /\ region_sync' = region_sync \cup {<<ev.region, ev.version>>}
  /\ worker' = "rows"
  /\ todo' = IF <<ev.region, ev.version>> \in region_sync THEN {} ELSE DOMAIN ev.power
  /\ UNCHANGED <<q_, ev, region_zone_power, dropped>>

\* handle(RegionSyncEvent): INSERT OR IGNORE INTO region_sync
InsertSync ==
  /\ worker = "sync"
  /\ region_sync' = region_sync \cup {<<ev.region, ev.version>>}
  /\ worker' = "rows"
  /\ todo' = DOMAIN ev.power
  /\ UNCHANGED <<q_, ev, region_zone_power, dropped>>

\* ... and INSERT INTO region_zone_power for one zone after the other
InsertPower ==
  /\ worker = "rows"
  /\ \E z \in todo :
       /\ region_zone_power' = region_zone_power \cup
            {[region |-> ev.region, inc |-> ev.inc, version |-> ev.version,
              zone |-> z, power |-> ev.power[z]]}
       /\ todo' = todo \ {z}
  /\ UNCHANGED <<q_, worker, ev, region_sync, dropped>>

HandleReturns ==
  /\ worker = "rows"
  /\ todo = {}
  /\ worker' = "wait"
  /\ ev' = NoEvent
  /\ UNCHANGED <<q_, todo, region_sync, region_zone_power, dropped>>

\* Two plausible slips: the exception ends the worker; or check_sqlite is
\* caught where it is thrown and handle goes on to the zones.
StepFailsKills ==
  /\ worker = "sync" \/ (worker = "rows" /\ todo # {})
  /\ worker' = "dead"
  /\ ev' = NoEvent
  /\ todo' = {}
  /\ dropped' = dropped \cup {ev}
  /\ UNCHANGED <<q_, region_sync, region_zone_power>>

StepFailsGoesOn ==
  /\ worker = "sync" \/ (worker = "rows" /\ todo # {})
  /\ worker' = "rows"
  /\ todo' = IF worker = "sync" THEN DOMAIN ev.power ELSE todo \ {CHOOSE z \in todo : TRUE}
  /\ dropped' = dropped \cup {ev}
  /\ UNCHANGED <<q_, ev, region_sync, region_zone_power>>

\* check_sqlite throws out of handle and worker_main swallows the exception:
\* the rows inserted so far stay, the others are never written
StepFails ==
  /\ worker = "sync" \/ (worker = "rows" /\ todo # {})
  /\ worker' = "wait"
  /\ ev' = NoEvent
  /\ todo' = {}
  /\ dropped' = dropped \cup {ev}
  /\ UNCHANGED <<q_, region_sync, region_zone_power>>

WorkerStep == WorkerTakes \/ InsertSync \/ InsertPower \/ HandleReturns \/ StepFails

\* The process ends and is started again: the queue and the event in hand are
\* gone, the tables are on disk (start applies CREATE TABLE IF NOT EXISTS).
DbCrash ==
  /\ dropped' = dropped \cup {q_[i] : i \in 1 .. Len(q_)}
                        \cup (IF worker = "wait" THEN {} ELSE {ev})
  /\ q_' = <<>>
  /\ worker' = "wait"
  /\ ev' = NoEvent
  /\ todo' = {}
  /\ UNCHANGED <<region_sync, region_zone_power>>
=============================================================================
