----------------------------- MODULE CentralSync ----------------------------
(***************************************************************************)
(* Regions report to the central server: the sync chain of each            *)
(* RegionSyncClient (region_sync_client.hpp), the CentralSession that each *)
(* of its connections meets (central_tls_server.hpp), CentralStore and     *)
(* DbWriter, composed.                                                     *)
(*                                                                         *)
(* The chain of a region is one sequence of handlers: the timer with the   *)
(* two reads of the registry, connect (with resolve), handshake, write,    *)
(* and the read of the answer (header, then body).  Every handler that     *)
(* gets an error arms the timer again.  The central server runs its        *)
(* handlers on two threads or more, and an error at the region says        *)
(* nothing of what the session at the other end still does, so a report    *)
(* can be handled after its region gave it up, and after a newer one.      *)
(*                                                                         *)
(* The figures of a report are an input: zone_power_sum and                *)
(* zone_device_summary take the registry's lock one after the other, so    *)
(* they need not agree.  AdminReport models how they are computed.         *)
(***************************************************************************)
EXTENDS CentralStore, DbWriter

CONSTANTS Regions, Zones,
          Figures,       \* records of what the registry's two reads returned
          MaxVersion,    \* bound: syncs of a region, one fewer after a restart
          MaxRestarts    \* bound: restarts of a region

ASSUME FiguresAssumption == \A f \in Figures : DOMAIN f.power \subseteq Zones
ASSUME BoundAssumption == MaxVersion \in Nat /\ MaxRestarts \in Nat

VARIABLES stage,      \* region -> what its chain waits for
          version_,
          up,         \* region -> the RegionSyncUp the chain's handlers carry
          inc,        \* history: region -> how often it was restarted
          sess,       \* the connections that central still has a session for
          regions_,   \* CentralStore::regions_
          confirmed,  \* region -> the report on_ack last printed
          failed,     \* history: regions that met an error or a restart
          logged      \* history: the events log_region_sync was called with

regionvars == <<stage, version_, up, inc, confirmed, failed>>
vars == <<regionvars, sess, regions_, logged, dbvars>>

Stage == {"timer", "connect", "handshake", "write", "read"}

NoReport(r) == [region |-> r, inc |-> 0, version |-> 0, power |-> <<>>, summary |-> <<>>]

Report == [region : Regions, inc : 0 .. MaxRestarts, version : 0 .. MaxVersion,
           power   : {f.power : f \in Figures} \cup {<<>>},
           summary : {f.summary : f \in Figures} \cup {<<>>}]

EventOf(rep) == [region |-> rep.region, inc |-> rep.inc, version |-> rep.version,
                 power |-> rep.power]

Session == [up : Report, st : {"open", "frame", "logged", "answered"}]

TypeOK ==
  /\ stage \in [Regions -> Stage]
  /\ version_ \in [Regions -> 0 .. MaxVersion]
  /\ up \in [Regions -> Report]
  /\ inc \in [Regions -> 0 .. MaxRestarts]
  /\ sess \subseteq Session
  /\ DOMAIN regions_ \subseteq Regions
  /\ DOMAIN confirmed \subseteq Regions
  /\ failed \subseteq Regions
  /\ worker \in {"wait", "sync", "rows"}
  /\ todo \subseteq Zones

Init ==
  /\ stage = [r \in Regions |-> "timer"]
  /\ version_ = [r \in Regions |-> 0]
  /\ up = [r \in Regions |-> NoReport(r)]
  /\ inc = [r \in Regions |-> 0]
  /\ confirmed = <<>>
  /\ failed = {}
  /\ sess = {}
  /\ regions_ = NoRegions
  /\ logged = {}
  /\ DbInit

-----------------------------------------------------------------------------
(* The region *)

\* A plausible slip: a version counts the reports that were acknowledged, so
\* that an attempt after an error repeats it.
DoSyncVersionOfAck(r) ==
  /\ stage[r] = "timer"
  /\ version_[r] + inc[r] < MaxVersion
  /\ version_' = [version_ EXCEPT ![r] =
                    IF @ = 0 \/ (r \in DOMAIN confirmed /\ confirmed[r].version = @) THEN @ + 1 ELSE @]
  /\ \E f \in Figures :
       up' = [up EXCEPT ![r] = [region |-> r, inc |-> inc[r], version |-> version_'[r],
                                power |-> f.power, summary |-> f.summary]]
  /\ stage' = [stage EXCEPT ![r] = "connect"]
  /\ UNCHANGED <<inc, confirmed, failed, sess, regions_, logged, dbvars>>

\* do_sync_once, from start or from the timer: the next version, and the
\* figures of the registry
DoSyncOnce(r) ==
  /\ stage[r] = "timer"
  /\ version_[r] + inc[r] < MaxVersion
  /\ version_' = [version_ EXCEPT ![r] = @ + 1]
  /\ \E f \in Figures :
       up' = [up EXCEPT ![r] = [region |-> r, inc |-> inc[r], version |-> version_[r] + 1,
                                power |-> f.power, summary |-> f.summary]]
  /\ stage' = [stage EXCEPT ![r] = "connect"]
  /\ UNCHANGED <<inc, confirmed, failed, sess, regions_, logged, dbvars>>

\* connect succeeds: do_accept has made a session for the connection
Connected(r) ==
  /\ stage[r] = "connect"
  /\ stage' = [stage EXCEPT ![r] = "handshake"]
  /\ sess' = sess \cup {[up |-> up[r], st |-> "open"]}
  /\ UNCHANGED <<version_, up, inc, confirmed, failed, regions_, logged, dbvars>>

HandshakeDone(r) ==
  /\ stage[r] = "handshake"
  /\ [up |-> up[r], st |-> "open"] \in sess
  /\ stage' = [stage EXCEPT ![r] = "write"]
  /\ UNCHANGED <<version_, up, inc, confirmed, failed, sess, regions_, logged, dbvars>>

\* A plausible slip: the timer is armed without waiting for the
\* acknowledgement.
WrittenWithoutRead(r) ==
  /\ stage[r] = "write"
  /\ stage' = [stage EXCEPT ![r] = "timer"]
  /\ sess' = {IF s.up = up[r] /\ s.st = "open" THEN [s EXCEPT !.st = "frame"] ELSE s : s \in sess}
  /\ UNCHANGED <<version_, up, inc, confirmed, failed, regions_, logged, dbvars>>

\* send_sync: the write succeeds once the bytes are in the socket's buffer,
\* whether or not central still has its end of the connection
Written(r) ==
  /\ stage[r] = "write"
  /\ stage' = [stage EXCEPT ![r] = "read"]
  /\ sess' = {IF s.up = up[r] /\ s.st = "open" THEN [s EXCEPT !.st = "frame"] ELSE s : s \in sess}
  /\ UNCHANGED <<version_, up, inc, confirmed, failed, regions_, logged, dbvars>>

\* read_ack: on_ack and schedule_tick
AckRead(r) ==
  /\ stage[r] = "read"
  /\ [up |-> up[r], st |-> "answered"] \in sess
  /\ stage' = [stage EXCEPT ![r] = "timer"]
  /\ confirmed' = [x \in DOMAIN confirmed \cup {r} |-> IF x = r THEN up[r] ELSE confirmed[x]]
  /\ sess' = sess \ {[up |-> up[r], st |-> "answered"]}
  /\ UNCHANGED <<version_, up, inc, failed, regions_, logged, dbvars>>

\* The region gives a connection up.  A session that has the report goes on
\* with it; one without it, or with its answer sent, has nothing left to do.
GivenUp(r) == {s \in sess : s.up # up[r] \/ s.st \in {"frame", "logged"}}

\* A plausible slip: the error branch of the reads returns without arming the
\* timer.
ChainFailsSilently(r) ==
  /\ stage[r] \in {"connect", "handshake", "write", "read"}
  /\ stage' = [stage EXCEPT ![r] = IF @ = "read" THEN "ended" ELSE "timer"]
  /\ failed' = failed \cup {r}
  /\ sess' = GivenUp(r)
  /\ UNCHANGED <<version_, up, inc, confirmed, regions_, logged, dbvars>>

\* the if(ec) branch of every handler of the chain: schedule_tick
ChainFails(r) ==
  /\ stage[r] \in {"connect", "handshake", "write", "read"}
  /\ stage' = [stage EXCEPT ![r] = "timer"]
  /\ failed' = failed \cup {r}
  /\ sess' = GivenUp(r)
  /\ UNCHANGED <<version_, up, inc, confirmed, regions_, logged, dbvars>>

\* the regional server is started again: version_ is 0 again
\* (a restart after the last sync of the bound would only repeat it)
RegionRestarts(r) ==
  /\ inc[r] < MaxRestarts
  /\ version_[r] + inc[r] < MaxVersion
  /\ inc' = [inc EXCEPT ![r] = @ + 1]
  /\ version_' = [version_ EXCEPT ![r] = 0]
  /\ up' = [up EXCEPT ![r] = NoReport(r)]
  /\ stage' = [stage EXCEPT ![r] = "timer"]
  /\ failed' = failed \cup {r}
  /\ sess' = GivenUp(r)
  /\ UNCHANGED <<confirmed, regions_, logged, dbvars>>

-----------------------------------------------------------------------------
(* The central server *)

\* A plausible slip: the session answers as soon as the report is decoded.
SessionAnswersFirst(s) ==
  /\ s \in sess
  /\ s.st = "frame"
  /\ LogRegionSync(EventOf(s.up))
  /\ logged' = logged \cup {EventOf(s.up)}
  /\ sess' = (sess \ {s}) \cup {[s EXCEPT !.st = "answered"]}
  /\ UNCHANGED <<regionvars, regions_>>

\* read_header, read_body and on_message up to log_region_sync
SessionLogs(s) ==
  /\ s \in sess
  /\ s.st = "frame"
  /\ LogRegionSync(EventOf(s.up))
  /\ logged' = logged \cup {EventOf(s.up)}
  /\ sess' = (sess \ {s}) \cup {[s EXCEPT !.st = "logged"]}
  /\ UNCHANGED <<regionvars, regions_>>

\* on_message: upsert_region, and the acknowledgement on its way
SessionShows(s) ==
  /\ s \in sess
  /\ s.st = "logged"
  /\ regions_' = UpsertRegion(regions_, s.up.region, s.up.version, s.up.power, s.up.summary)
  /\ sess' = (sess \ {s}) \cup {[s EXCEPT !.st = "answered"]}
  /\ UNCHANGED <<regionvars, logged, dbvars>>

\* an error ends the session, or the connection is gone and nobody is told;
\* a handler that runs on_message runs to its end
SessionEnds(s) ==
  /\ s \in sess
  /\ s.st # "logged"
  /\ sess' = sess \ {s}
  /\ UNCHANGED <<regionvars, regions_, logged, dbvars>>

\* the central server is started again: only the tables are left
CentralRestarts ==
  /\ sess' = {}
  /\ regions_' = NoRegions
  /\ DbCrash
  /\ UNCHANGED <<regionvars, logged>>

DbStep == WorkerStep /\ UNCHANGED <<regionvars, sess, regions_, logged>>

RegionStep(r) ==
  \/ DoSyncOnce(r) \/ Connected(r) \/ HandshakeDone(r) \/ Written(r) \/ AckRead(r)
  \/ ChainFails(r) \/ RegionRestarts(r)

SessionStep(s) == SessionLogs(s) \/ SessionShows(s) \/ SessionEnds(s)

Next == \/ \E r \in Regions : RegionStep(r)
        \/ \E s \in sess : SessionStep(s)
        \/ CentralRestarts
        \/ DbStep

\* The timer fires, both ends run what is ready, and resolve, connect and
\* write end, well or not; nothing bounds a handshake or an answer that does
\* not come, and nothing makes an error or a restart happen.
ChainMoves(r) ==
  DoSyncOnce(r) \/ Connected(r) \/ HandshakeDone(r) \/ Written(r) \/ AckRead(r)
ServerMoves == \E s \in sess : SessionLogs(s) \/ SessionShows(s)

Fairness == /\ \A r \in Regions : WF_vars(ChainMoves(r))
            /\ WF_vars(ServerMoves)
            /\ WF_vars(DbStep)

Spec     == Init /\ [][Next]_vars
FairSpec == Spec /\ Fairness

-----------------------------------------------------------------------------
(* Properties *)

\* The reports that can still be shown, and those shown whose region waits
Pending == {up[r] : r \in {x \in Regions : stage[x] = "connect"}}
           \cup {s.up : s \in {t \in sess : t.st # "answered"}}
Answered == {s.up : s \in {t \in sess : t.st = "answered"}}

Reports == INSTANCE RegionReports WITH pending <- Pending, answered <- Answered, shown <- regions_

\* The chains, sessions and store implement RegionReports: central shows of a
\* region only a whole report of that region, each report at most once, and
\* the region reads an acknowledgement (read_ack) only of a report that
\* upsert_region has stored.
ReportsRefined == Reports!Spec

\* As long as a region has met neither an error nor a restart, central shows
\* its last report whenever its timer runs, and is one version behind at most
\* while a report is under way: do_sync_once is not called again before the
\* acknowledgement was read.
NewestShown ==
  \A r \in DOMAIN regions_ :
    r \notin failed => \/ regions_[r].version = version_[r]
                       \/ regions_[r].version = version_[r] - 1 /\ stage[r] # "timer"

\* The history per version (region_zone_power) has one figure for a region,
\* version and zone, however often the region gave reports up.  Only a restart
\* of the region, which counts its versions from 0, adds a second.
OneFigurePerVersion ==
  \A a, b \in region_zone_power :
    /\ <<a.region, a.version, a.zone>> = <<b.region, b.version, b.zone>>
    /\ inc[a.region] = 0
    => a.power = b.power

\* A row of region_zone_power has its row of region_sync: handle inserts that
\* one first and a failing insert ends the event.
NoOrphanRows == \A row \in region_zone_power : <<row.region, row.version>> \in region_sync

Recorded(e) == RowsOf(e) \subseteq region_zone_power /\ <<e.region, e.version>> \in region_sync

\* Every event logged is queued, in the worker's hands, written to the last
\* row, or lost to a failed insert or a restart of central: the repeated
\* versions of a restarted region, which INSERT OR IGNORE skips in
\* region_sync, included.
LoggedIsRecorded ==
  \A e \in logged :
    \/ \E i \in 1 .. Len(q_) : q_[i] = e
    \/ worker # "wait" /\ ev = e
    \/ e \in dropped
    \/ Recorded(e)

\* The chain of a region comes back to its timer again and again, unless it
\* ends up in a handshake or waiting for an answer on a connection that
\* central has no session for any more: read_ack has no timeout.
SyncGoesOn ==
  \A r \in Regions :
    \/ []<>(stage[r] = "timer")
    \/ <>[](stage[r] \in {"handshake", "read"} /\ \A s \in sess : s.up # up[r])

\* A failing insert loses its own event at most: every other event logged is
\* written to the last row in the end, unless central is restarted before.
EventIsWritten ==
  \A e \in {EventOf(rep) : rep \in Report} :
    e \in logged ~> (Recorded(e) \/ e \in dropped)
=============================================================================
