------------------------- MODULE CentralSync_proofs -------------------------
(***************************************************************************)
(* CentralSync, for every number of regions, zones, reports and restarts:  *)
(* its types, that it implements RegionReports, that central keeps up with *)
(* a region that meets no error, and what the tables hold.                 *)
(***************************************************************************)
EXTENDS CentralSync, TLAPS

Powers == {f.power : f \in Figures} \cup {<<>>}

Event == [region : Regions, inc : 0 .. MaxRestarts, version : 0 .. MaxVersion, power : Powers]

\* what is queued, in the worker's hands or in the history is an event
EventsOK ==
  /\ q_ \in Seq(Event)
  /\ logged \subseteq Event
  /\ worker # "wait" => ev \in Event

Types == TypeOK /\ EventsOK

\* The event of a report is an event.
LEMMA EventOfType == \A rep \in Report : EventOf(rep) \in Event
BY DEF Report, EventOf, Event, Powers

\* Zones of an event are zones.
LEMMA EventZones == \A e \in Event : DOMAIN e.power \subseteq Zones
<1>1. DOMAIN <<>> = {}
  OBVIOUS
<1> QED BY <1>1, FiguresAssumption DEF Event, Powers

\* A session that moves on keeps its report.
LEMMA SessionMoves ==
  ASSUME NEW s \in Session, NEW x \in {"open", "frame", "logged", "answered"}
  PROVE  /\ [s EXCEPT !.st = x] \in Session
         /\ [s EXCEPT !.st = x].up = s.up
         /\ [s EXCEPT !.st = x].st = x
BY DEF Session

\* Written changes at most one session, from open to frame.
LEMMA WrittenSessions ==
  ASSUME Types, NEW r \in Regions, Written(r)
  PROVE  /\ sess' \subseteq Session
         /\ \A t \in sess' : \E s \in sess : t.up = s.up
         /\ \A t \in sess' : \E s \in sess : t.up = s.up /\ (t.st = "answered" <=> s.st = "answered")
         /\ \A s \in sess : \E t \in sess' : t.up = s.up /\ (t.st = "answered" <=> s.st = "answered")
         /\ (\A s, t \in sess : s.up = t.up => s = t) => (\A s, t \in sess' : s.up = t.up => s = t)
<1> DEFINE f(s) == IF s.up = up[r] /\ s.st = "open" THEN [s EXCEPT !.st = "frame"] ELSE s
<1>1. sess' = {f(s) : s \in sess}
  BY DEF Written
<1>2. \A s \in sess : /\ f(s) \in Session
                      /\ f(s).up = s.up
                      /\ f(s) = s \/ (f(s).st = "frame" /\ s.st = "open")
  <2> SUFFICES ASSUME NEW s \in sess
               PROVE  /\ f(s) \in Session
                      /\ f(s).up = s.up
                      /\ f(s) = s \/ (f(s).st = "frame" /\ s.st = "open")
    OBVIOUS
  <2>1. s \in Session
    BY DEF Types, TypeOK
  <2> QED BY <2>1, SessionMoves
<1> HIDE DEF f
<1>3. \A s \in sess : f(s).st = "answered" <=> s.st = "answered"
  BY <1>2
<1> QED BY <1>1, <1>2, <1>3

\* The initial state is of its types.
LEMMA TypesInit == Init => Types
<1> SUFFICES ASSUME Init PROVE Types
  OBVIOUS
<1> USE BoundAssumption
<1>1. \A r \in Regions : NoReport(r) \in Report
  BY DEF NoReport, Report
<1>2. DOMAIN <<>> = {}
  OBVIOUS
<1>3. TypeOK
  BY <1>1, <1>2 DEF Init, DbInit, TypeOK, Stage, NoRegions
<1>4. EventsOK
  BY DEF Init, DbInit, EventsOK
<1> QED BY <1>3, <1>4 DEF Types

\* Every step keeps the types, whichever handler takes it.
LEMMA TypesStep == Types /\ [Next]_vars => Types'
<1> SUFFICES ASSUME Types, [Next]_vars PROVE Types'
  OBVIOUS
<1> USE BoundAssumption
<1>1. ASSUME NEW r \in Regions, DoSyncOnce(r) PROVE Types'
  <2>1. PICK f \in Figures :
          up' = [up EXCEPT ![r] = [region |-> r, inc |-> inc[r], version |-> version_[r] + 1,
                                   power |-> f.power, summary |-> f.summary]]
    BY <1>1 DEF DoSyncOnce
  <2>2. version_[r] + 1 \in 0 .. MaxVersion /\ inc[r] \in 0 .. MaxRestarts
    BY <1>1 DEF DoSyncOnce, Types, TypeOK
  <2>3. up' \in [Regions -> Report]
    BY <2>1, <2>2 DEF Types, TypeOK, Report
  <2> QED BY <1>1, <2>2, <2>3 DEF DoSyncOnce, Types, TypeOK, EventsOK, Stage, dbvars
<1>2. ASSUME NEW r \in Regions, Connected(r) PROVE Types'
  <2>1. [up |-> up[r], st |-> "open"] \in Session
    BY DEF Types, TypeOK, Session
  <2> QED BY <1>2, <2>1 DEF Connected, Types, TypeOK, EventsOK, Stage, dbvars
<1>3. ASSUME NEW r \in Regions, HandshakeDone(r) PROVE Types'
  BY <1>3 DEF HandshakeDone, Types, TypeOK, EventsOK, Stage, dbvars
<1>4. ASSUME NEW r \in Regions, Written(r) PROVE Types'
  <2>1. sess' \subseteq Session
    BY <1>4, WrittenSessions
  <2> QED BY <1>4, <2>1 DEF Written, Types, TypeOK, EventsOK, Stage, dbvars
<1>5. ASSUME NEW r \in Regions, AckRead(r) PROVE Types'
  BY <1>5 DEF AckRead, Types, TypeOK, EventsOK, Stage, dbvars
<1>6. ASSUME NEW r \in Regions, ChainFails(r) PROVE Types'
  BY <1>6 DEF ChainFails, GivenUp, Types, TypeOK, EventsOK, Stage, dbvars
<1>7. ASSUME NEW r \in Regions, RegionRestarts(r) PROVE Types'
  <2>1. NoReport(r) \in Report
    BY DEF NoReport, Report
  <2>2. sess' \subseteq Session
    BY <1>7 DEF RegionRestarts, GivenUp, Types, TypeOK
  <2> QED BY <1>7, <2>1, <2>2 DEF RegionRestarts, Types, TypeOK, EventsOK, Stage, dbvars
<1>8. ASSUME NEW s \in sess, SessionLogs(s) PROVE Types'
  <2>1. s \in Session /\ s.up \in Report
    BY DEF Types, TypeOK, Session
  <2>2. sess' \subseteq Session
    BY <1>8, <2>1, SessionMoves DEF SessionLogs, Types, TypeOK
  <2>3. EventsOK'
    BY <1>8, <2>1, EventOfType DEF SessionLogs, LogRegionSync, Types, EventsOK
  <2> QED BY <1>8, <2>2, <2>3 DEF SessionLogs, LogRegionSync, Types, TypeOK, regionvars
<1>9. ASSUME NEW s \in sess, SessionShows(s) PROVE Types'
  <2>1. s \in Session /\ s.up.region \in Regions
    BY DEF Types, TypeOK, Session, Report
  <2>2. sess' \subseteq Session
    BY <1>9, <2>1, SessionMoves DEF SessionShows, Types, TypeOK
  <2>3. DOMAIN regions_' \subseteq Regions
    BY <1>9, <2>1 DEF SessionShows, UpsertRegion, Types, TypeOK
  <2> QED BY <1>9, <2>2, <2>3 DEF SessionShows, Types, TypeOK, EventsOK, regionvars, dbvars
<1>10. ASSUME NEW s \in sess, SessionEnds(s) PROVE Types'
  BY <1>10 DEF SessionEnds, Types, TypeOK, EventsOK, regionvars, dbvars
<1>11. CASE CentralRestarts
  <2>1. DOMAIN regions_' = {}
    BY <1>11 DEF CentralRestarts, NoRegions
  <2> QED BY <1>11, <2>1 DEF CentralRestarts, DbCrash, Types, TypeOK, EventsOK, regionvars
<1>12. CASE DbStep
  <2>1. CASE WorkerTakes
    <3>1. Head(q_) \in Event /\ Tail(q_) \in Seq(Event)
      BY <2>1 DEF WorkerTakes, Types, EventsOK
    <3> QED BY <1>12, <2>1, <3>1 DEF DbStep, WorkerTakes, Types, TypeOK, EventsOK, regionvars
  <2>2. CASE InsertSync
    BY <1>12, <2>2, EventZones DEF DbStep, InsertSync, Types, TypeOK, EventsOK, regionvars
  <2>3. CASE InsertPower
    BY <1>12, <2>3 DEF DbStep, InsertPower, Types, TypeOK, EventsOK, regionvars
  <2>4. CASE HandleReturns
    BY <1>12, <2>4 DEF DbStep, HandleReturns, Types, TypeOK, EventsOK, regionvars
  <2>5. CASE StepFails
    BY <1>12, <2>5 DEF DbStep, StepFails, Types, TypeOK, EventsOK, regionvars
  <2> QED BY <1>12, <2>1, <2>2, <2>3, <2>4, <2>5 DEF DbStep, WorkerStep
<1>13. CASE UNCHANGED vars
  BY <1>13 DEF vars, regionvars, dbvars, Types, TypeOK, EventsOK
<1> QED BY <1>1, <1>2, <1>3, <1>4, <1>5, <1>6, <1>7, <1>8, <1>9, <1>10, <1>11, <1>12, <1>13
        DEF Next, RegionStep, SessionStep

\* Every state of the composition is of its types: the chains of the regions,
\* the sessions, the store and the worker.
THEOREM TypeCorrect == Spec => []TypeOK
<1>1. Types => TypeOK
  BY DEF Types
<1> QED BY TypesInit, TypesStep, <1>1, PTL DEF Spec

-----------------------------------------------------------------------------
(* The sessions and the chains *)

Older(x) == \/ x.inc < inc[x.region]
            \/ x.inc = inc[x.region] /\ x.version <= version_[x.region]

\* a chain under way carries its region's newest version; no session has a
\* report from the future; a report has one session, and none before connect
ChainUp    == \A r \in Regions : stage[r] # "timer" =>
                up[r].region = r /\ up[r].inc = inc[r] /\ up[r].version = version_[r]
SessOlder  == \A s \in sess : Older(s.up)
SessUnique == \A s, t \in sess : s.up = t.up => s = t
NotYet     == \A r \in Regions : stage[r] = "connect" => \A s \in sess : s.up # up[r]

Chains == ChainUp /\ SessOlder /\ SessUnique /\ NotYet

\* What a step that only moves one session on does to the sessions.
LEMMA OneMoves ==
  ASSUME Types, Chains, NEW s \in sess, NEW x \in {"open", "frame", "logged", "answered"},
         sess' = (sess \ {s}) \cup {[s EXCEPT !.st = x]}, UNCHANGED regionvars
  PROVE  Chains'
<1>1. [s EXCEPT !.st = x].up = s.up
  BY SessionMoves DEF Types, TypeOK
<1>2. \A t \in sess' : \E w \in sess : t.up = w.up /\ (t = w \/ (w = s /\ t = [s EXCEPT !.st = x]))
  BY <1>1
<1>3. SessUnique'
  BY <1>1 DEF Chains, SessUnique
<1> QED BY <1>2, <1>3 DEF Chains, ChainUp, SessOlder, NotYet, Older, regionvars

\* What a step does that only drops sessions.
LEMMA SomeEnd ==
  ASSUME Chains, sess' \subseteq sess, UNCHANGED <<stage, version_, up, inc>>
  PROVE  Chains'
BY DEF Chains, ChainUp, SessOlder, SessUnique, NotYet, Older

\* Every step keeps the relation of chains and sessions.
LEMMA ChainsStep == Types /\ Chains /\ [Next]_vars => Chains'
<1> SUFFICES ASSUME Types, Chains, [Next]_vars PROVE Chains'
  OBVIOUS
<1> USE BoundAssumption
<1>0. \A s \in sess : /\ s \in Session /\ s.up \in Report /\ s.up.region \in Regions
                      /\ s.up.inc \in Int /\ s.up.version \in Int
  BY DEF Types, TypeOK, Session, Report
<1>a. \A r \in Regions : inc[r] \in Int /\ version_[r] \in Int
  BY DEF Types, TypeOK
<1>1. ASSUME NEW r \in Regions, DoSyncOnce(r) PROVE Chains'
  <2>1. /\ up'[r].region = r /\ up'[r].inc = inc[r] /\ up'[r].version = version_[r] + 1
        /\ \A q \in Regions \ {r} : up'[q] = up[q]
        /\ version_' = [version_ EXCEPT ![r] = @ + 1] /\ stage' = [stage EXCEPT ![r] = "connect"]
        /\ UNCHANGED <<inc, sess>>
    BY <1>1 DEF DoSyncOnce, Types, TypeOK
  <2>2. ChainUp'
    BY <2>1 DEF Chains, ChainUp, Types, TypeOK
  <2>3. SessOlder'
    BY <2>1, <1>0, <1>a DEF Chains, SessOlder, Older, Types, TypeOK
  <2>4. \A s \in sess : s.up # up'[r]
    BY <2>1, <1>0, <1>a DEF Chains, SessOlder, Older
  <2>5. NotYet'
    BY <2>1, <2>4 DEF Chains, NotYet, Types, TypeOK
  <2> QED BY <2>1, <2>2, <2>3, <2>5 DEF Chains, SessUnique
<1>2. ASSUME NEW r \in Regions, Connected(r) PROVE Chains'
  <2> DEFINE new == [up |-> up[r], st |-> "open"]
  <2>1. sess' = sess \cup {new} /\ new.up = up[r] /\ stage' = [stage EXCEPT ![r] = "handshake"]
        /\ UNCHANGED <<version_, up, inc>>
    BY <1>2 DEF Connected
  <2>2. /\ up[r].region = r /\ up[r].inc = inc[r] /\ up[r].version = version_[r]
        /\ \A s \in sess : s.up # up[r]
    BY <1>2 DEF Connected, Chains, ChainUp, NotYet
  <2> HIDE DEF new
  <2>3. SessOlder'
    BY <2>1, <2>2, <1>a DEF Chains, SessOlder, Older
  <2>4. SessUnique'
    BY <2>1, <2>2 DEF Chains, SessUnique
  <2>5. NotYet'
    BY <2>1, <2>2 DEF Chains, NotYet, ChainUp, Types, TypeOK
  <2> QED BY <2>1, <2>2, <2>3, <2>4, <2>5 DEF Chains, ChainUp, Types, TypeOK
<1>3. ASSUME NEW r \in Regions, HandshakeDone(r) PROVE Chains'
  BY <1>3 DEF HandshakeDone, Chains, ChainUp, SessOlder, SessUnique, NotYet, Older, Types, TypeOK
<1>4. ASSUME NEW r \in Regions, Written(r) PROVE Chains'
  <2>1. SessUnique'
    BY <1>4, WrittenSessions DEF Chains, SessUnique
  <2>2. \A t \in sess' : \E s \in sess : t.up = s.up
    BY <1>4, WrittenSessions
  <2> QED BY <1>4, <2>1, <2>2 DEF Written, Chains, ChainUp, SessOlder, NotYet, Older, Types, TypeOK
<1>5. ASSUME NEW r \in Regions, AckRead(r) PROVE Chains'
  BY <1>5 DEF AckRead, Chains, ChainUp, SessOlder, SessUnique, NotYet, Older, Types, TypeOK
<1>6. ASSUME NEW r \in Regions, ChainFails(r) PROVE Chains'
  BY <1>6 DEF ChainFails, GivenUp, Chains, ChainUp, SessOlder, SessUnique, NotYet, Older, Types, TypeOK
<1>7. ASSUME NEW r \in Regions, RegionRestarts(r) PROVE Chains'
  <2>1. /\ sess' \subseteq sess /\ inc' = [inc EXCEPT ![r] = @ + 1]
        /\ stage' = [stage EXCEPT ![r] = "timer"] /\ version_' = [version_ EXCEPT ![r] = 0]
        /\ \A q \in Regions \ {r} : up'[q] = up[q]
    BY <1>7 DEF RegionRestarts, GivenUp, Types, TypeOK
  <2>2. SessOlder'
    BY <2>1, <1>0, <1>a DEF Chains, SessOlder, Older, Types, TypeOK
  <2> QED BY <2>1, <2>2 DEF Chains, ChainUp, SessUnique, NotYet, Types, TypeOK
<1>8. ASSUME NEW s \in sess, SessionLogs(s) PROVE Chains'
  BY <1>8, OneMoves DEF SessionLogs
<1>9. ASSUME NEW s \in sess, SessionShows(s) PROVE Chains'
  BY <1>9, OneMoves DEF SessionShows
<1>10. ASSUME NEW s \in sess, SessionEnds(s) PROVE Chains'
  BY <1>10, SomeEnd DEF SessionEnds, regionvars
<1>11. CASE CentralRestarts
  BY <1>11, SomeEnd DEF CentralRestarts, regionvars
<1>12. CASE DbStep
  BY <1>12, SomeEnd DEF DbStep, regionvars
<1>13. CASE UNCHANGED vars
  BY <1>13, SomeEnd DEF vars, regionvars
<1> QED BY <1>1, <1>2, <1>3, <1>4, <1>5, <1>6, <1>7, <1>8, <1>9, <1>10, <1>11, <1>12, <1>13
        DEF Next, RegionStep, SessionStep

\* It holds when no chain and no session has begun.
LEMMA ChainsInit == Init => Chains
BY DEF Init, Chains, ChainUp, SessOlder, SessUnique, NotYet

-----------------------------------------------------------------------------
(* CentralSync implements RegionReports *)

\* What it takes for a report to be pending, or answered.
LEMMA PendingIs ==
  \A x : x \in Pending <=> \/ \E r \in Regions : stage[r] = "connect" /\ x = up[r]
                           \/ \E s \in sess : s.st # "answered" /\ x = s.up
BY DEF Pending

\* The same after a step.
LEMMA PendingIsNext ==
  \A x : x \in Pending' <=> \/ \E r \in Regions : stage'[r] = "connect" /\ x = up'[r]
                            \/ \E s \in sess' : s.st # "answered" /\ x = s.up
BY DEF Pending

\* A report is answered when a session has stored it.
LEMMA AnsweredIs ==
  /\ \A x : x \in Answered <=> \E s \in sess : s.st = "answered" /\ x = s.up
  /\ \A x : x \in Answered' <=> \E s \in sess' : s.st = "answered" /\ x = s.up
BY DEF Answered

\* What a step does to the reports that drops sessions and starts no chain.
LEMMA Loses ==
  ASSUME sess' \subseteq sess,
         \A r \in Regions : stage'[r] = "connect" => stage[r] = "connect" /\ up'[r] = up[r]
  PROVE  Pending' \subseteq Pending /\ Answered' \subseteq Answered
BY PendingIs, PendingIsNext, AnsweredIs

\* What a step does to the reports that moves sessions on, but not to
\* "answered", and starts no chain.
LEMMA Stays ==
  ASSUME UNCHANGED up, \A r \in Regions : stage'[r] = "connect" <=> stage[r] = "connect",
         \A t \in sess' : \E s \in sess : t.up = s.up /\ (t.st = "answered" <=> s.st = "answered"),
         \A s \in sess : \E t \in sess' : t.up = s.up /\ (t.st = "answered" <=> s.st = "answered")
  PROVE  Pending' = Pending /\ Answered' = Answered
<1>1. Pending' \subseteq Pending
  BY PendingIs, PendingIsNext
<1>2. Pending \subseteq Pending'
  BY PendingIs, PendingIsNext
<1>3. Answered' \subseteq Answered
  BY AnsweredIs
<1>4. Answered \subseteq Answered'
  BY AnsweredIs
<1> QED BY <1>1, <1>2, <1>3, <1>4

absvars == <<Pending, Answered, regions_, confirmed>>

\* Every step of a chain, a session or a restart is a step of RegionReports
\* or leaves its variables alone.
LEMMA RefinementStep == Types /\ Chains /\ [Next]_vars => [Reports!Next]_absvars
<1> SUFFICES ASSUME Types, Chains, [Next]_vars PROVE [Reports!Next]_absvars
  OBVIOUS
<1>0. \A s \in sess : /\ s \in Session /\ s.up \in Report /\ s.up.region \in Regions
                      /\ s.up.inc \in Int /\ s.up.version \in Int
  BY BoundAssumption DEF Types, TypeOK, Session, Report
<1>a. \A r \in Regions : inc[r] \in Int /\ version_[r] \in Int
  BY BoundAssumption DEF Types, TypeOK
<1>b. stage \in [Regions -> Stage] /\ up \in [Regions -> Report]
  BY DEF Types, TypeOK
<1>1. ASSUME NEW r \in Regions, DoSyncOnce(r) PROVE Reports!Next
  <2>1. /\ stage[r] = "timer" /\ stage' = [stage EXCEPT ![r] = "connect"]
        /\ up'[r].region = r /\ up'[r].inc = inc[r] /\ up'[r].version = version_[r] + 1
        /\ \A q \in Regions \ {r} : up'[q] = up[q]
        /\ UNCHANGED <<sess, regions_, confirmed>>
    BY <1>1, <1>b DEF DoSyncOnce
  <2>2. up'[r] \in Report
    BY <1>1, TypesStep DEF Types, TypeOK
  <2>3. \A s \in sess : s.up # up'[r]
    BY <2>1, <1>0, <1>a DEF Chains, SessOlder, Older
  <2>4. \A q \in Regions : stage[q] = "connect" => up[q] # up'[r]
    BY <2>1 DEF Chains, ChainUp
  <2>5. up'[r] \notin Pending \cup Answered
    BY <2>3, <2>4, PendingIs, AnsweredIs
  <2>6. Pending' = Pending \cup {up'[r]}
    <3>1. \A q \in Regions : stage'[q] = "connect" <=> q = r \/ stage[q] = "connect"
      BY <2>1, <1>b
    <3> QED BY <2>1, <3>1, PendingIs, PendingIsNext
  <2>7. Answered' = Answered
    BY <2>1 DEF Answered
  <2>8. Reports!Issue(up'[r])
    BY <2>1, <2>5, <2>6, <2>7 DEF Reports!Issue
  <2> QED BY <2>2, <2>8 DEF Reports!Next
<1>2. ASSUME NEW r \in Regions, Connected(r) PROVE UNCHANGED absvars
  <2> DEFINE new == [up |-> up[r], st |-> "open"]
  <2>1. /\ stage[r] = "connect" /\ stage' = [stage EXCEPT ![r] = "handshake"]
        /\ sess' = sess \cup {new} /\ new.up = up[r] /\ new.st = "open"
        /\ UNCHANGED <<up, regions_, confirmed>>
    BY <1>2 DEF Connected
  <2> HIDE DEF new
  <2>2. Pending' = Pending
    BY <2>1, <1>b, PendingIs, PendingIsNext
  <2>3. Answered' = Answered
    <3>1. Answered' \subseteq Answered
      BY <2>1, AnsweredIs
    <3>2. Answered \subseteq Answered'
      BY <2>1, AnsweredIs
    <3> QED BY <3>1, <3>2
  <2> QED BY <2>1, <2>2, <2>3 DEF absvars
<1>3. ASSUME NEW r \in Regions, HandshakeDone(r) PROVE UNCHANGED absvars
  <2>1. /\ \A q \in Regions : stage'[q] = "connect" <=> stage[q] = "connect"
        /\ UNCHANGED <<up, sess, regions_, confirmed>>
    BY <1>3, <1>b DEF HandshakeDone
  <2>2. Pending' = Pending /\ Answered' = Answered
    BY <2>1, Stays
  <2> QED BY <2>1, <2>2 DEF absvars
<1>4. ASSUME NEW r \in Regions, Written(r) PROVE UNCHANGED absvars
  <2>1. /\ \A q \in Regions : stage'[q] = "connect" <=> stage[q] = "connect"
        /\ UNCHANGED <<up, regions_, confirmed>>
    BY <1>4, <1>b DEF Written
  <2>2. /\ \A t \in sess' : \E s \in sess : t.up = s.up /\ (t.st = "answered" <=> s.st = "answered")
        /\ \A s \in sess : \E t \in sess' : t.up = s.up /\ (t.st = "answered" <=> s.st = "answered")
    BY <1>4, WrittenSessions
  <2>3. Pending' = Pending /\ Answered' = Answered
    BY <2>1, <2>2, Stays
  <2> QED BY <2>1, <2>3 DEF absvars
<1>5. ASSUME NEW r \in Regions, AckRead(r) PROVE Reports!Next
  <2> DEFINE old == [up |-> up[r], st |-> "answered"]
  <2>1. /\ stage[r] = "read" /\ \A q \in Regions : stage'[q] = "connect" <=> stage[q] = "connect"
        /\ old \in sess /\ sess' = sess \ {old} /\ old.up = up[r] /\ old.st = "answered"
        /\ UNCHANGED <<up, regions_>>
    BY <1>5, <1>b DEF AckRead
  <2>2. up[r].region = r /\ up[r] \in Report
    BY <2>1, <1>b DEF Chains, ChainUp
  <2>3. confirmed' = [x \in DOMAIN confirmed \cup {r} |-> IF x = r THEN up[r] ELSE confirmed[x]]
    BY <1>5 DEF AckRead
  <2> HIDE DEF old
  <2>4. Pending' = Pending
    <3>1. Pending' \subseteq Pending
      BY <2>1, PendingIs, PendingIsNext
    <3>2. Pending \subseteq Pending'
      BY <2>1, PendingIs, PendingIsNext
    <3> QED BY <3>1, <3>2
  <2>5. up[r] \in Answered /\ Answered' = Answered \ {up[r]}
    BY <2>1, AnsweredIs DEF Chains, SessUnique
  <2>6. Reports!Confirm(up[r])
    BY <2>1, <2>2, <2>3, <2>4, <2>5 DEF Reports!Confirm, Reports!Put
  <2> QED BY <2>2, <2>6 DEF Reports!Next
<1>6. ASSUME NEW r \in Regions, ChainFails(r) PROVE Reports!Next
  <2>1. /\ sess' \subseteq sess /\ UNCHANGED <<up, regions_, confirmed>>
        /\ \A q \in Regions : stage'[q] = "connect" => stage[q] = "connect"
    BY <1>6, <1>b DEF ChainFails, GivenUp
  <2>2. Pending' \subseteq Pending /\ Answered' \subseteq Answered
    BY <2>1, Loses
  <2> QED BY <2>1, <2>2 DEF Reports!Next, Reports!Lose
<1>7. ASSUME NEW r \in Regions, RegionRestarts(r) PROVE Reports!Next
  <2>1. /\ sess' \subseteq sess /\ UNCHANGED <<regions_, confirmed>>
        /\ \A q \in Regions : stage'[q] = "connect" => stage[q] = "connect" /\ up'[q] = up[q]
    BY <1>7, <1>b DEF RegionRestarts, GivenUp
  <2>2. Pending' \subseteq Pending /\ Answered' \subseteq Answered
    BY <2>1, Loses
  <2> QED BY <2>1, <2>2 DEF Reports!Next, Reports!Lose
<1>8. ASSUME NEW s \in sess, SessionLogs(s) PROVE UNCHANGED absvars
  <2> DEFINE new == [s EXCEPT !.st = "logged"]
  <2>1. new.up = s.up /\ new.st = "logged"
    BY <1>0, SessionMoves
  <2>2. /\ s.st = "frame" /\ sess' = (sess \ {s}) \cup {new}
        /\ UNCHANGED <<stage, up, regions_, confirmed>>
    BY <1>8 DEF SessionLogs, regionvars
  <2> HIDE DEF new
  <2>3. /\ \A t \in sess' : \E w \in sess : t.up = w.up /\ (t.st = "answered" <=> w.st = "answered")
        /\ \A w \in sess : \E t \in sess' : t.up = w.up /\ (t.st = "answered" <=> w.st = "answered")
    BY <2>1, <2>2
  <2>4. Pending' = Pending /\ Answered' = Answered
    BY <2>2, <2>3, Stays
  <2> QED BY <2>2, <2>4 DEF absvars
<1>9. ASSUME NEW s \in sess, SessionShows(s) PROVE Reports!Next
  <2> DEFINE new == [s EXCEPT !.st = "answered"]
  <2>1. new.up = s.up /\ new.st = "answered"
    BY <1>0, SessionMoves
  <2>2. /\ s.st = "logged" /\ sess' = (sess \ {s}) \cup {new}
        /\ regions_' = UpsertRegion(regions_, s.up.region, s.up.version, s.up.power, s.up.summary)
        /\ UNCHANGED <<stage, up, confirmed>>
    BY <1>9 DEF SessionShows, regionvars
  <2> HIDE DEF new
  <2>3. s.up \in Pending /\ Pending' = Pending \ {s.up}
    BY <2>1, <2>2, PendingIs, PendingIsNext DEF Chains, SessUnique, NotYet
  <2>4. Answered' = Answered \cup {s.up}
    BY <2>1, <2>2, AnsweredIs
  <2>5. Reports!Show(s.up)
    BY <2>2, <2>3, <2>4 DEF Reports!Show, Reports!Put, Reports!Content, UpsertRegion
  <2> QED BY <1>0, <2>5 DEF Reports!Next
<1>10. ASSUME NEW s \in sess, SessionEnds(s) PROVE Reports!Next
  <2>1. sess' \subseteq sess /\ UNCHANGED <<stage, up, regions_, confirmed>>
    BY <1>10 DEF SessionEnds, regionvars
  <2>2. Pending' \subseteq Pending /\ Answered' \subseteq Answered
    BY <2>1, Loses
  <2> QED BY <2>1, <2>2 DEF Reports!Next, Reports!Lose
<1>11. CASE CentralRestarts
  <2>1. sess' \subseteq sess /\ UNCHANGED <<stage, up, confirmed>> /\ regions_' = <<>>
    BY <1>11 DEF CentralRestarts, regionvars, NoRegions
  <2>2. Pending' \subseteq Pending /\ Answered' \subseteq Answered
    BY <2>1, Loses
  <2> QED BY <2>1, <2>2 DEF Reports!Next, Reports!Forget
<1>12. CASE DbStep
  BY <1>12 DEF DbStep, regionvars, absvars, Pending, Answered
<1>13. CASE UNCHANGED vars
  BY <1>13 DEF vars, regionvars, absvars, Pending, Answered
<1> QED BY <1>1, <1>2, <1>3, <1>4, <1>5, <1>6, <1>7, <1>8, <1>9, <1>10, <1>11, <1>12, <1>13
        DEF Next, RegionStep, SessionStep

\* The chains, the sessions and the store implement RegionReports: central
\* shows whole reports, each at most once, and read_ack ends well only for a
\* report that upsert_region has stored.
THEOREM Refinement == Spec => ReportsRefined
<1>1. Init => Reports!Init
  BY DEF Init, Reports!Init, Pending, Answered, NoRegions
<1>2. absvars = <<Pending, Answered, regions_, confirmed>>
  BY DEF absvars
<1> QED BY <1>1, TypesInit, TypesStep, ChainsInit, ChainsStep, RefinementStep, PTL
        DEF Spec, ReportsRefined, Reports!Spec, absvars

-----------------------------------------------------------------------------
(* The tables *)

RowOf(e, z) == [region |-> e.region, inc |-> e.inc, version |-> e.version,
                zone |-> z, power |-> e.power[z]]

\* while it inserts zones, the worker has inserted the event's row of
\* region_sync and those of the zones it is done with
InHand == worker = "rows" =>
            /\ <<ev.region, ev.version>> \in region_sync
            /\ \A z \in (DOMAIN ev.power) \ todo : RowOf(ev, z) \in region_zone_power

Tables == InHand /\ NoOrphanRows /\ LoggedIsRecorded

\* Rows are never taken back.
LEMMA RecordedStays ==
  ASSUME NEW e, Recorded(e), region_sync \subseteq region_sync',
         region_zone_power \subseteq region_zone_power'
  PROVE  Recorded(e)'
BY DEF Recorded, RowsOf

\* What a step does that leaves the writer and what was logged alone.
LEMMA OthersKeepTables ==
  ASSUME Types, Tables, UNCHANGED dbvars, UNCHANGED logged
  PROVE  Tables'
<1>1. InHand' /\ NoOrphanRows'
  BY DEF Tables, InHand, NoOrphanRows, dbvars, RowOf
<1>2. LoggedIsRecorded'
  BY DEF Tables, LoggedIsRecorded, Recorded, RowsOf, dbvars
<1> QED BY <1>1, <1>2 DEF Tables

\* Empty tables, and nothing logged.
LEMMA TablesInit == Init => Tables
BY DEF Init, DbInit, Tables, InHand, NoOrphanRows, LoggedIsRecorded

\* Every step of the worker, a failing insert and a restart included, keeps
\* what is known of the tables.
LEMMA TablesStep == Types /\ Tables /\ [Next]_vars => Tables'
<1> SUFFICES ASSUME Types, Tables, [Next]_vars PROVE Tables'
  OBVIOUS
<1>0. q_ \in Seq(Event)
  BY DEF Types, EventsOK
<1>1. ASSUME NEW r \in Regions, RegionStep(r) PROVE Tables'
  BY <1>1, OthersKeepTables
     DEF RegionStep, DoSyncOnce, Connected, HandshakeDone, Written, AckRead, ChainFails, RegionRestarts
<1>2. ASSUME NEW s \in sess, SessionLogs(s) PROVE Tables'
  <2> DEFINE e == EventOf(s.up)
  <2>1. /\ q_' = Append(q_, e) /\ logged' = logged \cup {e}
        /\ UNCHANGED <<worker, ev, todo, region_sync, region_zone_power, dropped>>
    BY <1>2 DEF SessionLogs, LogRegionSync
  <2>2. e \in Event
    BY EventOfType DEF Types, TypeOK, Session
  <2> HIDE DEF e
  <2>3. /\ Len(q_') = Len(q_) + 1 /\ q_'[Len(q_) + 1] = e /\ Len(q_) \in Nat
        /\ \A i \in 1 .. Len(q_) : q_'[i] = q_[i]
    BY <1>0, <2>1, <2>2
  <2>4. InHand' /\ NoOrphanRows'
    BY <2>1 DEF Tables, InHand, NoOrphanRows, RowOf
  <2>5. ASSUME NEW d \in logged'
        PROVE  \/ \E i \in 1 .. Len(q_') : q_'[i] = d
               \/ worker' # "wait" /\ ev' = d
               \/ d \in dropped'
               \/ Recorded(d)'
    <3>1. CASE d = e
      BY <2>3, <3>1
    <3>2. CASE d \in logged /\ \E i \in 1 .. Len(q_) : q_[i] = d
      BY <2>3, <3>2
    <3>3. CASE d \in logged /\ Recorded(d)
      BY <2>1, <3>3, RecordedStays
    <3> QED BY <2>1, <3>1, <3>2, <3>3 DEF Tables, LoggedIsRecorded
  <2> QED BY <2>4, <2>5 DEF Tables, LoggedIsRecorded
<1>3. ASSUME NEW s \in sess, SessionShows(s) \/ SessionEnds(s) PROVE Tables'
  BY <1>3, OthersKeepTables DEF SessionShows, SessionEnds
<1>4. CASE CentralRestarts
  <2>1. /\ dropped' = dropped \cup {q_[i] : i \in 1 .. Len(q_)}
                              \cup (IF worker = "wait" THEN {} ELSE {ev})
        /\ worker' = "wait" /\ UNCHANGED <<region_sync, region_zone_power, logged>>
    BY <1>4 DEF CentralRestarts, DbCrash
  <2>2. InHand' /\ NoOrphanRows'
    BY <2>1 DEF Tables, InHand, NoOrphanRows
  <2>3. ASSUME NEW d \in logged PROVE d \in dropped' \/ Recorded(d)'
    <3>1. CASE Recorded(d)
      BY <2>1, <3>1, RecordedStays
    <3> QED BY <2>1, <3>1 DEF Tables, LoggedIsRecorded
  <2> QED BY <2>1, <2>2, <2>3 DEF Tables, LoggedIsRecorded
<1>5. CASE DbStep
  <2>0. UNCHANGED logged
    BY <1>5 DEF DbStep
  <2>1. CASE WorkerTakes
    <3>1. /\ worker = "wait" /\ q_ # <<>> /\ ev' = Head(q_) /\ q_' = Tail(q_) /\ worker' = "sync"
          /\ UNCHANGED <<todo, region_sync, region_zone_power, dropped>>
      BY <2>1 DEF WorkerTakes
    <3>2. InHand' /\ NoOrphanRows'
      BY <3>1 DEF Tables, InHand, NoOrphanRows
    <3>3. ASSUME NEW d, NEW i \in 1 .. Len(q_), q_[i] = d
          PROVE  d = ev' \/ \E j \in 1 .. Len(q_') : q_'[j] = d
      <4>1. CASE i = 1
        BY <1>0, <3>1, <3>3, <4>1
      <4>2. CASE i # 1
        <5>1. i - 1 \in 1 .. Len(q_') /\ q_'[i - 1] = q_[i]
          BY <1>0, <3>1, <4>2
        <5> QED BY <3>3, <5>1
      <4> QED BY <4>1, <4>2
    <3>4. ASSUME NEW d \in logged
          PROVE  \/ \E j \in 1 .. Len(q_') : q_'[j] = d
                 \/ worker' # "wait" /\ ev' = d
                 \/ d \in dropped'
                 \/ Recorded(d)'
      <4>1. CASE Recorded(d)
        BY <3>1, <4>1, RecordedStays
      <4>2. CASE \E i \in 1 .. Len(q_) : q_[i] = d
        BY <3>1, <3>3, <4>2
      <4> QED BY <3>1, <4>1, <4>2 DEF Tables, LoggedIsRecorded
    <3> QED BY <2>0, <3>2, <3>4 DEF Tables, LoggedIsRecorded
  <2>2. CASE InsertSync
    <3>1. InHand'
      BY <2>2 DEF InsertSync, InHand
    <3>2. NoOrphanRows'
      BY <2>2 DEF InsertSync, Tables, NoOrphanRows
    <3>3. LoggedIsRecorded'
      BY <2>0, <2>2, RecordedStays DEF InsertSync, Tables, LoggedIsRecorded
    <3> QED BY <3>1, <3>2, <3>3 DEF Tables
  <2>3. CASE InsertPower
    <3>1. PICK z \in todo : /\ region_zone_power' = region_zone_power \cup {RowOf(ev, z)}
                            /\ todo' = todo \ {z}
      BY <2>3 DEF InsertPower, RowOf
    <3>2. worker = "rows" /\ UNCHANGED <<q_, worker, ev, region_sync, dropped>>
      BY <2>3 DEF InsertPower
    <3>3. RowOf(ev, z).region = ev.region /\ RowOf(ev, z).version = ev.version
      BY DEF RowOf
    <3>4. InHand'
      <4>1. \A y \in (DOMAIN ev.power) \ todo' : RowOf(ev, y) \in region_zone_power'
        BY <3>1, <3>2 DEF Tables, InHand
      <4> QED BY <3>2, <4>1 DEF Tables, InHand, RowOf
    <3>5. NoOrphanRows'
      BY <3>1, <3>2, <3>3 DEF Tables, InHand, NoOrphanRows
    <3>6. LoggedIsRecorded'
      BY <2>0, <3>1, <3>2, RecordedStays DEF Tables, LoggedIsRecorded
    <3> QED BY <3>4, <3>5, <3>6 DEF Tables
  <2>4. CASE HandleReturns
    <3>1. /\ worker = "rows" /\ todo = {} /\ worker' = "wait"
          /\ UNCHANGED <<q_, region_sync, region_zone_power, dropped>>
      BY <2>4 DEF HandleReturns
    <3>2. Recorded(ev)
      BY <3>1 DEF Tables, InHand, Recorded, RowsOf, RowOf
    <3>3. LoggedIsRecorded'
      BY <2>0, <3>1, <3>2, RecordedStays DEF Tables, LoggedIsRecorded
    <3> QED BY <3>1, <3>3 DEF Tables, InHand, NoOrphanRows
  <2>5. CASE StepFails
    <3>1. /\ worker' = "wait" /\ dropped' = dropped \cup {ev}
          /\ UNCHANGED <<q_, region_sync, region_zone_power>>
      BY <2>5 DEF StepFails
    <3>2. LoggedIsRecorded'
      BY <2>0, <3>1, RecordedStays DEF Tables, LoggedIsRecorded
    <3> QED BY <3>1, <3>2 DEF Tables, InHand, NoOrphanRows
  <2> QED BY <1>5, <2>1, <2>2, <2>3, <2>4, <2>5 DEF DbStep, WorkerStep
<1>6. CASE UNCHANGED vars
  BY <1>6, OthersKeepTables DEF vars
<1> QED BY <1>1, <1>2, <1>3, <1>4, <1>5, <1>6 DEF Next, SessionStep

\* Every row of region_zone_power has its row of region_sync, wherever an
\* insert failed or the process ended.
THEOREM NoOrphans == Spec => []NoOrphanRows
<1>1. Tables => NoOrphanRows
  BY DEF Tables
<1> QED BY TypesInit, TypesStep, TablesInit, TablesStep, <1>1, PTL DEF Spec

\* No event that log_region_sync was called with is forgotten: it is queued,
\* in the worker's hands, written, or lost to a failed insert or a restart.
THEOREM NothingForgotten == Spec => []LoggedIsRecorded
<1>1. Tables => LoggedIsRecorded
  BY DEF Tables
<1> QED BY TypesInit, TypesStep, TablesInit, TablesStep, <1>1, PTL DEF Spec

-----------------------------------------------------------------------------
(* What central shows of a region that meets no error *)

\* all sessions of the region are for the report it waits with, and there is
\* none while it does not wait; the version shown is the newest, or the one
\* before it until the new report is answered
Fresh(r) ==
  /\ stage[r] \in {"timer", "connect"} => \A s \in sess : s.up.region # r
  /\ \A s \in sess : s.up.region = r => s.up = up[r]
  /\ r \in DOMAIN regions_ =>
       /\ \/ regions_[r].version = version_[r]
          \/ regions_[r].version = version_[r] - 1 /\ stage[r] # "timer"
       /\ \A s \in sess : s.up.region = r /\ s.st = "answered" => regions_[r].version = version_[r]

AllFresh == \A r \in Regions \ failed : Fresh(r)

\* What a step does to a region that it leaves alone, sessions included.
LEMMA FreshStays ==
  ASSUME NEW q, Fresh(q), sess' \subseteq sess,
         stage'[q] = stage[q], up'[q] = up[q], version_'[q] = version_[q],
         q \in DOMAIN regions_' => q \in DOMAIN regions_ /\ regions_'[q] = regions_[q]
  PROVE  Fresh(q)'
BY DEF Fresh

\* Every step keeps central up with a region that has met no error.
LEMMA FreshStep == Types /\ Chains /\ AllFresh /\ [Next]_vars => AllFresh'
<1> SUFFICES ASSUME Types, Chains, AllFresh, [Next]_vars, NEW q \in Regions, q \notin failed'
             PROVE  Fresh(q)'
  BY DEF AllFresh
<1>0. \A s \in sess : s \in Session /\ s.up.region \in Regions
  BY DEF Types, TypeOK, Session, Report
<1>a. \A r \in Regions : version_[r] \in Int
  BY BoundAssumption DEF Types, TypeOK
<1>b. stage \in [Regions -> Stage] /\ up \in [Regions -> Report] /\ version_ \in [Regions -> 0 .. MaxVersion]
  BY DEF Types, TypeOK
<1>1. ASSUME NEW r \in Regions, DoSyncOnce(r) PROVE Fresh(q)'
  <2>1. /\ stage[r] = "timer" /\ stage' = [stage EXCEPT ![r] = "connect"]
        /\ version_' = [version_ EXCEPT ![r] = @ + 1]
        /\ \A x \in Regions \ {r} : up'[x] = up[x]
        /\ UNCHANGED <<sess, regions_, failed>>
    BY <1>1, <1>b DEF DoSyncOnce
  <2>2. Fresh(q)
    BY <2>1 DEF AllFresh
  <2>3. CASE q = r
    BY <1>a, <1>b, <2>1, <2>2, <2>3 DEF Fresh
  <2>4. CASE q # r
    BY <1>b, <2>1, <2>2, <2>4, FreshStays
  <2> QED BY <2>3, <2>4
<1>2. ASSUME NEW r \in Regions, Connected(r) PROVE Fresh(q)'
  <2> DEFINE new == [up |-> up[r], st |-> "open"]
  <2>1. /\ stage[r] = "connect" /\ stage' = [stage EXCEPT ![r] = "handshake"]
        /\ sess' = sess \cup {new} /\ new.up = up[r] /\ new.st = "open"
        /\ UNCHANGED <<up, version_, regions_, failed>>
    BY <1>2 DEF Connected
  <2>2. up[r].region = r
    BY <2>1 DEF Chains, ChainUp
  <2> HIDE DEF new
  <2>3. Fresh(q)
    BY <2>1 DEF AllFresh
  <2> QED BY <1>b, <2>1, <2>2, <2>3 DEF Fresh
<1>3. ASSUME NEW r \in Regions, HandshakeDone(r) PROVE Fresh(q)'
  <2>1. /\ stage[r] = "handshake" /\ stage' = [stage EXCEPT ![r] = "write"]
        /\ UNCHANGED <<up, version_, sess, regions_, failed>>
    BY <1>3 DEF HandshakeDone
  <2>2. Fresh(q)
    BY <2>1 DEF AllFresh
  <2> QED BY <1>b, <2>1, <2>2 DEF Fresh
<1>4. ASSUME NEW r \in Regions, Written(r) PROVE Fresh(q)'
  <2>1. /\ stage[r] = "write" /\ stage' = [stage EXCEPT ![r] = "read"]
        /\ UNCHANGED <<up, version_, regions_, failed>>
    BY <1>4 DEF Written
  <2>2. \A t \in sess' : \E s \in sess : t.up = s.up /\ (t.st = "answered" <=> s.st = "answered")
    BY <1>4, WrittenSessions
  <2>3. Fresh(q)
    BY <2>1 DEF AllFresh
  <2> QED BY <1>b, <2>1, <2>2, <2>3 DEF Fresh
<1>5. ASSUME NEW r \in Regions, AckRead(r) PROVE Fresh(q)'
  <2> DEFINE old == [up |-> up[r], st |-> "answered"]
  <2>1. /\ stage[r] = "read" /\ stage' = [stage EXCEPT ![r] = "timer"]
        /\ old \in sess /\ sess' = sess \ {old} /\ old.up = up[r] /\ old.st = "answered"
        /\ UNCHANGED <<up, version_, regions_, failed>>
    BY <1>5 DEF AckRead
  <2>2. up[r].region = r
    BY <2>1 DEF Chains, ChainUp
  <2> HIDE DEF old
  <2>3. Fresh(q)
    BY <2>1 DEF AllFresh
  <2>4. CASE q = r
    <3>1. \A s \in sess' : s.up.region # r
      BY <2>1, <2>2, <2>3, <2>4 DEF Fresh, Chains, SessUnique
    <3>2. r \in DOMAIN regions_ => regions_[r].version = version_[r]
      BY <2>1, <2>2, <2>3, <2>4 DEF Fresh
    <3> QED BY <1>b, <2>1, <2>4, <3>1, <3>2 DEF Fresh
  <2>5. CASE q # r
    BY <1>b, <2>1, <2>3, <2>5, FreshStays
  <2> QED BY <2>4, <2>5
<1>6. ASSUME NEW r \in Regions, ChainFails(r) PROVE Fresh(q)'
  <2>1. /\ q # r /\ q \notin failed /\ sess' \subseteq sess
        /\ stage' = [stage EXCEPT ![r] = "timer"] /\ UNCHANGED <<up, version_, regions_>>
    BY <1>6 DEF ChainFails, GivenUp
  <2> QED BY <1>b, <2>1, FreshStays DEF AllFresh
<1>7. ASSUME NEW r \in Regions, RegionRestarts(r) PROVE Fresh(q)'
  <2>1. /\ q # r /\ q \notin failed /\ sess' \subseteq sess
        /\ stage'[q] = stage[q] /\ up'[q] = up[q] /\ version_'[q] = version_[q]
        /\ UNCHANGED regions_
    BY <1>7, <1>b DEF RegionRestarts, GivenUp
  <2> QED BY <2>1, FreshStays DEF AllFresh
<1>8. ASSUME NEW s \in sess, SessionLogs(s) PROVE Fresh(q)'
  <2> DEFINE new == [s EXCEPT !.st = "logged"]
  <2>1. new.up = s.up /\ new.st = "logged"
    BY <1>0, SessionMoves
  <2>2. /\ s.st = "frame" /\ sess' = (sess \ {s}) \cup {new}
        /\ UNCHANGED <<stage, up, version_, regions_, failed>>
    BY <1>8 DEF SessionLogs, regionvars
  <2> HIDE DEF new
  <2>3. Fresh(q)
    BY <2>2 DEF AllFresh
  <2> QED BY <2>1, <2>2, <2>3 DEF Fresh
<1>9. ASSUME NEW s \in sess, SessionShows(s) PROVE Fresh(q)'
  <2> DEFINE new == [s EXCEPT !.st = "answered"]
  <2>1. new.up = s.up /\ new.st = "answered"
    BY <1>0, SessionMoves
  <2>2. /\ sess' = (sess \ {s}) \cup {new}
        /\ UNCHANGED <<stage, up, version_, failed>>
    BY <1>9 DEF SessionShows, regionvars
  <2> HIDE DEF new
  <2>3. Fresh(q)
    BY <2>2 DEF AllFresh
  <2>4. /\ s.up.region \in DOMAIN regions_' /\ regions_'[s.up.region].version = s.up.version
        /\ \A x \in DOMAIN regions_' : x = s.up.region \/ (x \in DOMAIN regions_ /\ regions_'[x] = regions_[x])
    BY <1>9 DEF SessionShows, UpsertRegion
  <2>5. CASE q = s.up.region
    <3>1. up[q].version = version_[q] /\ s.up = up[q]
      BY <2>3, <2>5 DEF Fresh, Chains, ChainUp
    <3>2. regions_'[q].version = version_[q]
      BY <2>4, <2>5, <3>1
    <3> QED BY <2>1, <2>2, <2>3, <3>2 DEF Fresh
  <2>6. CASE q # s.up.region
    <3>1. q \in DOMAIN regions_' => q \in DOMAIN regions_ /\ regions_'[q] = regions_[q]
      BY <2>4, <2>6
    <3> QED BY <2>1, <2>2, <2>3, <2>6, <3>1 DEF Fresh
  <2> QED BY <2>5, <2>6
<1>10. ASSUME NEW s \in sess, SessionEnds(s) PROVE Fresh(q)'
  BY <1>10, FreshStays DEF SessionEnds, regionvars, AllFresh
<1>11. CASE CentralRestarts
  <2>1. DOMAIN regions_' = {}
    BY <1>11 DEF CentralRestarts, NoRegions
  <2> QED BY <1>11, <2>1, FreshStays DEF CentralRestarts, regionvars, AllFresh
<1>12. CASE DbStep
  BY <1>12, FreshStays DEF DbStep, regionvars, AllFresh
<1>13. CASE UNCHANGED vars
  BY <1>13, FreshStays DEF vars, regionvars, AllFresh
<1> QED BY <1>1, <1>2, <1>3, <1>4, <1>5, <1>6, <1>7, <1>8, <1>9, <1>10, <1>11, <1>12, <1>13
        DEF Next, RegionStep, SessionStep

\* Central keeps up with a region that has met neither an error nor a
\* restart: the version it shows is the newest, or the one before it while
\* the newest is under way.
THEOREM KeepsUp == Spec => []NewestShown
<1>1. Init => AllFresh
  <2>1. DOMAIN <<>> = {}
    OBVIOUS
  <2> QED BY <2>1 DEF Init, AllFresh, Fresh, NoRegions
<1>2. Types /\ AllFresh => NewestShown
  BY DEF Types, TypeOK, AllFresh, Fresh, NewestShown
<1> QED BY <1>1, <1>2, TypesInit, TypesStep, ChainsInit, ChainsStep, FreshStep, PTL DEF Spec

-----------------------------------------------------------------------------
(* The figures of a version *)

\* the events that were logged or still can be
Known == logged \cup {EventOf(s.up) : s \in sess}
                \cup {EventOf(up[r]) : r \in {x \in Regions : stage[x] # "timer"}}

\* a region that runs gives one event a version, and none of the future
OneEvent == \A a, b \in Known : <<a.region, a.inc, a.version>> = <<b.region, b.inc, b.version>> => a = b
KnownOlder == \A e \in Known : Older(e)

\* the writer holds only what was logged, and so do the rows
FromLogged ==
  /\ \A i \in 1 .. Len(q_) : q_[i] \in logged
  /\ worker # "wait" => ev \in logged
  /\ worker = "rows" => todo \subseteq DOMAIN ev.power
  /\ \A row \in region_zone_power : \E e \in logged : row.zone \in DOMAIN e.power /\ row = RowOf(e, row.zone)

Figured == OneEvent /\ KnownOlder /\ FromLogged

\* What it takes for an event to be known, before and after a step.
LEMMA KnownIs ==
  /\ \A x : x \in Known <=> \/ x \in logged
                            \/ \E s \in sess : x = EventOf(s.up)
                            \/ \E r \in Regions : stage[r] # "timer" /\ x = EventOf(up[r])
  /\ \A x : x \in Known' <=> \/ x \in logged'
                             \/ \E s \in sess' : x = EventOf(s.up)
                             \/ \E r \in Regions : stage'[r] # "timer" /\ x = EventOf(up'[r])
BY DEF Known, EventOf

\* What is known is an event.
LEMMA KnownType == Types => Known \subseteq Event
BY KnownIs, EventOfType DEF Types, TypeOK, EventsOK, Session

\* What a step does that makes no new event.
LEMMA NothingNew ==
  ASSUME Figured, Known' \subseteq Known, UNCHANGED <<inc, version_>>
  PROVE  OneEvent' /\ KnownOlder'
BY DEF Figured, OneEvent, KnownOlder, Older

\* What a step does that leaves the writer alone.
LEMMA WriterKept ==
  ASSUME Figured, UNCHANGED <<dbvars, logged>>
  PROVE  FromLogged'
BY DEF Figured, FromLogged, dbvars, RowOf

\* Nothing is known at first.
LEMMA FiguredInit == Init => Figured
<1> SUFFICES ASSUME Init PROVE Figured
  OBVIOUS
<1>1. Known = {}
  BY KnownIs DEF Init
<1> QED BY <1>1 DEF Init, DbInit, Figured, OneEvent, KnownOlder, FromLogged

\* Every step keeps one event to a region, run and version, and the rows
\* those of logged events.
LEMMA FiguredStep == Types /\ Chains /\ Figured /\ [Next]_vars => Figured'
<1> SUFFICES ASSUME Types, Chains, Figured, [Next]_vars PROVE Figured'
  OBVIOUS
<1>a. \A r \in Regions : inc[r] \in Int /\ version_[r] \in Int
  BY BoundAssumption DEF Types, TypeOK
<1>b. /\ stage \in [Regions -> Stage] /\ up \in [Regions -> Report]
      /\ inc \in [Regions -> 0 .. MaxRestarts] /\ version_ \in [Regions -> 0 .. MaxVersion]
  BY DEF Types, TypeOK
<1>c. \A e \in Known : e.region \in Regions /\ e.inc \in Int /\ e.version \in Int
  BY KnownType, BoundAssumption DEF Event
<1>d. q_ \in Seq(Event)
  BY DEF Types, EventsOK
<1>1. ASSUME NEW r \in Regions, DoSyncOnce(r) PROVE Figured'
  <2>0. PICK new : new = EventOf(up'[r])
    OBVIOUS
  <2>1. /\ stage' = [stage EXCEPT ![r] = "connect"]
        /\ up'[r].region = r /\ up'[r].inc = inc[r] /\ up'[r].version = version_[r] + 1
        /\ \A q \in Regions \ {r} : up'[q] = up[q]
        /\ version_' = [version_ EXCEPT ![r] = @ + 1]
        /\ UNCHANGED <<inc, sess, logged, dbvars>>
    BY <1>1, <1>b DEF DoSyncOnce
  <2>2. new.region = r /\ new.inc = inc[r] /\ new.version = version_[r] + 1
    BY <2>0, <2>1 DEF EventOf
  <2>3. Known' \subseteq Known \cup {new}
    BY <1>b, <2>0, <2>1, KnownIs
  <2>4. \A e \in Known : <<e.region, e.inc, e.version>> # <<new.region, new.inc, new.version>>
    BY <1>a, <1>c, <2>2 DEF Figured, KnownOlder, Older
  <2>5. OneEvent'
    BY <2>3, <2>4 DEF Figured, OneEvent
  <2>6. KnownOlder'
    <3>1. ASSUME NEW e \in Known PROVE Older(e)'
      BY <1>a, <1>b, <1>c, <2>1 DEF Figured, KnownOlder, Older
    <3>2. Older(new)'
      BY <1>a, <1>b, <2>1, <2>2 DEF Older
    <3> QED BY <2>3, <3>1, <3>2 DEF KnownOlder
  <2> QED BY <2>1, <2>5, <2>6, WriterKept DEF Figured
<1>2. ASSUME NEW r \in Regions, Connected(r) PROVE Figured'
  <2> DEFINE new == [up |-> up[r], st |-> "open"]
  <2>1. /\ stage[r] = "connect" /\ stage' = [stage EXCEPT ![r] = "handshake"]
        /\ sess' = sess \cup {new} /\ new.up = up[r]
        /\ UNCHANGED <<up, inc, version_, logged, dbvars>>
    BY <1>2 DEF Connected
  <2> HIDE DEF new
  <2>2. Known' \subseteq Known
    BY <1>b, <2>1, KnownIs
  <2> QED BY <2>1, <2>2, NothingNew, WriterKept DEF Figured
<1>3. ASSUME NEW r \in Regions, HandshakeDone(r) PROVE Figured'
  <2>1. /\ \A q \in Regions : stage'[q] # "timer" => stage[q] # "timer"
        /\ UNCHANGED <<up, inc, version_, sess, logged, dbvars>>
    BY <1>3, <1>b DEF HandshakeDone
  <2>2. Known' \subseteq Known
    BY <2>1, KnownIs
  <2> QED BY <2>1, <2>2, NothingNew, WriterKept DEF Figured
<1>4. ASSUME NEW r \in Regions, Written(r) PROVE Figured'
  <2>1. /\ \A q \in Regions : stage'[q] # "timer" => stage[q] # "timer"
        /\ UNCHANGED <<up, inc, version_, logged, dbvars>>
    BY <1>4, <1>b DEF Written
  <2>2. \A t \in sess' : \E s \in sess : t.up = s.up
    BY <1>4, WrittenSessions
  <2>3. Known' \subseteq Known
    BY <2>1, <2>2, KnownIs
  <2> QED BY <2>1, <2>3, NothingNew, WriterKept DEF Figured
<1>5. ASSUME NEW r \in Regions, AckRead(r) PROVE Figured'
  <2>1. /\ \A q \in Regions : stage'[q] # "timer" => stage[q] # "timer"
        /\ sess' \subseteq sess /\ UNCHANGED <<up, inc, version_, logged, dbvars>>
    BY <1>5, <1>b DEF AckRead
  <2>2. Known' \subseteq Known
    BY <2>1, KnownIs
  <2> QED BY <2>1, <2>2, NothingNew, WriterKept DEF Figured
<1>6. ASSUME NEW r \in Regions, ChainFails(r) PROVE Figured'
  <2>1. /\ \A q \in Regions : stage'[q] # "timer" => stage[q] # "timer"
        /\ sess' \subseteq sess /\ UNCHANGED <<up, inc, version_, logged, dbvars>>
    BY <1>6, <1>b DEF ChainFails, GivenUp
  <2>2. Known' \subseteq Known
    BY <2>1, KnownIs
  <2> QED BY <2>1, <2>2, NothingNew, WriterKept DEF Figured
<1>7. ASSUME NEW r \in Regions, RegionRestarts(r) PROVE Figured'
  <2>1. /\ \A q \in Regions : stage'[q] # "timer" => stage[q] # "timer" /\ up'[q] = up[q]
        /\ sess' \subseteq sess /\ UNCHANGED <<logged, dbvars>>
        /\ inc' = [inc EXCEPT ![r] = @ + 1] /\ version_' = [version_ EXCEPT ![r] = 0]
    BY <1>7, <1>b DEF RegionRestarts, GivenUp
  <2>2. Known' \subseteq Known
    BY <2>1, KnownIs
  <2>3. KnownOlder'
    BY <1>a, <1>b, <1>c, <2>1, <2>2 DEF Figured, KnownOlder, Older
  <2> QED BY <2>1, <2>2, <2>3, WriterKept DEF Figured, OneEvent
<1>8. ASSUME NEW s \in sess, SessionLogs(s) PROVE Figured'
  <2> DEFINE new == [s EXCEPT !.st = "logged"]
             e   == EventOf(s.up)
  <2>1. new.up = s.up /\ e \in Event
    BY SessionMoves, EventOfType DEF Types, TypeOK, Session
  <2>2. /\ sess' = (sess \ {s}) \cup {new} /\ q_' = Append(q_, e) /\ logged' = logged \cup {e}
        /\ UNCHANGED <<stage, up, inc, version_>>
        /\ UNCHANGED <<worker, ev, todo, region_sync, region_zone_power, dropped>>
    BY <1>8 DEF SessionLogs, LogRegionSync, regionvars
  <2>3. e \in Known
    BY KnownIs
  <2> HIDE DEF new
  <2>4. \A t \in sess' : \E w \in sess : t.up = w.up
    BY <2>1, <2>2
  <2>5. Known' \subseteq Known
    BY <2>2, <2>3, <2>4, KnownIs
  <2> HIDE DEF e
  <2>6. \A i \in 1 .. Len(q_') : q_'[i] \in logged'
    <3>1. ASSUME NEW i \in 1 .. Len(q_') PROVE q_'[i] \in logged'
      <4>1. q_'[i] = IF i \in 1 .. Len(q_) THEN q_[i] ELSE e
        BY <1>d, <2>1, <2>2
      <4> QED BY <2>2, <4>1 DEF Figured, FromLogged
    <3> QED BY <3>1
  <2>7. FromLogged'
    BY <2>2, <2>6 DEF Figured, FromLogged, RowOf
  <2> QED BY <2>2, <2>5, <2>7, NothingNew DEF Figured
<1>9. ASSUME NEW s \in sess, SessionShows(s) PROVE Figured'
  <2> DEFINE new == [s EXCEPT !.st = "answered"]
  <2>1. new.up = s.up
    BY SessionMoves DEF Types, TypeOK
  <2>2. sess' = (sess \ {s}) \cup {new} /\ UNCHANGED <<stage, up, inc, version_, logged, dbvars>>
    BY <1>9 DEF SessionShows, regionvars
  <2> HIDE DEF new
  <2>3. \A t \in sess' : \E w \in sess : t.up = w.up
    BY <2>1, <2>2
  <2>4. Known' \subseteq Known
    BY <2>2, <2>3, KnownIs
  <2> QED BY <2>2, <2>4, NothingNew, WriterKept DEF Figured
<1>10. ASSUME NEW s \in sess, SessionEnds(s) PROVE Figured'
  <2>1. sess' \subseteq sess /\ UNCHANGED <<stage, up, inc, version_, logged, dbvars>>
    BY <1>10 DEF SessionEnds, regionvars
  <2>2. Known' \subseteq Known
    BY <2>1, KnownIs
  <2> QED BY <2>1, <2>2, NothingNew, WriterKept DEF Figured
<1>11. CASE CentralRestarts
  <2>1. /\ sess' \subseteq sess /\ UNCHANGED <<stage, up, inc, version_, logged, region_zone_power>>
        /\ q_' = <<>> /\ worker' = "wait"
    BY <1>11 DEF CentralRestarts, DbCrash, regionvars
  <2>2. Known' \subseteq Known
    BY <2>1, KnownIs
  <2>3. FromLogged'
    BY <2>1 DEF Figured, FromLogged, RowOf
  <2> QED BY <2>1, <2>2, <2>3, NothingNew DEF Figured
<1>12. CASE DbStep
  <2>1. UNCHANGED <<stage, up, inc, version_, sess, logged>>
    BY <1>12 DEF DbStep, regionvars
  <2>2. Known' \subseteq Known
    BY <2>1, KnownIs
  <2>3. CASE WorkerTakes
    <3>1. /\ q_ # <<>> /\ ev' = Head(q_) /\ q_' = Tail(q_) /\ worker' = "sync"
          /\ UNCHANGED region_zone_power
      BY <2>3 DEF WorkerTakes
    <3>2. ev' \in logged
      BY <1>d, <3>1 DEF Figured, FromLogged
    <3>3. ASSUME NEW i \in 1 .. Len(q_') PROVE q_'[i] \in logged
      <4>1. i + 1 \in 1 .. Len(q_) /\ q_'[i] = q_[i + 1]
        BY <1>d, <3>1
      <4> QED BY <4>1 DEF Figured, FromLogged
    <3> QED BY <2>1, <2>2, <3>1, <3>2, <3>3, NothingNew DEF Figured, FromLogged, RowOf
  <2>4. CASE InsertSync
    BY <2>1, <2>2, <2>4, NothingNew DEF InsertSync, Figured, FromLogged, RowOf
  <2>5. CASE InsertPower
    <3>1. PICK z \in todo : /\ region_zone_power' = region_zone_power \cup {RowOf(ev, z)}
                            /\ todo' = todo \ {z}
      BY <2>5 DEF InsertPower, RowOf
    <3>2. worker = "rows" /\ UNCHANGED <<q_, worker, ev>>
      BY <2>5 DEF InsertPower
    <3>3. RowOf(ev, z).zone = z /\ z \in DOMAIN ev.power /\ ev \in logged
      BY <3>2 DEF Figured, FromLogged, RowOf
    <3>4. \A row \in region_zone_power' :
            \E e \in logged : row.zone \in DOMAIN e.power /\ row = RowOf(e, row.zone)
      BY <3>1, <3>3 DEF Figured, FromLogged
    <3> QED BY <2>1, <2>2, <3>1, <3>2, <3>3, <3>4, NothingNew DEF Figured, FromLogged
  <2>6. CASE HandleReturns
    BY <2>1, <2>2, <2>6, NothingNew DEF HandleReturns, Figured, FromLogged, RowOf
  <2>7. CASE StepFails
    BY <2>1, <2>2, <2>7, NothingNew DEF StepFails, Figured, FromLogged, RowOf
  <2> QED BY <1>12, <2>3, <2>4, <2>5, <2>6, <2>7 DEF DbStep, WorkerStep
<1>13. CASE UNCHANGED vars
  <2>1. UNCHANGED <<stage, up, inc, version_, sess, logged, dbvars>>
    BY <1>13 DEF vars, regionvars
  <2>2. Known' \subseteq Known
    BY <2>1, KnownIs
  <2> QED BY <2>1, <2>2, NothingNew, WriterKept DEF Figured
<1> QED BY <1>1, <1>2, <1>3, <1>4, <1>5, <1>6, <1>7, <1>8, <1>9, <1>10, <1>11, <1>12, <1>13
        DEF Next, RegionStep, SessionStep

\* However often a region gives reports up and tries again, region_zone_power
\* has one figure for a version and a zone, until the region is restarted.
THEOREM OneFigure == Spec => []OneFigurePerVersion
<1>1. Types /\ Figured => OneFigurePerVersion
  <2> SUFFICES ASSUME Types, Figured, NEW a \in region_zone_power, NEW b \in region_zone_power,
                      <<a.region, a.version, a.zone>> = <<b.region, b.version, b.zone>>,
                      inc[a.region] = 0
               PROVE  a.power = b.power
    BY DEF OneFigurePerVersion
  <2>1. PICK d \in logged : a.zone \in DOMAIN d.power /\ a = RowOf(d, a.zone)
    BY DEF Figured, FromLogged
  <2>2. PICK e \in logged : b.zone \in DOMAIN e.power /\ b = RowOf(e, b.zone)
    BY DEF Figured, FromLogged
  <2>3. /\ a.region = d.region /\ a.version = d.version /\ a.power = d.power[a.zone]
        /\ b.region = e.region /\ b.version = e.version /\ b.power = e.power[b.zone]
    BY <2>1, <2>2 DEF RowOf
  <2>4. d \in Known /\ e \in Known /\ d \in Event /\ e \in Event
    BY KnownIs DEF Types, EventsOK
  <2>5. d.inc = 0 /\ e.inc = 0
    <3>1. Older(d) /\ Older(e) /\ inc[d.region] = 0 /\ inc[e.region] = 0
      BY <2>3, <2>4 DEF Figured, KnownOlder
    <3>2. d.inc \in 0 .. MaxRestarts /\ e.inc \in 0 .. MaxRestarts
      BY <2>4 DEF Event
    <3> QED BY <3>1, <3>2, BoundAssumption DEF Older
  <2>6. d = e
    BY <2>3, <2>4, <2>5 DEF Figured, OneEvent
  <2> QED BY <2>3, <2>6
<1> QED BY <1>1, TypesInit, TypesStep, ChainsInit, ChainsStep, FiguredInit, FiguredStep, PTL DEF Spec
=============================================================================
