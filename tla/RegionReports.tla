---------------------------- MODULE RegionReports ---------------------------
(***************************************************************************)
(* What synchronising regions with the central server promises, without    *)
(* connections, threads or retries: a region issues reports; a report that *)
(* is not lost replaces, whole and at most once, what central shows of its *)
(* region; and a region is told that a report was taken only after it was  *)
(* shown.  Nothing is promised about the order in which two reports of one *)
(* region are shown.                                                       *)
(***************************************************************************)
CONSTANT Report   \* the reports that can be issued

VARIABLES pending,    \* reports issued, neither shown nor lost
          answered,   \* reports shown whose region has not been told
          shown,      \* region -> what central shows of it
          confirmed   \* region -> the report it was last told of

Content(rep) == [version |-> rep.version, power |-> rep.power, summary |-> rep.summary]

Init == /\ pending = {}
        /\ answered = {}
        /\ shown = <<>>
        /\ confirmed = <<>>

Put(f, r, v) == [x \in DOMAIN f \cup {r} |-> IF x = r THEN v ELSE f[x]]

Issue(rep) ==
  /\ rep \notin pending \cup answered
  /\ pending' = pending \cup {rep}
  /\ UNCHANGED <<answered, shown, confirmed>>

Show(rep) ==
  /\ rep \in pending
  /\ pending' = pending \ {rep}
  /\ answered' = answered \cup {rep}
  /\ shown' = Put(shown, rep.region, Content(rep))
  /\ UNCHANGED confirmed

Confirm(rep) ==
  /\ rep \in answered
  /\ answered' = answered \ {rep}
  /\ confirmed' = Put(confirmed, rep.region, rep)
  /\ UNCHANGED <<pending, shown>>

Lose ==
  /\ pending' \subseteq pending
  /\ answered' \subseteq answered
  /\ UNCHANGED <<shown, confirmed>>

\* the central server starts again and has everything to learn
Forget ==
  /\ pending' \subseteq pending
  /\ answered' \subseteq answered
  /\ shown' = <<>>
  /\ UNCHANGED confirmed

Next == \/ \E rep \in Report : Issue(rep) \/ Show(rep) \/ Confirm(rep)
        \/ Lose
        \/ Forget

Spec == Init /\ [][Next]_<<pending, answered, shown, confirmed>>
=============================================================================
