------------------------ MODULE VersionUpgradeProofs ------------------------
(***************************************************************************)
(* What is proved of VersionUpgrade for any versions, requests and saves:  *)
(* type correctness, and that Dashboards is never asked to be newer than   *)
(* the nodes.  The argument: the nodes never go back, so whatever a        *)
(* request, a watch or a save read some time ago is still not ahead.       *)
(***************************************************************************)
EXTENDS VersionUpgrade, TLAPS

UpType == [pc : {"idle", "read", "accepted", "watch", "poll", "phase2", "over"},
           target : Versions \cup {None}, seen : Seen \cup {None}]
SaveType == [pc : {"idle", "read", "over"}, general : Versions \cup {None},
             dashboards : Versions \cup {None}]

\* The CR and what the operator reports.
CRInv ==
  /\ general \in Versions /\ dashboards \in Versions /\ running \in Versions
  /\ pool \in {"none", "pending", "upgrading"} /\ green \in BOOLEAN /\ warning \in BOOLEAN
  /\ trouble \in 0 .. MaxTrouble
  /\ dashboards <= running

\* What a request read, and what its watch found, the nodes are at or past.
UpOne(q) ==
  /\ q \in UpType
  /\ q.pc \notin {"idle", "over"} => q.target \in Versions
  /\ q.pc \in {"read", "accepted", "poll"} => q.seen \in Seen /\ q.seen.running <= running
  /\ q.pc = "phase2" => q.target <= running

\* The Dashboards version a save re-applies the nodes are at or past.
SaveOne(s) ==
  /\ s \in SaveType
  /\ s.pc = "read" => s.general \in Versions /\ s.dashboards \in Versions
                      /\ s.dashboards <= running

UpInv   == up = [u \in Users |-> up[u]] /\ \A u \in Users : UpOne(up[u])
SaveInv == save = [s \in Saves |-> save[s]] /\ \A s \in Saves : SaveOne(save[s])
IInv == CRInv /\ UpInv /\ SaveInv

LEMMA IInvTypes == IInv => TypeOK /\ DashboardsNeverNewer
  BY DEF IInv, CRInv, UpInv, SaveInv, UpOne, SaveOne, UpType, SaveType, TypeOK,
         DashboardsNeverNewer

-----------------------------------------------------------------------------
\* The nodes do not go back.
Onward == running \in Versions /\ running' \in Versions /\ running <= running'

LEMMA AtOrPast ==
  ASSUME Onward, NEW v \in Versions, v <= running
  PROVE  v <= running'
  BY UpgradeAssumption DEF Onward

LEMMA UpKept ==
  ASSUME Onward, NEW q, UpOne(q)
  PROVE  UpOne(q)'
<1>1. q.pc \in {"read", "accepted", "poll"} => q.seen.running <= running'
  BY AtOrPast DEF UpOne, Seen
<1>2. q.pc = "phase2" => q.target <= running'
  BY AtOrPast DEF UpOne
<1>3. QED
  BY <1>1, <1>2 DEF UpOne

LEMMA SaveKept ==
  ASSUME Onward, NEW s, SaveOne(s)
  PROVE  SaveOne(s)'
  BY AtOrPast DEF SaveOne

LEMMA UpMoves ==
  ASSUME UpInv, Onward, NEW u \in Users, NEW q, up' = [up EXCEPT ![u] = q], UpOne(q)'
  PROVE  UpInv'
<1>1. up' = [w \in Users |-> up'[w]]
  BY DEF UpInv
<1>2. ASSUME NEW w \in Users PROVE UpOne(up[w])'
  <2>1. CASE w = u
    BY <2>1 DEF UpInv, UpOne
  <2>2. CASE w # u
    <3>1. up'[w] = up[w]
      BY <2>2 DEF UpInv
    <3>2. UpOne(up[w]) /\ \A q1 : UpOne(q1) => (UpOne(q1))'
      BY UpKept DEF UpInv
    <3>3. QED
      BY <3>1, <3>2 DEF UpOne
  <2>3. QED
    BY <2>1, <2>2
<1>3. QED
  BY <1>1, <1>2 DEF UpInv

LEMMA UpStays ==
  ASSUME UpInv, Onward, UNCHANGED up
  PROVE  UpInv'
<1>1. ASSUME NEW w \in Users PROVE UpOne(up[w])'
  <2>1. UpOne(up[w]) /\ \A q1 : UpOne(q1) => (UpOne(q1))'
    BY UpKept DEF UpInv
  <2>2. QED
    BY <2>1 DEF UpOne
<1>2. QED
  BY <1>1 DEF UpInv

LEMMA SaveStays ==
  ASSUME SaveInv, Onward, UNCHANGED save
  PROVE  SaveInv'
<1>1. ASSUME NEW s \in Saves PROVE SaveOne(save[s])'
  <2>1. SaveOne(save[s]) /\ \A q1 : SaveOne(q1) => (SaveOne(q1))'
    BY SaveKept DEF SaveInv
  <2>2. QED
    BY <2>1 DEF SaveOne
<1>2. QED
  BY <1>1 DEF SaveInv

LEMMA SaveMoves ==
  ASSUME SaveInv, UNCHANGED running, NEW s \in Saves, NEW q,
         save' = [save EXCEPT ![s] = q], SaveOne(q)
  PROVE  SaveInv'
  BY DEF SaveInv, SaveOne

LEMMA OverOne == UpOne(Over)' /\ UpOne(Off) /\ SaveOne(Saved)
  BY DEF Over, Off, UpOne, UpType, Saved, SaveOne, SaveType

LEMMA InitIInv == Init => IInv
<1> SUFFICES ASSUME Init PROVE IInv
  OBVIOUS
<1>1. CRInv
  <2>1. green \in BOOLEAN /\ warning \in BOOLEAN
    BY DEF Init
  <2>2. trouble \in 0 .. MaxTrouble /\ dashboards <= running
    BY UpgradeAssumption DEF Init
  <2>3. QED
    BY <2>1, <2>2 DEF Init, CRInv
<1>2. UpInv
  BY OverOne DEF Init, UpInv, UpOne
<1>3. SaveInv
  BY DEF Init, Saved, SaveInv, SaveOne, SaveType
<1>4. QED
  BY <1>1, <1>2, <1>3 DEF IInv

\* The steps that leave the nodes and the saves alone.
LEMMA UpSteps ==
  ASSUME IInv, NEW u \in Users, Request(u) \/ Upgrade(u)
  PROVE  IInv'
<1> USE UpgradeAssumption
<1>0. CRInv /\ UpInv /\ SaveInv /\ UpOne(up[u])
  BY DEF IInv, UpInv
<1>1. Onward /\ UNCHANGED <<oper, save>>
  <2>1. UNCHANGED <<oper, save>>
    BY DEF Request, Upgrade, ReadStatus, GivesUp, Preflight, PatchVersion, Poll, Judge,
           PatchDashboards
  <2>2. QED
    BY <1>0, <2>1 DEF oper, CRInv, Onward
<1>2. SaveInv'
  BY <1>0, <1>1, SaveStays
<1>10. PICK seen \in Seen : seen = Status /\ seen.running <= running'
  <2>1. Status \in Seen
    BY <1>0 DEF CRInv, Status, Seen
  <2>2. Status.running = running /\ running <= running'
    BY <1>1 DEF Status, Onward
  <2>3. QED
    BY <2>1, <2>2
<1>3. CASE ReadStatus(u)
  <2>0. PICK v \in Versions :
          up' = [up EXCEPT ![u] = [pc |-> "read", target |-> v, seen |-> Status]]
    BY <1>3 DEF ReadStatus
  <2>1. PICK q : /\ up' = [up EXCEPT ![u] = q]
                 /\ q = [pc |-> "read", target |-> v, seen |-> Status]
    BY <2>0
  <2>2. UpOne(q)'
    BY <1>0, <1>1, <1>10, <2>1 DEF UpOne, UpType
  <2>3. CRInv'
    BY <1>0, <1>1, <1>3 DEF ReadStatus, cr, oper, CRInv
  <2>4. QED
    BY <1>0, <1>1, <1>2, <2>1, <2>2, <2>3, UpMoves DEF IInv
<1>4. CASE GivesUp(u)
  <2>1. CRInv'
    BY <1>0, <1>1, <1>4 DEF GivesUp, Trouble, cr, oper, CRInv
  <2>2. QED
    BY <1>0, <1>1, <1>2, <1>4, <2>1, OverOne, UpMoves DEF GivesUp, IInv
<1>5. CASE Preflight(u)
  <2>1. CRInv'
    BY <1>0, <1>1, <1>5 DEF Preflight, cr, oper, CRInv
  <2>2. CASE up' = [up EXCEPT ![u] = Over]
    BY <1>0, <1>1, <1>2, <2>1, <2>2, OverOne, UpMoves DEF IInv
  <2>3. CASE Goto(u, "accepted")
    <3>1. PICK q : q = [up[u] EXCEPT !.pc = "accepted"]
      OBVIOUS
    <3>2. UpOne(q)
      BY <1>0, <1>5, <3>1 DEF Preflight, UpOne, UpType
    <3>3. UpOne(q)'
      BY <1>1, <3>2, UpKept
    <3>4. up' = [up EXCEPT ![u] = q]
      BY <2>3, <3>1 DEF Goto
    <3>5. QED
      BY <1>0, <1>1, <1>2, <2>1, <3>3, <3>4, UpMoves DEF IInv
  <2>4. QED
    BY <1>5, <2>2, <2>3 DEF Preflight
<1>6. CASE PatchVersion(u)
  <2>0. /\ up[u].target \in Versions /\ up[u].seen \in Seen
        /\ up[u].seen.running <= running
    BY <1>0, <1>6 DEF PatchVersion, UpOne
  <2>1. CASE PhaseTwoOnly(up[u].seen, up[u].target)
    <3>1. CRInv'
      BY <1>0, <1>1, <1>6, <2>0, <2>1 DEF PatchVersion, PhaseTwoOnly, oper, CRInv
    <3>2. QED
      BY <1>0, <1>1, <1>2, <1>6, <2>1, <3>1, OverOne, UpMoves DEF PatchVersion, IInv
  <2>2. CASE ~PhaseTwoOnly(up[u].seen, up[u].target)
    <3>1. CRInv'
      BY <1>0, <1>1, <1>6, <2>0, <2>2 DEF PatchVersion, oper, CRInv
    <3>2. PICK q : q = [up[u] EXCEPT !.pc = "watch", !.seen = None]
      OBVIOUS
    <3>3. UpOne(q)'
      BY <1>0, <2>0, <3>2 DEF UpOne, UpType
    <3>4. up' = [up EXCEPT ![u] = q]
      BY <1>6, <2>2, <3>2 DEF PatchVersion
    <3>5. QED
      BY <1>0, <1>1, <1>2, <3>1, <3>3, <3>4, UpMoves DEF IInv
  <2>3. QED
    BY <2>1, <2>2
<1>7. CASE Poll(u)
  <2>1. CRInv'
    BY <1>0, <1>1, <1>7 DEF Poll, cr, oper, CRInv
  <2>2. PICK q : q = [up[u] EXCEPT !.pc = "poll", !.seen = Status]
    OBVIOUS
  <2>3. UpOne(q)'
    BY <1>0, <1>7, <1>10, <2>2 DEF Poll, UpOne, UpType
  <2>4. up' = [up EXCEPT ![u] = q]
    BY <1>7, <2>2 DEF Poll
  <2>5. QED
    BY <1>0, <1>1, <1>2, <2>1, <2>3, <2>4, UpMoves DEF IInv
<1>8. CASE Judge(u)
  <2>1. CRInv'
    BY <1>0, <1>1, <1>8 DEF Judge, cr, oper, CRInv
  <2>2. PICK q : /\ up' = [up EXCEPT ![u] = q]
                 /\ \/ q = Over
                    \/ q = [up[u] EXCEPT !.seen = None, !.pc = "watch"]
                    \/ /\ q = [up[u] EXCEPT !.seen = None, !.pc = "phase2"]
                       /\ NodesUpgraded(up[u].seen, up[u].target)
    <3>1. CASE UpgradeState(up[u].seen) = "failed"
      BY <1>8, <3>1 DEF Judge
    <3>2. CASE /\ UpgradeState(up[u].seen) # "failed"
               /\ NodesUpgraded(up[u].seen, up[u].target) /\ up[u].seen.green
      BY <1>8, <3>2 DEF Judge
    <3>3. CASE /\ UpgradeState(up[u].seen) # "failed"
               /\ ~(NodesUpgraded(up[u].seen, up[u].target) /\ up[u].seen.green)
      BY <1>8, <3>3 DEF Judge
    <3>4. QED
      BY <3>1, <3>2, <3>3
  <2>3. up[u].pc = "poll" /\ up[u].target \in Versions /\ up[u].seen.running <= running
    BY <1>0, <1>8 DEF Judge, UpOne
  <2>4. CASE q = Over
    BY <1>0, <1>1, <1>2, <2>1, <2>2, <2>4, OverOne, UpMoves DEF IInv
  <2>5. CASE q = [up[u] EXCEPT !.seen = None, !.pc = "watch"]
    <3>1. UpOne(q)'
      BY <1>0, <2>3, <2>5 DEF UpOne, UpType
    <3>2. QED
      BY <1>0, <1>1, <1>2, <2>1, <2>2, <3>1, UpMoves DEF IInv
  <2>6. CASE /\ q = [up[u] EXCEPT !.seen = None, !.pc = "phase2"]
             /\ NodesUpgraded(up[u].seen, up[u].target)
    <3>1. up[u].target <= running'
      BY <1>1, <2>3, <2>6 DEF NodesUpgraded, oper
    <3>2. UpOne(q)'
      BY <1>0, <2>3, <2>6, <3>1 DEF UpOne, UpType
    <3>3. QED
      BY <1>0, <1>1, <1>2, <2>1, <2>2, <3>2, UpMoves DEF IInv
  <2>7. QED
    BY <2>2, <2>4, <2>5, <2>6
<1>9. CASE PatchDashboards(u)
  <2>1. up[u].target \in Versions /\ up[u].target <= running
    BY <1>0, <1>9 DEF PatchDashboards, UpOne
  <2>2. CRInv'
    BY <1>0, <1>1, <1>9, <2>1 DEF PatchDashboards, oper, CRInv
  <2>3. QED
    BY <1>0, <1>1, <1>2, <1>9, <2>2, OverOne, UpMoves DEF PatchDashboards, IInv
<1>11. QED
  BY <1>3, <1>4, <1>5, <1>6, <1>7, <1>8, <1>9 DEF Request, Upgrade

LEMMA SaveSteps ==
  ASSUME IInv, NEW s \in Saves, SaveReads(s) \/ SaveApplies(s)
  PROVE  IInv'
<1>0. CRInv /\ UpInv /\ SaveInv /\ SaveOne(save[s])
  BY DEF IInv, SaveInv
<1>1. Onward /\ UNCHANGED <<oper, up, trouble>>
  BY <1>0, UpgradeAssumption DEF SaveReads, SaveApplies, oper, CRInv, Onward
<1>2. UpInv'
  BY <1>0, <1>1, UpStays
<1>3. CASE SaveReads(s)
  <2>1. SaveOne([pc |-> "read", general |-> general, dashboards |-> dashboards])
    BY <1>0 DEF CRInv, SaveOne, SaveType
  <2>2. SaveInv'
    BY <1>0, <1>1, <1>3, <2>1, SaveMoves DEF SaveReads, oper
  <2>3. CRInv'
    BY <1>0, <1>1, <1>3 DEF SaveReads, cr, oper, CRInv
  <2>4. QED
    BY <1>2, <2>2, <2>3 DEF IInv
<1>4. CASE SaveApplies(s)
  <2>1. SaveInv'
    BY <1>0, <1>1, <1>4, OverOne, SaveMoves DEF SaveApplies, oper
  <2>2. CRInv'
    BY <1>0, <1>1, <1>4 DEF SaveApplies, SaveOne, oper, CRInv
  <2>3. QED
    BY <1>2, <2>1, <2>2 DEF IInv
<1>5. QED
  BY <1>3, <1>4

LEMMA NextIInv == IInv /\ [Next]_vars => IInv'
<1> SUFFICES ASSUME IInv, [Next]_vars PROVE IInv'
  OBVIOUS
<1> USE UpgradeAssumption
<1>0. CRInv /\ UpInv /\ SaveInv
  BY DEF IInv
<1>1. CASE \E u \in Users : Request(u) \/ Upgrade(u)
  BY <1>1, UpSteps
<1>2. CASE \E s \in Saves : SaveReads(s) \/ SaveApplies(s)
  BY <1>2, SaveSteps
<1>3. CASE Crash
  <2>1. CRInv'
    BY <1>0, <1>3 DEF Crash, Trouble, cr, oper, CRInv
  <2>2. UpInv'
    BY <1>0, <1>3, OverOne DEF Crash, oper, UpInv, UpOne
  <2>3. SaveInv'
    BY <1>0, <1>3, OverOne DEF Crash, oper, SaveInv, SaveOne
  <2>4. QED
    BY <2>1, <2>2, <2>3 DEF IInv
\* The operator, its Events and the cluster's health.
<1>4. ASSUME UNCHANGED <<general, dashboards, up, save>>, Onward,
             pool' \in {"none", "pending", "upgrading"}, green' \in BOOLEAN,
             warning' \in BOOLEAN, trouble' \in 0 .. MaxTrouble
      PROVE  IInv'
  <2>1. dashboards' <= running'
    BY <1>0, <1>4, AtOrPast DEF CRInv
  <2>2. CRInv'
    BY <1>0, <1>4, <2>1, Zenon DEF CRInv, Onward
  <2>3. QED
    BY <1>0, <1>4, <2>2, UpStays, SaveStays DEF IInv
<1>5. UNCHANGED running => Onward
  BY <1>0 DEF CRInv, Onward
<1>6. CASE OperatorStarts \/ OperatorRolls \/ OperatorStops
  BY <1>0, <1>4, <1>5, <1>6
  DEF OperatorStarts, OperatorRolls, OperatorStops, cr, CRInv
<1>7. CASE OperatorFinishes
  <2>1. Onward
    BY <1>0, <1>7 DEF OperatorFinishes, OperatorTakes, CRInv, Onward
  <2>2. QED
    BY <1>0, <1>4, <1>7, <2>1 DEF OperatorFinishes, cr, CRInv
<1>8. CASE OperatorRefuses \/ HealthMoves
  <2>1. green' \in BOOLEAN /\ warning' \in BOOLEAN
    BY <1>0, <1>8 DEF OperatorRefuses, HealthMoves, CRInv
  <2>2. QED
    BY <1>0, <1>4, <1>5, <1>8, <2>1 DEF OperatorRefuses, HealthMoves, cr, CRInv
<1>9. CASE EventExpires
  <2>1. warning' \in BOOLEAN
    BY <1>9 DEF EventExpires
  <2>2. trouble' \in 0 .. MaxTrouble
    BY <1>0, <1>9 DEF EventExpires, Trouble, CRInv
  <2>3. QED
    BY <1>0, <1>4, <1>5, <1>9, <2>1, <2>2 DEF EventExpires, cr, CRInv
<1>10. CASE UNCHANGED vars
  BY <1>0, <1>4, <1>5, <1>10 DEF vars, cr, oper, CRInv, Onward
<1>11. QED
  BY <1>1, <1>2, <1>3, <1>6, <1>7, <1>8, <1>9, <1>10 DEF Next, Operator

-----------------------------------------------------------------------------
\* Every reachable state has its types, however many requests, saves and restarts.
THEOREM TypeCorrect == Spec => []TypeOK
<1>1. Init => IInv
  BY InitIInv
<1>2. IInv /\ [Next]_vars => IInv'
  BY NextIInv
<1>3. IInv => TypeOK
  BY IInvTypes
<1>4. QED
  BY <1>1, <1>2, <1>3, PTL DEF Spec

\* Dashboards is never asked to run a version newer than the one the nodes report,
\* whatever requests, retries, saves and restarts interleave.
THEOREM DashboardsFollows == Spec => []DashboardsNeverNewer
<1>1. Init => IInv
  BY InitIInv
<1>2. IInv /\ [Next]_vars => IInv'
  BY NextIInv
<1>3. IInv => DashboardsNeverNewer
  BY IInvTypes
<1>4. QED
  BY <1>1, <1>2, <1>3, PTL DEF Spec
-----------------------------------------------------------------------------
\* With nothing under way the nodes are on what the spec asks for, or the operator
\* has said that it will not go there; the pre-flight reads neither as in flight.
LEMMA QuietReads ==
  ASSUME SeesEvents, Quiescent
  PROVE  ~InFlight(Status)
<1>1. Status.pool = "none" /\ Status.general = general /\ Status.running = running
  BY DEF Quiescent, Status
<1>2. CASE general = running
  <2>1. UpgradeState(Status) = "idle"
    BY <1>1, <1>2 DEF UpgradeState
  <2>2. QED
    BY <2>1 DEF InFlight
<1>3. CASE general # running
  <2>1. WarningRead
    BY <1>3 DEF Quiescent, WarningRead
  <2>2. UpgradeState(Status) = "failed"
    BY <1>1, <1>3, <2>1 DEF UpgradeState
  <2>3. QED
    BY <2>2 DEF InFlight
<1>4. QED
  BY <1>2, <1>3

\* Where the backend sees the operator's Events, no sequence of requests, races,
\* refusals and restarts leaves a healthy deployment whose nodes are ahead of its
\* Dashboards and whose retry the pre-flight refuses: upgrading to the version
\* the nodes run is then the second phase alone.
THEOREM RetryAlwaysPasses ==
  ASSUME SeesEvents
  PROVE  Spec => []NeverWedged
<1>1. Init => IInv
  BY InitIInv
<1>2. IInv /\ [Next]_vars => IInv'
  BY NextIInv
<1>3. IInv => NeverWedged
  <2>1. SUFFICES ASSUME Quiescent, green, dashboards # running
                 PROVE  Passes(Status, running)
    BY DEF NeverWedged
  <2>2. PhaseTwoOnly(Status, running) /\ Status.green
    BY <2>1 DEF PhaseTwoOnly, Status
  <2>3. QED
    BY <2>1, <2>2, QuietReads DEF Passes
<1>4. QED
  BY <1>1, <1>2, <1>3, PTL DEF Spec
=============================================================================
