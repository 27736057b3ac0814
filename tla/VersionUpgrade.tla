---------------------------- MODULE VersionUpgrade ----------------------------
(***************************************************************************)
(* The version upgrade of one deployment (ADR-048): src/src/upgrade.rs and *)
(* the upgrade section of src/src/k8s.rs.                                  *)
(*                                                                         *)
(* An upgrade request reads the status, refuses what cannot work, patches  *)
(* spec.general.version and leaves a task that patches                     *)
(* spec.dashboards.version once the nodes are there; when the nodes        *)
(* already are, it patches Dashboards at once.  A save of the deployment   *)
(* re-applies both versions as it read them.  The operator rolls the nodes *)
(* or refuses, and says so only in an Event.  Nothing is locked: a request *)
(* is checked against a status that may have moved on when it is written.  *)
(*                                                                         *)
(* Catalog, feed and registry only ever refuse a request.  The profile     *)
(* that is re-asserted at the end lives outside the CR and is left out.    *)
(***************************************************************************)
EXTENDS Naturals

CONSTANTS
  Versions,    \* the versions there are, as numbers: the tens are the major
  None,        \* "absent"
  Users,       \* the upgrade requests
  Saves,       \* the saves
  SeesEvents,  \* whether the deployment is in the namespace Events are read from
  MaxTrouble   \* bound: calls that fail, watches that time out, restarts and
               \* Events that expire

ASSUME UpgradeAssumption ==
  /\ Versions \subseteq Nat /\ None \notin Versions
  /\ SeesEvents \in BOOLEAN /\ MaxTrouble \in Nat

VARIABLES
  general,    \* spec.general.version: the nodes
  dashboards, \* spec.dashboards.version
  running,    \* status.version
  pool,       \* the Upgrader row of componentsStatus
  green,      \* status.health
  warning,    \* a Warning/Upgrade Event about the deployment exists
  up,         \* the requests, and the tasks they leave
  save,       \* the saves
  trouble     \* how often something went wrong

cr   == <<general, dashboards>>
oper == <<running, pool, green, warning>>
vars == <<cr, oper, up, save, trouble>>

Trouble == trouble < MaxTrouble /\ trouble' = trouble + 1

-----------------------------------------------------------------------------
(* upgrade.rs                                                                *)

Major(v) == v \div 10

\* Mutant: two majors at once pass.
ValidateTwoMajors(current, requested) ==
  requested > current /\ Major(requested) <= Major(current) + 2

Validate(current, requested) ==
  requested > current /\ Major(requested) <= Major(current) + 1

\* What a status read takes off the CR.
Seen == [general    : Versions, dashboards : Versions, running : Versions,
         pool       : {"none", "pending", "upgrading"}, green : BOOLEAN]
Status == [general |-> general, dashboards |-> dashboards, running |-> running,
           pool |-> pool, green |-> green]

\* The Event is read after it, and in one namespace only.
WarningRead == warning /\ SeesEvents

\* Mutant: a refusal is not told from an upgrade yet to start.
UpgradeStateBlind(s) ==
  IF s.pool = "upgrading" THEN "upgrading"
  ELSE IF s.pool = "pending" \/ s.general # s.running THEN "pending" ELSE "idle"

UpgradeState(s) ==
  CASE s.pool = "upgrading"                                   -> "upgrading"
    [] s.pool # "upgrading" /\ s.general # s.running          ->
         IF WarningRead THEN "failed" ELSE "pending"
    [] OTHER -> IF s.pool = "pending" THEN "pending" ELSE "idle"

InFlight(s) == UpgradeState(s) \in {"pending", "upgrading"}

\* Mutant: nothing in flight is taken for the target reached.
NodesUpgradedAnyVersion(s, target) == ~InFlight(s)

NodesUpgraded(s, target) == ~InFlight(s) /\ s.running = target

-----------------------------------------------------------------------------
(* upgrade_cluster                                                           *)

Off == [pc |-> "idle", target |-> None, seen |-> None]
Over == [Off EXCEPT !.pc = "over"]
Goto(u, pc) == up' = [up EXCEPT ![u].pc = pc]

\* Dashboards alone is behind: the retry of a failed second phase.
PhaseTwoOnly(s, target) == s.running = target /\ s.dashboards # target

Passes(s, target) ==
  /\ PhaseTwoOnly(s, target) \/ Validate(s.running, target)
  /\ ~InFlight(s) /\ s.green

\* preflight_upgrade reads the status: first the CR, ...
ReadStatus(u) ==
  /\ up[u].pc = "idle"
  /\ \E v \in Versions : up' = [up EXCEPT ![u] = [pc |-> "read", target |-> v, seen |-> Status]]
  /\ UNCHANGED <<cr, oper, save, trouble>>

\* ... then the Event, and decides; catalog and registry may still refuse.
Preflight(u) ==
  /\ up[u].pc = "read"
  /\ \/ Passes(up[u].seen, up[u].target) /\ Goto(u, "accepted")
     \/ up' = [up EXCEPT ![u] = Over]
  /\ UNCHANGED <<cr, oper, save, trouble>>

\* Phase 1, or the retry of phase 2.
PatchVersion(u) ==
  /\ up[u].pc = "accepted"
  /\ IF PhaseTwoOnly(up[u].seen, up[u].target)
     THEN /\ dashboards' = up[u].target /\ UNCHANGED general
          /\ up' = [up EXCEPT ![u] = Over]
     ELSE /\ general' = up[u].target /\ UNCHANGED dashboards
          /\ up' = [up EXCEPT ![u].pc = "watch", ![u].seen = None]
  /\ UNCHANGED <<oper, save, trouble>>

\* wait_nodes_upgraded: one poll reads the CR, ...
Poll(u) ==
  /\ up[u].pc = "watch"
  /\ up' = [up EXCEPT ![u].pc = "poll", ![u].seen = Status]
  /\ UNCHANGED <<cr, oper, save, trouble>>

\* ... then the Event: a refusal ends the watch, the target reached starts phase 2.
Judge(u) ==
  /\ up[u].pc = "poll"
  /\ LET s == up[u].seen
     IN  up' = [up EXCEPT ![u] =
                  IF UpgradeState(s) = "failed" THEN Over
                  ELSE [@ EXCEPT !.seen = None,
                                 !.pc = IF NodesUpgraded(s, up[u].target) /\ s.green
                                        THEN "phase2" ELSE "watch"]]
  /\ UNCHANGED <<cr, oper, save, trouble>>

PatchDashboards(u) ==
  /\ up[u].pc = "phase2"
  /\ dashboards' = up[u].target
  /\ up' = [up EXCEPT ![u] = Over]
  /\ UNCHANGED <<general, oper, save, trouble>>

\* A write fails, or the watch reaches UPGRADE_WATCH_SECS: logged, and over.
GivesUp(u) ==
  /\ up[u].pc \in {"accepted", "watch", "phase2"} /\ Trouble
  /\ up' = [up EXCEPT ![u] = Over]
  /\ UNCHANGED <<cr, oper, save>>

-----------------------------------------------------------------------------
(* create_cluster as the save path.                                          *)

\* versions_of what is there.
SaveReads(s) ==
  /\ save[s].pc = "idle"
  /\ save' = [save EXCEPT ![s] = [pc |-> "read", general |-> general, dashboards |-> dashboards]]
  /\ UNCHANGED <<cr, oper, up, trouble>>

Saved == [pc |-> "over", general |-> None, dashboards |-> None]

\* A forced server-side apply of both.
SaveApplies(s) ==
  /\ save[s].pc = "read"
  /\ general' = save[s].general /\ dashboards' = save[s].dashboards
  /\ save' = [save EXCEPT ![s] = Saved]
  /\ UNCHANGED <<oper, up, trouble>>

-----------------------------------------------------------------------------
(* The backend process and the operator.                                     *)

\* The backend restarts: requests and watches are gone, and nothing at startup
\* looks for nodes that are ahead of their Dashboards.
Crash ==
  /\ Trouble
  /\ up' = [u \in Users |-> IF up[u].pc = "idle" THEN up[u] ELSE Over]
  /\ save' = [s \in Saves |-> IF save[s].pc = "read" THEN Saved ELSE save[s]]
  /\ UNCHANGED <<cr, oper>>

\* What the operator rolls; anything else it refuses.
OperatorTakes == general > running /\ Major(general) <= Major(running) + 1

OperatorStarts ==
  /\ OperatorTakes /\ pool = "none"
  /\ pool' = "pending"
  /\ UNCHANGED <<cr, running, green, warning, up, save, trouble>>

OperatorRolls ==
  /\ OperatorTakes /\ pool = "pending"
  /\ pool' = "upgrading"
  /\ UNCHANGED <<cr, running, green, warning, up, save, trouble>>

OperatorFinishes ==
  /\ OperatorTakes /\ pool = "upgrading"
  /\ running' = general /\ pool' = "none"
  /\ UNCHANGED <<cr, green, warning, up, save, trouble>>

\* The spec went back under the roll: whether the row goes is the operator's affair.
OperatorStops ==
  /\ pool # "none" /\ ~OperatorTakes
  /\ pool' = "none"
  /\ UNCHANGED <<cr, running, green, warning, up, save, trouble>>

OperatorRefuses ==
  /\ ~OperatorTakes /\ general # running /\ ~warning
  /\ warning' = TRUE
  /\ UNCHANGED <<cr, running, pool, green, up, save, trouble>>

EventExpires ==
  /\ warning /\ Trouble
  /\ warning' = FALSE
  /\ UNCHANGED <<cr, running, pool, green, up, save>>

HealthMoves ==
  /\ green' = ~green
  /\ UNCHANGED <<cr, running, pool, warning, up, save, trouble>>

\* A deployment as its create left it and the operator first reported it.
Init ==
  /\ general \in Versions /\ dashboards = general /\ running = general
  /\ pool = "none" /\ green = FALSE /\ warning = FALSE
  /\ up = [u \in Users |-> Off]
  /\ save = [s \in Saves |-> [Saved EXCEPT !.pc = "idle"]]
  /\ trouble = 0

Request(u) == ReadStatus(u) \/ GivesUp(u)
Upgrade(u) == Preflight(u) \/ PatchVersion(u) \/ Poll(u) \/ Judge(u) \/ PatchDashboards(u)
Operator == OperatorStarts \/ OperatorRolls \/ OperatorFinishes \/ OperatorRefuses

Next ==
  \/ \E u \in Users : Request(u) \/ Upgrade(u)
  \/ \E s \in Saves : SaveReads(s) \/ SaveApplies(s)
  \/ Crash \/ Operator \/ OperatorStops \/ EventExpires \/ HealthMoves

\* Requests and spawned tasks run on, and the operator does what it takes on.
Fairness == WF_vars(Operator) /\ \A u \in Users : WF_vars(Upgrade(u))

Spec == Init /\ [][Next]_vars
FairSpec == Spec /\ Fairness
-----------------------------------------------------------------------------
(* Properties.                                                               *)

\* The types of the CR, of what the operator reports, and of the processes.
TypeOK ==
  /\ general \in Versions /\ dashboards \in Versions /\ running \in Versions
  /\ pool \in {"none", "pending", "upgrading"} /\ green \in BOOLEAN /\ warning \in BOOLEAN
  /\ up \in [Users -> [pc : {"idle", "read", "accepted", "watch", "poll", "phase2", "over"},
                       target : Versions \cup {None}, seen : Seen \cup {None}]]
  /\ save \in [Saves -> [pc : {"idle", "read", "over"}, general : Versions \cup {None},
                         dashboards : Versions \cup {None}]]
  /\ trouble \in 0 .. MaxTrouble

\* However requests, saves and rolls interleave, Dashboards is never asked to run
\* a version the nodes do not report (k8s.rs, upgrade_cluster: "so a newer
\* Dashboards never talks to older nodes").
DashboardsNeverNewer == dashboards <= running

\* Nothing is under way: no request, no task, no save, and the operator has
\* rolled or refused what the spec asks for.
Quiescent ==
  /\ \A u \in Users : up[u].pc \in {"idle", "over"}
  /\ \A s \in Saves : save[s].pc # "read"
  /\ pool = "none" /\ (general # running => ~OperatorTakes /\ warning)

\* Nodes left ahead of their Dashboards can always be retried (k8s.rs: "retry the
\* upgrade to re-run this phase only"): no sequence of refusals, races and
\* restarts leaves a healthy deployment whose retry the pre-flight refuses.
NeverWedged ==
  Quiescent /\ green /\ dashboards # running => Passes(Status, running)

\* Nobody but u, and nothing that goes wrong.
Alone(u) ==
  /\ trouble = 0
  /\ \A w \in Users \ {u} : up[w].pc = "idle"
  /\ \A s \in Saves : save[s].pc = "idle"

\* What the pre-flight lets through the operator carries out: undisturbed, an
\* accepted upgrade ends with nodes and Dashboards on its target.
AcceptedCompletes ==
  \A u \in Users : \A v \in Versions :
    [](Alone(u)) /\ <>[]green =>
      (up[u].pc = "accepted" /\ up[u].target = v ~> running = v /\ dashboards = v)
=============================================================================
