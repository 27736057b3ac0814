---------------------------- MODULE Provisioning ----------------------------
(***************************************************************************)
(* Deferred provisioning of one deployment (ADR-052, ADR-056):             *)
(* src/src/provisioning.rs, the applier in src/src/k8s.rs and the handlers *)
(* in src/src/api.rs that start it.                                        *)
(*                                                                         *)
(* The CR says what the deployment should have, a purpose and monitors; an *)
(* annotation on it records what has been applied.  A create, a save, a    *)
(* retry and the sampler's re-arm each give the record a fresh schedule    *)
(* and spawn an applier.  An applier reads both once per attempt, waits    *)
(* for the cluster to settle, applies what it read to be owed, and writes  *)
(* the record back whole.  Nothing orders these writers.                   *)
(*                                                                         *)
(* The Dashboards default, which is always marked done and never reported, *)
(* is left out, and so are the texts and times in the record.              *)
(***************************************************************************)
EXTENDS Naturals, FiniteSets

CONSTANTS
  Purposes,   \* the purposes a deployment may have
  Search,     \* the one that carries no monitors
  Monitors,   \* the built-in recipes a deployment may select
  None,       \* "absent"
  Users,      \* user requests: creates, saves, retries and toggles, one each
  Sampler,    \* the metrics sampler, which re-arms
  Appliers,   \* appliers that can run at once
  Budgets,    \* length of SETTLE_BUDGETS
  Trouble,    \* what goes wrong: "items", "calls", "restarts"
  MaxTrouble, \* bound: how often
  Kinds       \* what users do: "save", "retry", "toggle"

Starters == Users \cup {Sampler}
Items == Purposes \cup Monitors

\* What is assumed of the constants, by the modules that instantiate this one.
ProvisioningAssumption ==
  /\ Search \in Purposes /\ Purposes \cap Monitors = {}
  /\ Sampler \notin Users /\ None \notin Items
  /\ Budgets \in Nat \ {0} /\ MaxTrouble \in Nat
  /\ Trouble \subseteq {"items", "calls", "restarts"}
  /\ Kinds \subseteq {"save", "retry", "toggle"}

VARIABLES
  wanted,     \* the CR: purpose and monitors, or None before the create
  record,     \* the CR: the provisioning annotation, or None
  installed,  \* the cluster: its profile and its running monitors
  settled,    \* activity.settled
  req,        \* the requests, and the sampler's current tick
  task,       \* the appliers
  troubles,   \* how often something went wrong
  orderly,    \* history: each request so far found nothing running, nothing was
              \* toggled, no call failed and the backend did not restart
  doubled     \* history: a record counted two profiles as done

vars == <<wanted, record, installed, settled, req, task, troubles, orderly, doubled>>

-----------------------------------------------------------------------------
(* provisioning.rs                                                           *)

Wants == [purpose : Purposes, monitors : SUBSET Monitors]
Records == [done : SUBSET Items, attempts : 0 .. Budgets, exhausted : BOOLEAN]
NoneAssumption == None \notin Wants \cup Records

Fresh == [done |-> {}, attempts |-> 0, exhausted |-> FALSE]
Parse(r) == IF r = None THEN Fresh ELSE r

\* Mutant: the profile's key does not carry the purpose.
PendingAnyProfile(r, w) ==
  (w.monitors \ r.done) \cup (IF r.done \cap Purposes = {} THEN {w.purpose} ELSE {})

\* What is owed: the plan less what is done.
Pending(r, w) == ({w.purpose} \cup w.monitors) \ r.done

\* restart keeps the applied set.
Restart(r) == [r EXCEPT !.attempts = 0, !.exhausted = FALSE]
MarkFailed(r) == [r EXCEPT !.attempts = @ + 1]
WithDone(r, i) == [r EXCEPT !.done = @ \cup {i}]
RearmEligible(r, w) == r.exhausted /\ Pending(r, w) # {}

\* state_from: what the deployment reports.
Reported ==
  IF record = None \/ Pending(record, wanted) = {} THEN "complete"
  ELSE IF record.exhausted THEN "failed" ELSE "pending"

Goes(wrong) ==
  /\ wrong \in Trouble /\ troubles < MaxTrouble
  /\ troubles' = troubles + 1
  /\ orderly' = (orderly /\ wrong = "items")

\* A merge patch of the record, blind to what it replaces.  It may fail, and then
\* an applier logs and goes on.
Writes(r) ==
  /\ record' = r
  /\ doubled' = (doubled \/ \E p, q \in Parse(r).done \cap Purposes : p # q)
  /\ UNCHANGED <<troubles, orderly>>
WriteFails == Goes("calls") /\ UNCHANGED <<record, doubled>>
Write(r) == Writes(r) \/ WriteFails

-----------------------------------------------------------------------------
(* Requests: the create, save, retry and toggle handlers, and the re-arm.    *)

At(pc, saves, rec, item) == [pc |-> pc, saves |-> saves, rec |-> rec, item |-> item]
Waiting == At("idle", FALSE, None, None)
Blank(pc, n) == [pc |-> pc, round |-> n, want |-> None, rec |-> None, todo |-> {}]
Reading(n) == Blank("read", n)
OffTask == Blank("off", 0)

AtRest ==
  /\ \A r \in Starters : req[r].pc \in {"idle", "done"}
  /\ \A t \in Appliers : task[t].pc = "off"
InTurn == orderly' = (orderly /\ AtRest)

MayStart(r) == req[r].pc = "idle"
Starts(r, saves) == req' = [req EXCEPT ![r] = At("begin", saves, None, None)]
Ends(r) ==
  req' = [req EXCEPT ![r] = At(IF r = Sampler THEN "idle" ELSE "done", FALSE, None, None)]

\* create_cluster and save_cluster write the CR; search carries no monitors.  An
\* apply without the annotation removes it only when nobody else owns it, and a
\* toggle may.
Save(r) ==
  /\ "save" \in Kinds /\ MayStart(r)
  /\ \E p \in Purposes, ms \in SUBSET Monitors :
       /\ p = Search => ms = {}
       /\ \/ wanted' = [purpose |-> p, monitors |-> ms] /\ InTurn
          \/ /\ "toggle" \in Kinds /\ wanted # None /\ ms = {}
             /\ wanted' = [purpose |-> p, monitors |-> wanted.monitors]
             /\ orderly' = FALSE
  /\ Starts(r, TRUE)
  /\ UNCHANGED <<record, installed, settled, task, troubles, doubled>>

Retry(r) ==
  /\ "retry" \in Kinds /\ MayStart(r) /\ wanted # None
  /\ Starts(r, FALSE) /\ InTurn
  /\ UNCHANGED <<wanted, record, installed, settled, task, troubles, doubled>>

\* apply_recipe and disable_recipe: the cluster first, ...
Toggle(r) ==
  /\ "toggle" \in Kinds /\ MayStart(r) /\ wanted # None
  /\ \E m \in Monitors, pc \in {"enable", "disable"} :
       /\ req' = [req EXCEPT ![r] = At(pc, FALSE, None, m)]
       /\ installed' = [installed EXCEPT !.monitors =
                          IF pc = "enable" THEN @ \cup {m} ELSE @ \ {m}]
  /\ orderly' = FALSE
  /\ UNCHANGED <<wanted, record, settled, task, troubles, doubled>>

\* ... then set_monitor; the record is not touched.
ToggleMarks(r) ==
  /\ req[r].pc \in {"enable", "disable"}
  /\ wanted' = [wanted EXCEPT !.monitors =
                  IF req[r].pc = "enable" THEN @ \cup {req[r].item} ELSE @ \ {req[r].item}]
  /\ Ends(r)
  /\ UNCHANGED <<record, installed, settled, task, troubles, orderly, doubled>>

\* maybe_rearm_provisioning: the sampler's tick.  Dashboards is ready in a settled
\* cluster, and may be in any other.
Rearm ==
  /\ MayStart(Sampler) /\ wanted # None
  /\ RearmEligible(Parse(record), wanted)
  /\ Starts(Sampler, FALSE) /\ InTurn
  /\ UNCHANGED <<wanted, record, installed, settled, task, troubles, doubled>>

\* begin_deferred_provisioning reads the record, ...
Begin(r) ==
  /\ req[r].pc = "begin"
  /\ req' = [req EXCEPT ![r].pc = "mark", ![r].rec = Restart(Parse(record))]
  /\ UNCHANGED <<wanted, record, installed, settled, task, troubles, orderly, doubled>>

\* ... and writes it back.
MarkRecord(r) ==
  /\ req[r].pc = "mark"
  /\ Writes(req[r].rec)
  /\ req' = [req EXCEPT ![r].pc = "spawn"]
  /\ UNCHANGED <<wanted, installed, settled, task>>

\* A create and a save spawn the applier even when the write fails; a retry and a
\* re-arm, which have changed nothing, do not.
MarkFails(r) ==
  /\ req[r].pc = "mark"
  /\ WriteFails
  /\ IF req[r].saves THEN req' = [req EXCEPT ![r].pc = "spawn"] ELSE Ends(r)
  /\ UNCHANGED <<wanted, installed, settled, task>>

Spawn(r) ==
  /\ req[r].pc = "spawn"
  /\ \E t \in Appliers :
       /\ task[t].pc = "off"
       /\ task' = [task EXCEPT ![t] = Reading(0)]
  /\ Ends(r)
  /\ UNCHANGED <<wanted, record, installed, settled, troubles, orderly, doubled>>

-----------------------------------------------------------------------------
(* The applier: run_deferred_provisioning.                                   *)

Move(t, to) == task' = [task EXCEPT ![t] = to]
Again(t) == Reading(task[t].round + 1)

\* One attempt starts: the CR and the record are read once.  The local bound on
\* attempts is one more than the schedule.
ReadDeferred(t) ==
  /\ task[t].pc = "read" /\ task[t].round <= Budgets
  /\ LET rec == Parse(record)
     IN  Move(t, [task[t] EXCEPT !.want = wanted, !.rec = rec,
                    !.pc = IF rec.attempts < Budgets THEN "wait" ELSE "giveup"])
  /\ UNCHANGED <<wanted, record, installed, settled, req, troubles, orderly, doubled>>

\* The local bound: the applier stops without a word on the CR.
RunsOut(t) ==
  /\ task[t].pc = "read" /\ task[t].round > Budgets
  /\ Move(t, OffTask)
  /\ UNCHANGED <<wanted, record, installed, settled, req, troubles, orderly, doubled>>

\* The kube client or the read fails: the applier stops, again without a word.
ReadFails(t) ==
  /\ task[t].pc = "read" /\ Goes("calls")
  /\ Move(t, OffTask)
  /\ UNCHANGED <<wanted, record, installed, settled, req, doubled>>

GiveUp(t) ==
  /\ task[t].pc = "giveup"
  /\ Write([task[t].rec EXCEPT !.exhausted = TRUE])
  /\ Move(t, OffTask)
  /\ UNCHANGED <<wanted, installed, settled, req>>

TimesOut(t) ==
  /\ task[t].pc = "wait" /\ ~settled
  /\ Write(MarkFailed(task[t].rec))
  /\ Move(t, Again(t))
  /\ UNCHANGED <<wanted, installed, settled, req>>

Settles(t) ==
  /\ task[t].pc = "wait" /\ settled
  /\ Move(t, [task[t] EXCEPT !.pc = "apply",
                             !.todo = Pending(task[t].rec, task[t].want)])
  /\ UNCHANGED <<wanted, record, installed, settled, req, troubles, orderly, doubled>>

MarkDone(t, i) ==
  Move(t, [task[t] EXCEPT !.todo = @ \ {i}, !.rec = WithDone(@, i)])

\* The profile is first; applying search takes the monitors away.
ApplyProfile(t) ==
  /\ task[t].pc = "apply"
  /\ \E p \in task[t].todo \cap Purposes :
       /\ MarkDone(t, p)
       /\ installed' = [profile  |-> p,
                        monitors |-> IF p = Search THEN {} ELSE installed.monitors]
  /\ UNCHANGED <<wanted, record, settled, req, troubles, orderly, doubled>>

\* Mutant: monitors do not wait for the profile.
ApplyMonitorEarly(t) ==
  /\ task[t].pc = "apply"
  /\ \E m \in task[t].todo \cap Monitors :
       /\ MarkDone(t, m)
       /\ installed' = [installed EXCEPT !.monitors = @ \cup {m}]
  /\ UNCHANGED <<wanted, record, settled, req, troubles, orderly, doubled>>

ApplyMonitor(t) ==
  /\ task[t].pc = "apply" /\ task[t].todo \cap Purposes = {}
  /\ \E m \in task[t].todo \cap Monitors :
       /\ MarkDone(t, m)
       /\ installed' = [installed EXCEPT !.monitors = @ \cup {m}]
  /\ UNCHANGED <<wanted, record, settled, req, troubles, orderly, doubled>>

\* A profile that fails ends the pass; a monitor that fails does not.
ItemFails(t) ==
  /\ task[t].pc = "apply" /\ Goes("items")
  /\ IF task[t].todo \cap Purposes # {}
     THEN Move(t, [task[t] EXCEPT !.todo = {}])
     ELSE \E m \in task[t].todo : Move(t, [task[t] EXCEPT !.todo = @ \ {m}])
  /\ UNCHANGED <<wanted, record, installed, settled, req, doubled>>

\* Mutant: a failed attempt is the applier's last.
PassEndsForGood(t) ==
  /\ task[t].pc = "apply" /\ task[t].todo = {}
  /\ Write(IF Pending(task[t].rec, task[t].want) = {} THEN None ELSE MarkFailed(task[t].rec))
  /\ Move(t, OffTask)
  /\ UNCHANGED <<wanted, installed, settled, req>>

\* One write per pass: nothing owed clears the record, anything owed is a failed
\* attempt.
PassEnds(t) ==
  /\ task[t].pc = "apply" /\ task[t].todo = {}
  /\ IF Pending(task[t].rec, task[t].want) = {}
     THEN Write(None) /\ Move(t, OffTask)
     ELSE Write(MarkFailed(task[t].rec)) /\ Move(t, Again(t))
  /\ UNCHANGED <<wanted, installed, settled, req>>

-----------------------------------------------------------------------------
(* The cluster and the backend process.                                      *)

Moves ==
  /\ settled' = ~settled
  /\ UNCHANGED <<wanted, record, installed, req, task, troubles, orderly, doubled>>

\* The backend restarts: what ran is gone, and nothing at startup looks for
\* records that still owe work.
Crash ==
  /\ Goes("restarts")
  /\ task' = [t \in Appliers |-> OffTask]
  /\ req' = [r \in Starters |->
               IF r # Sampler /\ req[r].pc # "idle" THEN At("done", FALSE, None, None)
                                                    ELSE Waiting]
  /\ UNCHANGED <<wanted, record, installed, settled, doubled>>

Init ==
  /\ wanted = None /\ record = None /\ settled = FALSE
  /\ installed = [profile |-> None, monitors |-> {}]
  /\ req = [r \in Starters |-> Waiting]
  /\ task = [t \in Appliers |-> OffTask]
  /\ troubles = 0 /\ orderly = TRUE /\ doubled = FALSE

UserStarts(r) == Save(r) \/ Retry(r) \/ Toggle(r)
RequestGoesOn(r) == ToggleMarks(r) \/ Begin(r) \/ MarkRecord(r) \/ MarkFails(r) \/ Spawn(r)
Applier(t) ==
  \/ ReadDeferred(t) \/ RunsOut(t) \/ GiveUp(t) \/ TimesOut(t) \/ Settles(t)
  \/ ApplyProfile(t) \/ ApplyMonitor(t) \/ PassEnds(t)

Next ==
  \/ \E r \in Users : UserStarts(r)
  \/ Rearm
  \/ \E r \in Starters : RequestGoesOn(r)
  \/ \E t \in Appliers : Applier(t) \/ ItemFails(t) \/ ReadFails(t)
  \/ Moves \/ Crash

\* Spawned tasks and handlers run on, and the sampler ticks for ever.
Fairness ==
  /\ WF_vars(settled /\ Rearm)
  /\ \A r \in Starters : WF_vars(RequestGoesOn(r))
  /\ \A t \in Appliers : WF_vars(Applier(t))

Spec == Init /\ [][Next]_vars
FairSpec == Spec /\ Fairness
-----------------------------------------------------------------------------
(* Properties.                                                               *)

\* The types of the CR, the cluster and the processes.
TypeOK ==
  /\ wanted \in Wants \cup {None}
  /\ record \in Records \cup {None}
  /\ installed \in [profile : Purposes \cup {None}, monitors : SUBSET Monitors]
  /\ settled \in BOOLEAN /\ troubles \in 0 .. MaxTrouble
  /\ orderly \in BOOLEAN /\ doubled \in BOOLEAN
  /\ req \in [Starters -> [pc : {"idle", "begin", "mark", "spawn", "enable", "disable", "done"},
                           saves : BOOLEAN, rec : Records \cup {None},
                           item : Monitors \cup {None}]]
  /\ task \in [Appliers -> [pc : {"off", "read", "wait", "giveup", "apply"},
                            round : 0 .. Budgets + 1, want : Wants \cup {None},
                            rec : Records \cup {None}, todo : SUBSET Items]]

\* A deployment reported complete, with no request under way, has every monitor it
\* selected, and its profile unless a record once counted two (provisioning.rs: the
\* defect was a green deployment "with no collection agents and no profile" that
\* looked finished), as long as what came so far was orderly.
CompleteIsApplied ==
  /\ orderly /\ wanted # None /\ Reported = "complete"
  /\ \A r \in Starters : req[r].pc \in {"idle", "done"}
  => /\ installed.profile = wanted.purpose \/ doubled
     /\ wanted.monitors \subseteq installed.monitors

\* A save keeps what the record counts as applied, and "keeping the set can never
\* hide new work" (provisioning.rs, restart): with nothing running, a deployment
\* whose cluster has another profile than its purpose owes that profile.
PurposeIsOwed ==
  /\ wanted # None /\ installed.profile # wanted.purpose
  /\ \A r \in Starters : req[r].pc \in {"idle", "done"}
  /\ \A t \in Appliers : task[t].pc = "off"
  => wanted.purpose \in Pending(Parse(record), wanted)

\* An applier never installs a monitor on a cluster that has no profile: its
\* indices would stay outside retention (provisioning.rs, plan).
MonitorsAfterProfile ==
  [][ (\E t \in Appliers : ApplyMonitor(t)) => installed.profile # None ]_vars

\* Once the cluster has settled for good, what a deployment owes gets applied: no
\* schedule that ran out and no failed item leaves it owing (ADR-056), as long as all that
\* comes is orderly.  Work whose applier a restart or a failed read ended waits for a user.
OwedGetsDone ==
  []orderly /\ <>[]settled => <>[](wanted # None => Reported = "complete")
=============================================================================
