--------------------------- MODULE DashboardsHold ---------------------------
(***************************************************************************)
(* The Dashboards first-boot hold and the .kibana_1 remediation of one     *)
(* deployment (src/src/k8s.rs, ADR-063).                                   *)
(*                                                                         *)
(* A held CR carries the hold annotation and spec.dashboards.replicas 0.   *)
(* Six parties write the two fields: create, a watch spawned by it, the    *)
(* metrics sampler, the remediation, a save, and the operator, whose full  *)
(* update drops a zero.  The watch and the sampler pin each write to the   *)
(* resourceVersion they read; the others do not.  A write that is pinned   *)
(* succeeds only while nothing else was written, which "fresh" stands for. *)
(***************************************************************************)
EXTENDS Naturals

CONSTANTS
  Watch,          \* the task create spawns: watch_new_dashboards_hold
  Samplers,       \* sampler ticks of this deployment: reconcile_dashboards_hold
  Saves,          \* save requests: create_cluster on an existing deployment
  RestartBudget,  \* DASHBOARDS_REMEDIATE_AFTER_RESTARTS
  MaxPolls,       \* bound: HOLD_WATCH_POLLS
  MaxTrouble      \* bound: full updates by the operator, deaths of a Dashboards that
                  \* is migrating or serving, failed API calls and backend restarts

\* An ASSUME of the module that instantiates this one.
HoldAssumption ==
  /\ Watch \notin Samplers
  /\ RestartBudget \in Nat /\ MaxPolls \in Nat /\ MaxTrouble \in Nat

VARIABLES
  exists,     \* the CR exists
  held,       \* it carries the hold annotation
  replicas,   \* spec.dashboards.replicas
  finalizer,  \* it carries the operator's finalizer
  rendered,   \* replicas of the Dashboards Deployment; 0 before there is one
  pod,        \* the Dashboards pod
  restarts,   \* its container's restart count, up to the budget
  index,      \* .kibana_1: absent, left by an aborted migration, or complete
  ripe,       \* the node pool has settled, or is steady past the ceiling
  poll,       \* the watch and the samplers
  polls,      \* polls of the watch so far
  rem,        \* the remediation task
  log,        \* its entry in this process's remediation log
  save,       \* the saves
  trouble     \* how much of that there was

cr      == <<exists, held, replicas, finalizer>>
cluster == <<rendered, pod, restarts, index, ripe>>
backend == <<poll, polls, rem, log, save>>
vars    == <<cr, cluster, backend, trouble>>

Pollers == Samplers \cup {Watch}
Off == [pc |-> "off", stored |-> 0, fresh |-> FALSE, due |-> FALSE, step |-> "nothing"]
Idle == [Off EXCEPT !.pc = "idle"]

\* Any write of the CR moves its resourceVersion on.
Written(p) == [p EXCEPT !.fresh = FALSE]
WriteCR(h, n) ==
  /\ held' = h /\ replicas' = n
  /\ poll' = [p \in Pollers |-> Written(poll[p])]

Trouble == trouble < MaxTrouble /\ trouble' = trouble + 1

-----------------------------------------------------------------------------
(* create_cluster: a new deployment is held from its first apply, and a save *)
(* re-applies what it read.                                                  *)

Create ==
  /\ ~exists
  /\ exists' = TRUE /\ held' = TRUE /\ replicas' = 0
  /\ poll' = [poll EXCEPT ![Watch] = Idle]
  /\ UNCHANGED <<finalizer, cluster, polls, rem, log, save, trouble>>

At(pc, h, n) == [pc |-> pc, held |-> h, replicas |-> n]
Done == At("done", FALSE, 1)

SaveRead(s) ==
  /\ exists /\ save[s].pc = "idle"
  /\ save' = [save EXCEPT ![s] = At("read", held, replicas)]
  /\ UNCHANGED <<cr, cluster, poll, polls, rem, log, trouble>>

\* A forced server-side apply.  Leaving the annotation out removes it only when
\* this manager alone owned it; who owns it is not modelled, so either happens.
SaveApply(s) ==
  /\ save[s].pc = "read"
  /\ \E h \in {save[s].held, save[s].held \/ held} : WriteCR(h, save[s].replicas)
  /\ save' = [save EXCEPT ![s] = Done]
  /\ UNCHANGED <<exists, finalizer, cluster, polls, rem, log, trouble>>

-----------------------------------------------------------------------------
(* The enforcers.                                                            *)

\* dashboards_hold_step for a CR that was read held.
HoldStep(stored, serving, due) ==
  CASE serving /\ stored # 0         -> "clear"
    [] serving /\ stored = 0         -> "release"
    [] ~serving /\ due               -> "release"
    [] ~serving /\ ~due /\ stored # 0 -> "enforce"
    [] ~serving /\ ~due /\ stored = 0 -> "nothing"

Snapshot(p) ==
  poll' = [poll EXCEPT ![p].pc = "read", ![p].stored = replicas, ![p].fresh = TRUE]
Rest(p, pc) == poll' = [poll EXCEPT ![p] = [Off EXCEPT !.pc = pc]]

\* The watch stops at its bound, when the hold is gone, and once the operator's
\* first write is in and the hold still reads 0.
WatchPoll ==
  /\ poll[Watch].pc = "idle" /\ exists
  /\ IF polls = MaxPolls \/ ~held \/ (finalizer /\ replicas = 0)
     THEN Rest(Watch, "off") /\ UNCHANGED polls
     ELSE Snapshot(Watch) /\ polls' = polls + 1
  /\ UNCHANGED <<cr, cluster, rem, log, save, trouble>>

\* A remediation this process is running owns its hold.  For a CR read held, the
\* whole status is evaluated: due is should_release_dashboards.
Evaluate(s) ==
  /\ poll[s].pc = "idle" /\ exists /\ held /\ log # "inflight"
  /\ poll' = [poll EXCEPT ![s].pc = "reread", ![s].due = ripe]
  /\ UNCHANGED <<cr, cluster, polls, rem, log, save, trouble>>

\* The CR is read again, to pin the write to a fresh version.
Reread(s) ==
  /\ poll[s].pc = "reread"
  /\ IF exists /\ held THEN Snapshot(s) ELSE Rest(s, "idle")
  /\ UNCHANGED <<cr, cluster, polls, rem, log, save, trouble>>

\* Whether a replica serves is read, and the step decided.
Decide(p) ==
  /\ poll[p].pc = "read"
  /\ LET step == HoldStep(poll[p].stored, pod = "serving", poll[p].due)
     IN  IF step = "nothing" THEN Rest(p, "idle")
         ELSE poll' = [poll EXCEPT ![p] = [Off EXCEPT !.pc = "patch", !.step = step,
                                                      !.fresh = poll[p].fresh]]
  /\ UNCHANGED <<cr, cluster, polls, rem, log, save, trouble>>

\* hold_step_patch on the CR as it is; the writer rests.
Applied(p) ==
  /\ held' = (held /\ poll[p].step = "enforce")
  /\ replicas' = CASE poll[p].step = "enforce" -> 0
                   [] poll[p].step = "release" -> 1
                   [] poll[p].step = "clear"   -> replicas
  /\ poll' = [q \in Pollers |-> IF q = p THEN Idle ELSE Written(poll[q])]

\* Mutant: the patch carries no resourceVersion.
PatchUnpinned(p) ==
  /\ poll[p].pc = "patch"
  /\ Applied(p)
  /\ UNCHANGED <<exists, finalizer, cluster, polls, rem, log, save, trouble>>

\* Pinned: a version that has moved on is a conflict, and nothing is written.
Patch(p) ==
  /\ poll[p].pc = "patch"
  /\ IF poll[p].fresh THEN Applied(p)
                      ELSE Rest(p, "idle") /\ UNCHANGED <<held, replicas>>
  /\ UNCHANGED <<exists, finalizer, cluster, polls, rem, log, save, trouble>>

\* The patch fails: the next poll decides again.  A read that fails is a poll that
\* never was.
PatchFails(p) ==
  /\ poll[p].pc = "patch" /\ Trouble
  /\ Rest(p, "idle")
  /\ UNCHANGED <<cr, cluster, polls, rem, log, save>>

-----------------------------------------------------------------------------
(* The remediation: armed by a status read on the dashboards rung, it holds, *)
(* waits for the pod to go, deletes the index and releases.                  *)

\* dashboards_block_in, on the dashboards rung: nodes up, no replica ready right
\* now, and the restarts of its pod over the budget.  The log admits one pass.
Arm ==
  /\ exists /\ ripe /\ pod \notin {"none", "serving"}
  /\ restarts >= RestartBudget /\ log = "free"
  /\ log' = "inflight" /\ rem' = "hold"
  /\ UNCHANGED <<cr, cluster, poll, polls, save, trouble>>

Finish == rem' = "off" /\ log' = "cooling"

PlaceHold ==
  /\ rem = "hold"
  /\ rem' = "delete"
  /\ WriteCR(TRUE, 0)
  /\ UNCHANGED <<exists, finalizer, cluster, polls, log, save, trouble>>

\* Mutant: the index is deleted under a pod that may still be booting.
DeleteIndexUnquiesced ==
  /\ rem = "delete"
  /\ rem' = "release" /\ index' = "absent"
  /\ UNCHANGED <<cr, rendered, pod, restarts, ripe, poll, polls, log, save, trouble>>

\* The wait before it ends when no pod is left, or when its polls are used up:
\* because the hold was undone under it, or the pod was slow to go.
DeleteIndex ==
  /\ rem = "delete"
  /\ rem' = "release"
  /\ \/ (pod = "none" \/ replicas = 1) /\ index' = "absent" /\ UNCHANGED trouble
     \/ Trouble /\ index' \in {"absent", index}
  /\ UNCHANGED <<cr, rendered, pod, restarts, ripe, poll, polls, log,
                 save>>

ReleaseHold ==
  /\ rem = "release"
  /\ Finish
  /\ WriteCR(FALSE, 1)
  /\ UNCHANGED <<exists, finalizer, cluster, polls, save, trouble>>

\* Placing or releasing the hold fails: the pass ends, and says so.
RemediationFails ==
  /\ rem \in {"hold", "release"} /\ Trouble
  /\ Finish
  /\ UNCHANGED <<cr, cluster, poll, polls, save>>

CooldownEnds ==
  /\ log = "cooling"
  /\ log' = "free"
  /\ UNCHANGED <<cr, cluster, poll, polls, rem, save, trouble>>

\* Mutant: the remediation log outlives the process.
CrashKeepsLog ==
  /\ exists /\ Trouble
  /\ poll' = [p \in Pollers |-> IF p = Watch THEN Off ELSE Idle]
  /\ save' = [s \in Saves |->
                IF save[s].pc = "read" THEN Done ELSE save[s]]
  /\ rem' = "off" /\ UNCHANGED log
  /\ UNCHANGED <<cr, cluster, polls>>

\* The backend restarts: tasks, requests and the log are gone.
Crash ==
  /\ exists /\ Trouble
  /\ poll' = [p \in Pollers |-> IF p = Watch THEN Off ELSE Idle]
  /\ save' = [s \in Saves |->
                IF save[s].pc = "read" THEN Done ELSE save[s]]
  /\ rem' = "off" /\ log' = "free"
  /\ UNCHANGED <<cr, cluster, polls>>

-----------------------------------------------------------------------------
(* The operator, the kubelet, Dashboards and the nodes.                      *)

\* A full-object update drops a zero, and the API server defaults it to 1.  The
\* first of them adds the finalizer.
OperatorFullUpdate ==
  /\ exists /\ Trouble
  /\ finalizer' = TRUE
  /\ WriteCR(held, 1)
  /\ UNCHANGED <<exists, cluster, polls, rem, log, save>>

OperatorRender ==
  /\ exists /\ rendered # replicas
  /\ rendered' = replicas
  /\ UNCHANGED <<cr, pod, restarts, index, ripe, backend, trouble>>

PodStarts ==
  /\ rendered = 1 /\ pod = "none"
  /\ pod' = "booting" /\ restarts' = 0
  /\ UNCHANGED <<cr, rendered, index, ripe, backend, trouble>>

PodGoes ==
  /\ rendered = 0 /\ pod # "none"
  /\ pod' = "none"
  /\ UNCHANGED <<cr, rendered, restarts, index, ripe, backend, trouble>>

\* A boot creates the index and migrates, or finds it complete.  One left by an
\* aborted migration reads as another instance migrating: the boot waits.
Boot ==
  /\ pod = "booting" /\ index # "partial"
  /\ pod' = IF index = "absent" THEN "migrating" ELSE "serving"
  /\ index' = IF index = "absent" THEN "partial" ELSE index
  /\ UNCHANGED <<cr, rendered, restarts, ripe, backend, trouble>>

MigrationEnds ==
  /\ pod = "migrating" /\ index = "partial"
  /\ pod' = "serving" /\ index' = "complete"
  /\ UNCHANGED <<cr, rendered, restarts, ripe, backend, trouble>>

Restarted ==
  /\ pod' = "booting"
  /\ restarts' = IF restarts < RestartBudget THEN restarts + 1 ELSE restarts

\* The startup probe kills a boot that cannot end.
ProbeKill ==
  /\ \/ pod = "booting" /\ index = "partial"
     \/ pod = "migrating" /\ index # "partial"
  /\ Restarted
  /\ UNCHANGED <<cr, rendered, index, ripe, backend, trouble>>

\* Any other death: a migration too slow for its probe, a serving pod out of memory.
Dies ==
  /\ pod \in {"migrating", "serving"} /\ Trouble
  /\ Restarted
  /\ UNCHANGED <<cr, rendered, index, ripe, backend>>

NodesMove ==
  /\ exists
  /\ ripe' = ~ripe
  /\ UNCHANGED <<cr, rendered, pod, restarts, index, backend, trouble>>

Init ==
  /\ exists = FALSE /\ held = FALSE /\ replicas = 1 /\ finalizer = FALSE
  /\ rendered = 0 /\ pod = "none" /\ restarts = 0 /\ index = "absent"
  /\ ripe = FALSE
  /\ poll = [p \in Pollers |-> IF p = Watch THEN Off ELSE Idle]
  /\ polls = 0 /\ rem = "off" /\ log = "free"
  /\ save = [s \in Saves |-> At("idle", FALSE, 1)]
  /\ trouble = 0

Sample(s) == Evaluate(s) \/ Reread(s)
Enforce(p) == Decide(p) \/ Patch(p)
Remediate == PlaceHold \/ DeleteIndex \/ ReleaseHold
Dashboards == PodStarts \/ PodGoes \/ Boot \/ MigrationEnds \/ ProbeKill

Next ==
  \/ Create \/ WatchPoll
  \/ \E s \in Saves : SaveRead(s) \/ SaveApply(s)
  \/ \E s \in Samplers : Sample(s)
  \/ \E p \in Pollers : Enforce(p) \/ PatchFails(p)
  \/ Arm \/ Remediate \/ RemediationFails \/ CooldownEnds \/ Crash
  \/ OperatorFullUpdate \/ OperatorRender \/ Dashboards \/ Dies
  \/ NodesMove

\* The sampler ticks for ever, a status read follows on each tick, spawned tasks
\* run, and the operator, the kubelet and Dashboards get on with what they can do.
Fairness ==
  /\ WF_vars(Create) /\ WF_vars(WatchPoll)
  /\ \A s \in Samplers : WF_vars(Sample(s))
  /\ \A p \in Pollers : WF_vars(Enforce(p))
  /\ WF_vars(Arm) /\ WF_vars(Remediate) /\ WF_vars(CooldownEnds)
  /\ WF_vars(OperatorRender) /\ WF_vars(Dashboards)

Spec == Init /\ [][Next]_vars
FairSpec == Spec /\ Fairness

-----------------------------------------------------------------------------
(* Properties.                                                               *)

\* The types of the CR's fields, of the cluster's, and of the processes'.
TypeOK ==
  /\ exists \in BOOLEAN /\ held \in BOOLEAN /\ replicas \in {0, 1} /\ finalizer \in BOOLEAN
  /\ rendered \in {0, 1}
  /\ pod \in {"none", "booting", "migrating", "serving"}
  /\ restarts \in 0 .. RestartBudget /\ index \in {"absent", "partial", "complete"}
  /\ ripe \in BOOLEAN
  /\ poll \in [Pollers -> [pc : {"off", "idle", "reread", "read", "patch"},
                           stored : {0, 1}, fresh : BOOLEAN,
                           due : BOOLEAN, step : {"nothing", "clear", "release", "enforce"}]]
  /\ polls \in 0 .. MaxPolls
  /\ log \in {"free", "inflight", "cooling"}
  /\ rem \in {"off", "hold", "delete", "release"}
  /\ save \in [Saves -> [pc : {"idle", "read", "done"}, held : BOOLEAN, replicas : {0, 1}]]
  /\ trouble \in 0 .. MaxTrouble

\* A Dashboards at zero always carries the annotation that gets it released
\* (k8s.rs: "an Enforce racing a Release must never leave a zero behind without
\* the annotation that gets it released").
NoOrphanZero == replicas = 0 => held

\* Once the nodes have settled for good Dashboards ends up serving: no hold, no
\* deadlocked migration and no half-done remediation keeps it down.
DashboardsComesUp == <>[](ripe) => <>[](pod = "serving")
=============================================================================
