-------------------------- MODULE BootstrapGrants --------------------------
(***************************************************************************)
(* The two temporary cluster-admin grants of VeloxSearch and everything    *)
(* that uses, needs or drops them: the bootstrap installer (ensure and     *)
(* run_install), the storage gate of a cluster creation with its Longhorn  *)
(* install and sizing, the operator upgrade behind its own grant, and the  *)
(* watch that deletes whichever grant has nothing left to do               *)
(* (bootstrap.rs, operator_upgrade.rs).                                    *)
(*                                                                         *)
(* One bundle apply is one pc value, during which the powers are needed,   *)
(* and one step at which its objects land or the API server refuses them.  *)
(* The probes of one status call are read at one moment.  Nobody but       *)
(* Longhorn creates a StorageClass, so the demotion of a node-local        *)
(* default at the end of install_longhorn has nothing to demote.           *)
(***************************************************************************)
EXTENDS Conformity

CONSTANTS Requests,     \* the requests that reach this code, each of some kind
          AllowForeign, \* VELOX_ALLOW_FOREIGN_OPERATOR
          MaxEvents     \* bound on what the surroundings do

ASSUME GrantsAssumption == AllowForeign \in BOOLEAN /\ MaxEvents \in Nat

VARIABLES bind,     \* the veloxsearch-bootstrap binding exists
          grant,    \* the upgrade grant: absent, within its TTL, past it
          cm,       \* cert-manager's controller Deployments
          ours,     \* the operator Deployment in our namespace
          foreign,  \* an operator Deployment in another namespace
          drift,    \* ours runs another image than the vendored one
          small,    \* fewer schedulable nodes than LONGHORN_DEFAULT_REPLICAS
          sc,       \* what classify_storage finds
          lh,       \* Longhorn's driver-deployer is installed
          job,      \* bootstrap::JOB
          ujob,     \* operator_upgrade::JOB
          pc,       \* where each request, or the job it started, is
          watch,    \* where run_revoke_watch is in its tick
          upset,    \* history: installs overlapped, or a sizing deleted the class
          events    \* what the surroundings have done so far

cluster == <<bind, grant, cm, ours, foreign, drift, small, sc, lh>>
vars == <<bind, grant, cm, ours, foreign, drift, small, sc, lh, job, ujob, pc, watch, upset, events>>

Deploys == {"absent", "unready", "ready"}

EnsurePcs == {"begin", "recheck", "late_revoke", "cm", "cm_apply", "cm_wait",
              "op", "op_apply", "op_wait", "storage", "revoke"}
GatePcs == {"size", "sizing", "free", "lh_apply", "lh_wait", "lh_size",
            "lh_sizing", "lh_check", "lh_free", "regate"}
UpgradePcs == {"up_begin", "up_apply", "up_wait"}

TypeOK ==
    /\ bind \in BOOLEAN
    /\ grant \in {"none", "fresh", "old"}
    /\ cm \in Deploys /\ ours \in Deploys
    /\ foreign \in BOOLEAN /\ drift \in BOOLEAN
    /\ small \in BOOLEAN /\ lh \in BOOLEAN
    /\ sc \in {"absent", "default", "longhorn"}
    /\ job \in {"idle", "running", "failed"}
    /\ ujob \in {"idle", "running", "done", "failed"}
    /\ pc \in [Requests -> {"idle", "done", "passed"} \cup EnsurePcs \cup GatePcs \cup UpgradePcs]
    /\ watch \in {"idle", "expire", "probe", "due"}
    /\ upset \in BOOLEAN
    /\ events \in 0..MaxEvents

Init ==
    /\ bind \in BOOLEAN /\ grant = "none"
    /\ cm \in {"absent", "ready"} /\ ours \in {"absent", "ready"}
    /\ foreign \in BOOLEAN /\ ~(foreign /\ ours = "ready")
    /\ drift \in (IF ours = "absent" THEN {FALSE} ELSE BOOLEAN)
    /\ sc \in {"absent", "default", "longhorn"}
    /\ lh = (sc = "longhorn") /\ small \in BOOLEAN
    /\ job = "idle" /\ ujob = "idle"
    /\ pc = [r \in Requests |-> "idle"] /\ watch = "idle"
    /\ upset = FALSE /\ events = 0

Goto(r, l) == pc' = [pc EXCEPT ![r] = l] /\ UNCHANGED watch
Event == events < MaxEvents /\ events' = events + 1

-----------------------------------------------------------------------------
(* What the probes compute.                                                *)

Admin == bind \/ grant # "none"
ForeignBlock == foreign /\ ~AllowForeign
OperatorReady == foreign \/ ours = "ready"      \* a foreign one serves here
Ready == cm = "ready" /\ OperatorReady /\ ~ForeignBlock
NeedsLonghorn == sc = "absent"

(* One status call: the operator it sees, what is ready then, the refusal. *)
Operators ==
    {Deployed("theirs", TRUE, "none") : x \in {y \in {0} : foreign}} \cup
    {Deployed("ours", ours = "ready", IF drift THEN "older" ELSE Vendored) :
       x \in {y \in {0} : ours # "absent"}}
Seen(f) == IF f.scan = "unread" THEN Unread ELSE Presence(f.crds, Operators)
ReadyAs(p) == cm = "ready" /\ p.ready /\ ~Blocks(p, AllowForeign)
Bootstrap(p) ==
    [ready |-> ReadyAs(p), admin |-> Admin, storage |-> sc, operator |-> p,
     allow |-> AllowForeign, cm |-> cm, installing |-> job = "running"]
Unsupported(f) == Refused(Requirements(f, Bootstrap(Seen(f))))

(* What the create flow polls.                                             *)
StorageState(nodes) ==
    [needsLonghorn |-> NeedsLonghorn, installing |-> job = "running", failed |-> job = "failed",
     missing |-> IF NeedsLonghorn THEN MissingPackages(nodes) ELSE {}]
\* Mutant: the binding waits for Longhorn, on clusters that never install it.
RevokeDueOnLonghorn == Ready /\ sc = "longhorn"

RevokeDue == Ready /\ ~NeedsLonghorn

(* A request that is applying a bundle with cluster-admin, and one inside  *)
(* an install or an upgrade that the job must show.                        *)
Applying == {r \in Requests : pc[r] \in {"cm_apply", "op_apply", "lh_apply"}}
Installing == {r \in Requests : pc[r] \in
                 {"cm", "cm_apply", "cm_wait", "op", "op_apply", "op_wait", "storage",
                  "revoke", "lh_apply", "lh_wait", "lh_size", "lh_sizing", "lh_check"}}
Upgrading == {r \in Requests : pc[r] \in {"up_apply", "up_wait"}}

(* An install or upgrade that starts notes whether another is under way.   *)
Starts(r) == upset' = (upset \/ (Installing \cup Upgrading) \ {r} # {})

-----------------------------------------------------------------------------
(* ensure: one status, then a revocation, a refusal or an install.         *)

EnsureStep(f) ==
    IF ReadyAs(Seen(f)) THEN "recheck"
    ELSE IF job = "running" \/ Unsupported(f) THEN "done" ELSE "begin"

Ensure(e) ==
    /\ pc[e] = "idle"
    /\ \E step \in {EnsureStep(f) : f \in Clusters} : Goto(e, step)
    /\ UNCHANGED <<cluster, job, ujob, upset, events>>

(* Ready already: the revocation that an earlier process did not make.     *)
EnsureRechecks(e) ==
    /\ pc[e] = "recheck"
    /\ Goto(e, IF NeedsLonghorn THEN "done" ELSE "late_revoke")
    /\ UNCHANGED <<cluster, job, ujob, upset, events>>

EnsureRevokes(e) ==
    /\ pc[e] = "late_revoke"
    /\ bind' = FALSE
    /\ Goto(e, "done")
    /\ UNCHANGED <<grant, cm, ours, foreign, drift, small, sc, lh, job, ujob, upset, events>>

(* The job is marked several awaits after status() looked at it.           *)
EnsureBegins(e) ==
    /\ pc[e] = "begin"
    /\ job' = "running"
    /\ Goto(e, "cm") /\ Starts(e)
    /\ UNCHANGED <<cluster, ujob, events>>

(* Only an absent component is installed; an unready one is waited for.    *)
InstallStep(deploy, installed, apply, wait) ==
    IF deploy = "ready" THEN installed ELSE IF deploy = "unready" THEN wait ELSE apply

CertManagerStep(e) ==
    /\ pc[e] = "cm"
    /\ Goto(e, InstallStep(cm, "op", "cm_apply", "cm_wait"))
    /\ job' = IF cm = "ready" THEN job ELSE "running"
    /\ UNCHANGED <<cluster, ujob, upset, events>>

CertManagerApply(e) ==
    /\ pc[e] = "cm_apply" /\ Admin
    /\ cm' = IF cm = "absent" THEN "unready" ELSE cm
    /\ Goto(e, "cm_wait")
    /\ UNCHANGED <<bind, grant, ours, foreign, drift, small, sc, lh, job, ujob, upset, events>>

(* Every few seconds, up to a limit.                                       *)
Serves(deploy) == deploy = "ready"

CertManagerWait(e) ==
    /\ pc[e] = "cm_wait" /\ Serves(cm)
    /\ Goto(e, "op")
    /\ UNCHANGED <<cluster, job, ujob, upset, events>>

(* The foreign-operator guard and the decision come from one probe.        *)
OperatorStep(e) ==
    /\ pc[e] = "op" /\ ~ForeignBlock
    /\ Goto(e, IF foreign THEN "storage"
               ELSE InstallStep(ours, "storage", "op_apply", "op_wait"))
    /\ job' = IF OperatorReady THEN job ELSE "running"
    /\ UNCHANGED <<cluster, ujob, upset, events>>

OperatorApply(e) ==
    /\ pc[e] = "op_apply" /\ Admin
    /\ ours' = IF ours = "absent" THEN "unready" ELSE ours
    /\ drift' = FALSE
    /\ Goto(e, "op_wait")
    /\ UNCHANGED <<bind, grant, cm, foreign, small, sc, lh, job, ujob, upset, events>>

OperatorWait(e) ==
    /\ pc[e] = "op_wait" /\ Serves(ours)
    /\ Goto(e, "storage")
    /\ UNCHANGED <<cluster, job, ujob, upset, events>>

(* A cluster that still owes itself Longhorn keeps the binding.            *)
StorageStep(e) ==
    /\ pc[e] = "storage"
    /\ IF NeedsLonghorn THEN job' = "idle" /\ Goto(e, "done")
                        ELSE job' = job /\ Goto(e, "revoke")
    /\ UNCHANGED <<cluster, ujob, upset, events>>

InstallRevokes(e) ==
    /\ pc[e] = "revoke"
    /\ bind' = FALSE /\ job' = "idle"
    /\ Goto(e, "done")
    /\ UNCHANGED <<grant, cm, ours, foreign, drift, small, sc, lh, ujob, upset, events>>

(* A refused object, a wait that ran out, a failed probe.                  *)
InstallFails(e) ==
    /\ e \in Installing /\ pc[e] \in EnsurePcs \ {"revoke"}
    /\ job' = "failed"
    /\ Goto(e, "done")
    /\ UNCHANGED <<cluster, ujob, upset, events>>

EnsureNext(e) ==
    \/ Ensure(e) \/ EnsureRechecks(e) \/ EnsureRevokes(e) \/ EnsureBegins(e)
    \/ CertManagerStep(e) \/ CertManagerApply(e) \/ CertManagerWait(e)
    \/ OperatorStep(e) \/ OperatorApply(e) \/ OperatorWait(e)
    \/ StorageStep(e) \/ InstallRevokes(e) \/ InstallFails(e)

-----------------------------------------------------------------------------
(* ensure_storage_ready, with install_longhorn and the replica sizing.     *)

(* Fewer nodes than copies of a volume.                                    *)
NeedsSizing == ReplicasFor(IF small THEN 1 ELSE Copies) # Copies

StorageGate(c) ==
    /\ pc[c] = "idle"
    /\ IF NeedsLonghorn
       THEN job' = "running" /\ Goto(c, "lh_apply") /\ Starts(c)
       ELSE /\ Goto(c, IF sc = "longhorn" /\ NeedsSizing THEN "size" ELSE "free")
            /\ UNCHANGED <<job, upset>>
    /\ UNCHANGED <<cluster, ujob, events>>

LonghornApply(c) ==
    /\ pc[c] = "lh_apply" /\ Admin
    /\ lh' = TRUE
    /\ Goto(c, "lh_wait")
    /\ UNCHANGED <<bind, grant, cm, ours, foreign, drift, small, sc, job, ujob, upset, events>>

LonghornWait(c) ==
    /\ pc[c] = "lh_wait" /\ sc = "longhorn"
    /\ Goto(c, IF NeedsSizing THEN "lh_size" ELSE "lh_check")
    /\ UNCHANGED <<cluster, job, ujob, upset, events>>

(* The wait ends at once when the first issue of the nodes is fatal.       *)
LonghornRefuses(c) ==
    /\ pc[c] = "lh_wait"
    /\ "fatal" \in Issues
    /\ job' = "failed"
    /\ Goto(c, "done")
    /\ UNCHANGED <<cluster, ujob, upset, events>>

(* reconcile_longhorn_sizing deletes the class for the deployer to rebuild *)
(* it from the patched ConfigMap, and waits until it is back.              *)
DeleteClass(c, from, to) ==
    /\ pc[c] = from
    /\ sc' = IF sc = "longhorn" THEN "absent" ELSE sc
    /\ upset' = TRUE
    /\ Goto(c, to)
    /\ UNCHANGED <<bind, grant, cm, ours, foreign, drift, small, lh, job, ujob, events>>

ClassRebuilt(c, from, to) ==
    /\ pc[c] = from /\ sc = "longhorn"
    /\ Goto(c, to)
    /\ UNCHANGED <<cluster, job, ujob, upset, events>>

LonghornCheck(c) ==
    /\ pc[c] = "lh_check"
    /\ IF sc = "longhorn" THEN job' = "idle" /\ Goto(c, "lh_free")
                          ELSE job' = "failed" /\ Goto(c, "done")
    /\ UNCHANGED <<cluster, ujob, upset, events>>

GateRevokes(c, from, to) ==
    /\ pc[c] = from
    /\ bind' = FALSE
    /\ Goto(c, to)
    /\ UNCHANGED <<grant, cm, ours, foreign, drift, small, sc, lh, job, ujob, upset, events>>

GateRechecks(c) ==
    /\ pc[c] = "regate"
    /\ Goto(c, IF sc = "longhorn" THEN "passed" ELSE "done")
    /\ UNCHANGED <<cluster, job, ujob, upset, events>>

(* Only a failure inside install_longhorn is written to the job.           *)
GateFails(c) ==
    /\ pc[c] \in GatePcs \ {"free", "lh_free"}
    /\ job' = IF c \in Installing THEN "failed" ELSE job
    /\ Goto(c, "done")
    /\ UNCHANGED <<cluster, ujob, upset, events>>

(* The client hangs up: the handler's future is dropped where it stands.   *)
(* A bootstrap or an upgrade that has begun is a task of its own.          *)
HangUp(r) ==
    /\ Event /\ pc[r] \in GatePcs \cup {"recheck", "late_revoke", "begin", "up_begin"}
    /\ Goto(r, "done")
    /\ UNCHANGED <<cluster, job, ujob, upset>>

GateNext(c) ==
    \/ StorageGate(c) \/ LonghornApply(c) \/ LonghornWait(c) \/ LonghornRefuses(c)
    \/ DeleteClass(c, "size", "sizing") \/ DeleteClass(c, "lh_size", "lh_sizing")
    \/ ClassRebuilt(c, "sizing", "free") \/ ClassRebuilt(c, "lh_sizing", "lh_check")
    \/ LonghornCheck(c)
    \/ GateRevokes(c, "free", "passed") \/ GateRevokes(c, "lh_free", "regate")
    \/ GateRechecks(c) \/ GateFails(c)

-----------------------------------------------------------------------------
(* The operator upgrade: a verdict, then a job that ends in a revocation.  *)

\* operator_state.
Probed == Presence(TRUE, Operators)
Assess(i) == Report(Probed, i.change, i.clusters, job = "running")
Armed == grant # "none"
CanUpgrade(i) ==
    /\ Assess(i).state = "available" /\ Assess(i).blockers = {}
    /\ Armed /\ ujob # "running"

UpgradeVerdict(u) ==
    /\ pc[u] = "idle"
    /\ \E yes \in {CanUpgrade(i) : i \in Impacts} : Goto(u, IF yes THEN "up_begin" ELSE "done")
    /\ UNCHANGED <<cluster, job, ujob, upset, events>>

UpgradeBegins(u) ==
    /\ pc[u] = "up_begin"
    /\ ujob' = "running"
    /\ Goto(u, "up_apply") /\ Starts(u)
    /\ UNCHANGED <<cluster, job, events>>

UpgradeApply(u) ==
    /\ pc[u] = "up_apply" /\ Admin
    /\ ours' = "unready" /\ drift' = FALSE
    /\ Goto(u, "up_wait")
    /\ UNCHANGED <<bind, grant, cm, foreign, small, sc, lh, job, ujob, upset, events>>

(* Every pod is of the new template and serves.                            *)
RolledOut == ours = "ready"

UpgradeEnds(u, outcome) ==
    /\ u \in Upgrading
    /\ outcome = "done" => pc[u] = "up_wait" /\ RolledOut
    /\ grant' = "none" /\ ujob' = outcome
    /\ Goto(u, "done")
    /\ UNCHANGED <<bind, cm, ours, foreign, drift, small, sc, lh, job, upset, events>>

UpgradeNext(u) ==
    \/ UpgradeVerdict(u) \/ UpgradeBegins(u) \/ UpgradeApply(u)
    \/ \E outcome \in {"done", "failed"} : UpgradeEnds(u, outcome)

-----------------------------------------------------------------------------
(* run_revoke_watch: one tick is up to four steps, none of them atomic with *)
(* the next; a tick that finds an install running does nothing.                *)

GrantDue == grant = "old" /\ ujob # "running"

WatchTick ==
    /\ watch = "idle" /\ job # "running"
    /\ watch' = IF GrantDue THEN "expire" ELSE "probe"
    /\ UNCHANGED <<cluster, job, ujob, pc, upset, events>>

WatchExpires ==
    /\ watch = "expire"
    /\ grant' = "none"
    /\ watch' = "probe"
    /\ UNCHANGED <<bind, cm, ours, foreign, drift, small, sc, lh, job, ujob, pc, upset, events>>

\* Mutant: the job is looked at once, at the start of the tick.
WatchProbesOnce ==
    /\ watch = "probe"
    /\ watch' = IF bind /\ RevokeDue THEN "due" ELSE "idle"
    /\ UNCHANGED <<cluster, job, ujob, pc, upset, events>>

WatchProbes ==
    /\ watch = "probe"
    /\ watch' = IF bind /\ RevokeDue /\ job # "running" THEN "due" ELSE "idle"
    /\ UNCHANGED <<cluster, job, ujob, pc, upset, events>>

WatchRevokes ==
    /\ watch = "due"
    /\ bind' = FALSE
    /\ watch' = "idle"
    /\ UNCHANGED <<grant, cm, ours, foreign, drift, small, sc, lh, job, ujob, pc, upset, events>>

WatchNext == WatchTick \/ WatchExpires \/ WatchProbes \/ WatchRevokes

-----------------------------------------------------------------------------
(* The cluster and its administrator.                                      *)

Settle ==
    /\ \/ cm = "unready" /\ cm' = "ready" /\ UNCHANGED ours
       \/ ours = "unready" /\ ours' = "ready" /\ UNCHANGED cm
    /\ UNCHANGED <<bind, grant, foreign, drift, small, sc, lh, job, ujob, pc, watch, upset, events>>

DeployerRebuilds ==
    /\ lh /\ sc = "absent" /\ sc' = "longhorn"
    /\ UNCHANGED <<bind, grant, cm, ours, foreign, drift, small, lh, job, ujob, pc, watch, upset, events>>

GrantAges ==
    /\ grant = "fresh" /\ grant' = "old"
    /\ UNCHANGED <<bind, cm, ours, foreign, drift, small, sc, lh, job, ujob, pc, watch, upset, events>>

(* kubectl apply of install.yaml brings the binding back.                  *)
ReApply ==
    /\ Event /\ ~bind /\ bind' = TRUE
    /\ UNCHANGED <<grant, cm, ours, foreign, drift, small, sc, lh, job, ujob, pc, watch, upset>>

AdminGrants ==
    /\ Event /\ grant = "none" /\ grant' = "fresh"
    /\ UNCHANGED <<bind, cm, ours, foreign, drift, small, sc, lh, job, ujob, pc, watch, upset>>

OperatorRestarts ==
    /\ Event /\ ours = "ready" /\ ours' = "unready"
    /\ UNCHANGED <<bind, grant, cm, foreign, drift, small, sc, lh, job, ujob, pc, watch, upset>>

(* The pod restarts: both jobs live in memory, the requests are lost.      *)
Restart ==
    /\ Event
    /\ job' = "idle" /\ ujob' = "idle"
    /\ pc' = [r \in Requests |-> IF pc[r] \in {"idle", "passed"} THEN pc[r] ELSE "done"]
    /\ watch' = "idle"
    /\ UNCHANGED <<cluster, upset>>

Surroundings ==
    \/ Settle \/ DeployerRebuilds \/ GrantAges
    \/ ReApply \/ AdminGrants \/ OperatorRestarts \/ Restart

Handle(r) == EnsureNext(r) \/ GateNext(r) \/ UpgradeNext(r)

Next ==
    \/ \E r \in Requests : Handle(r) \/ HangUp(r)
    \/ WatchNext
    \/ Surroundings

(* A request that was taken up goes on to its end (waits have a limit),    *)
(* the watch ticks for ever, time passes and the deployer does its work.   *)
Fairness ==
    /\ \A r \in Requests : WF_vars(pc[r] # "idle" /\ Handle(r))
    /\ WF_vars(WatchNext)
    /\ WF_vars(Settle) /\ WF_vars(DeployerRebuilds) /\ WF_vars(GrantAges)

Spec == Init /\ [][Next]_vars /\ Fairness

-----------------------------------------------------------------------------
(* The watch never deletes the binding from under an installer or a        *)
(* Longhorn install that is applying a bundle with it, however long ago it *)
(* made the readings it decides on, unless two installs overlapped or a    *)
(* sizing had the StorageClass deleted for a moment (run_revoke_watch).    *)
WatchSparesInstalls ==
    [][ WatchRevokes /\ bind => upset \/ Applying = {} ]_vars

(* An install or upgrade in progress is shown by its job, which is what    *)
(* the watch and the upgrade verdict look at, unless two overlapped.       *)
WorkIsShown ==
    ~upset => /\ Installing # {} => \A nodes \in NodeLists : StorageState(nodes).installing
              /\ Upgrading # {} => ujob = "running"

(* A creation goes on only where its volumes can be provisioned, unless a  *)
(* sizing has the class deleted just then (ensure_storage_ready).          *)
GateMeansStorage == (\E r \in Requests : pc[r] = "passed") => ~NeedsLonghorn \/ upset

(* A job that no task of this process will ever change.                    *)
Wedged == job = "running" /\ Installing = {}

(* Once bootstrap is complete the binding goes for good, and a grant that  *)
(* nobody uses goes, unless a hang-up left the job marked as running.      *)
Complete == cm = "ready" /\ OperatorReady /\ ~ForeignBlock /\ sc # "absent"

PowersDropped ==
    <>[](~Wedged) => /\ <>[]Complete => <>[](~bind)
                     /\ <>[](grant = "none")
=============================================================================
