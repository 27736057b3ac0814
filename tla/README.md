# A verification development of veloxsearch

veloxsearch is a control plane for OpenSearch: one Rust process (axum, kube)
that creates and runs `OpenSearchCluster` custom resources (CRs) for several
tenants and leaves the clusters themselves to the OpenSearch operator. This
directory holds TLA+ modules of its core, the TLC configurations that check
them on small instances, and proofs of what TLAPS can show for any instance.

Everything the process must remember about a deployment is on its CR, mostly in
annotations, or in a Secret. It runs as one replica, and inside it many actors
write the same few fields:

* HTTP handlers (`api.rs`), which axum drops when the client goes away;
* every read of a deployment's status (`k8s.rs`, `status_from`), which does
  repairs on the side: the reset backstop, the arming of remediations;
* the metrics sampler (`metrics.rs`, `run_sampler`), once per tick and
  deployment: it re-arms provisioning, reconciles the Dashboards hold, the
  collectors' credentials and the pending snapshot policy;
* detached tasks: the provisioning applier, the hold watch, the remediations,
  the watch of a version upgrade, the volume sweep;
* the operator, which writes whole CR objects of its own;
* restarts, after which the tasks are gone and only the cluster is left.

Almost nothing is locked. Most writes are merge patches or forced server-side
applies that do not say what they expect to find, and a handler decides on what
it read several awaits earlier. That is where this code is hard to get right and
hard to test, and what the modules here are about.

## Inventory

State and operations of each part, what is hard about it, and what makes it correct.

| Part | State | Operations | Hard because | Correct when |
|---|---|---|---|---|
| Admin-password reset (`admin_reset.rs`, `k8s.rs` 5060-5416) | Secret: `password`, `previous-password`; CR: `security-reset-pending` and a nudge | reset request with rollback; backstop: wait, forget, restore, retry, stall | two awaits between gate and write, three writes per reset, many concurrent readers, verdicts of older Jobs, one-hour window | the cluster's password is always in the Secret while a reset is open; no restore undoes an accepted one |
| Dashboards hold (`k8s.rs` 4259-4968) | CR: hold annotation, `spec.dashboards.replicas`; `.kibana_1`; an in-memory log | create, watch, sampler, save, remediation | six writers, of which two pin their writes; the operator drops a zero | a zero always has a releaser; Dashboards comes up |
| Deferred provisioning (`provisioning.rs`, `k8s.rs` 5420-5906) | CR: the record (applied set, attempts, exhausted), purpose, monitors | create, save, retry, toggle, re-arm; the applier | whole-record blind writes by several appliers, partial failures, restarts | reported complete means applied; what is owed is applied; profile before monitors |
| Version upgrade (`upgrade.rs`, `k8s.rs` 5908-6156) | `spec.general.version`, `spec.dashboards.version`, the operator's status and Events | pre-flight, two phases, the watch, the retry of phase two; saves | stale pre-flight, detached second phase, refusals only in Events | Dashboards never newer than the nodes; never stuck half way |
| Create, rollback, delete (`api.rs` 1665-1868, `k8s.rs` 1028-1233, 1790-1918) | in-flight names; the objects of a deployment; volumes | create, rollback, delete, sweep | rollback of another's objects, detached sweep | all of a deployment or nothing; no volume of a live one is swept |
| Annotation updates (`k8s.rs` 1925-2005) | monitors, integration versions | compare-and-swap with 12 attempts | lost updates, giving up | no update lost |
| Snapshots (`snapshot.rs`, `k8s.rs` 6780-7150) | CR slice, S3 Secret, policy, pending policy | save, the applier of a create, the sampler's deferred apply | three writes per save, unordered writers, a policy that must wait for a roll | no reference without its Secret; the last answered save is what finally runs |
| Bootstrap (`bootstrap.rs`) and operator upgrade (`operator_upgrade.rs`) | one job each in memory; two cluster-admin grants; the storage class | ensure, the storage gate with Longhorn, revoke, the watch; start, expiry | check then set, a revocation under a running install, jobs lost or left running | the job shows who works; no grant goes from under work, and none is left over |
| Cluster remediations (`k8s.rs` 2820-4180) | an in-memory log with cooldown; a transient cluster setting | claim, raise, bounce, hand back | status reads race, the only memory of the raise is the log | one pass at a time; each raise is handed back |
| Tenants and accounts (`tenants.rs`, `k8s.rs` 6880-7700) | rows, tokens, audit log; the objects of a namespace | sign-up, verify, reset, the isolation reconcile | two stores without a transaction, transactions that wait for each other | a token works once; every namespace gets its walls |
| Observability stack (`otel_stack.rs`) and the Dashboards UI | CR keys and markers, objects, saved objects, multi-tenancy | install, its deferred task, uninstall, switch of the UI | forty steps, each of which can fail; a task that outlives its request | what reads as installed is whole; an uninstall leaves nothing |
| Collectors (`agents.rs`, `otel_stack.rs`) | two login Secrets, the hash in each pod template | install, remove, rotate, the tick that compares and repairs | reads of two Secrets, a reset with its undo, several writers | after a tick that ran alone every collector has the password OpenSearch takes |
| Identity provider (`auth_provider.rs`, `k8s.rs` 6380-6640) | three Secrets, a slice of the CR, the security index of the cluster | save, revert | two Secrets and a patch per save, a push that removes nothing | what the app shows is what the cluster authenticates against |
| Access (`access.rs`, `k8s.rs` 1235-1560) | ConfigMap; allow-list on the CR; a middleware and two routes per deployment | save, the pass at start-up, allow-list, create | four writers of the same routes, settings typed and settings stored | the routes follow the settings and the list |
| Retention (`retention.rs`, `profiles.rs`) | the installation's default; value, source and stamps on the CR; ISM policies | apply, reset, install, save | whoever wrote a policy is told by a stamp that is written later | a user's edit stands; CR and policy agree |
| Catalog and integrations (`catalog.rs`, `integrations.rs`, `recipes.rs`) | a cache; objects in OpenSearch; versions on the CR | install, uninstall | catalog, manifest and files are fetched at three instants; a fallback stands in | what is recorded is what runs; a removal leaves nothing |
| Activity and progress (`activity.rs`, `k8s.rs` 2617-3230) | none: recomputed by every status read | read | four reads of a cluster that moves on | settled misses nothing; the bar does not walk back |
| Metrics (`metrics.rs`, `profile.rs`) | an index behind an alias, its policy and template; counters that restart | sample, chart, profile | best-effort storage, counters that reset under the reader | no rate that was not; the series is bounded |
| Sessions and first-run setup (`auth.rs`), version feed, capacity, telemetry, build info, command line, web interface | cookies, a Secret, caches or none | log in, set up; reads | - | not modelled: see the end |

`PROJECT.json` lists the hazards of this code at their lines and which property
covers each.

## Modules

| Module | Models | Run | Proved in |
|---|---|---|---|
| `AdminReset` | a reset request, the backstop, the operator's Job | `passes` | `PassesProofs` |
| `Metrics` | the series, the chart and the rates of the profile | `passes` | `PassesProofs` |
| `DashboardsHold` | the hold and the `.kibana_1` remediation | `hold` | `DashboardsProofs` |
| `Provisioning` | the record, the applier and everyone who starts one | `life`, `contents`, `purposes` | `ProvisioningProofs`, `LifecycleProofs`, `ContentsProofs` |
| `VersionUpgrade` | pre-flight, both phases, saves, the operator | `upgrade` | `VersionUpgradeProofs` |
| `Lifecycle` | create, save, rollback, delete, the volume sweep | `life` | `LifecycleProofs` |
| `Integrations` | turning monitors on and off, the annotation loop | `contents` | `ContentsProofs` |
| `AnnotationSets` | what that loop promises | `contents`, as a property | `ContentsProofs` |
| `Retention` | four passes over CR and policies, edits | `contents` | `ContentsProofs` |
| `Collectors` | logins, hashes, resets, ticks | `contents` | `ContentsProofs` |
| `Catalog` | install and uninstall of one integration | `contents` | `ContentsProofs` |
| `Conformity` | what the probes of the installer and of the operator upgrade conclude | `grants` | `BootstrapGrantsProofs` |
| `BootstrapGrants` | the installer, the storage gate, the operator upgrade, the revoke watch | `grants` | `BootstrapGrantsProofs` |
| `Snapshots` | saves, appliers, the pending policy and the sampler | `settings` | `SettingsProofs` |
| `AuthProvider` | saves of the identity provider, the operator's push | `settings` | `SettingsProofs` |
| `Access` | settings, routes, allow-lists | `settings`, `access` | `SettingsProofs` |
| `Activity` | a status read over a cluster that moves | `settings` | `SettingsProofs` |
| `OtelStack` | install, deferred task, uninstall, switch of the UI | `otel` | `DashboardsProofs` |
| `Remediation` | status reads, the log, the raise and its hand-back | `passes`, `remediation` | `PassesProofs` |
| `Accounts` | sign-up, links, the isolation reconcile | `accounts` | `SettingsProofs` |

The `MC` module of a run extends or instantiates what the run checks. Four of them put components
together that share no state (`MCPasses`, `MCContents`, `MCSettings`, `MCLifecycle`): the
variable `part` says which component a behaviour is about, and the others stay where they start. Such
a run explores the sum of its parts and not their product, and its properties are those of the
components, each for the behaviours of its own. The proof modules extend
these MC modules, so that what is proved is the specification the run checks.

One action is the code between two awaits that touch shared state; what a task
has read stays in its own record (`pend`, `fresh`, `seen`, `rec`, ...) until
a later action uses it, which is how stale readings come about. A call that can
fail has an action in which it does, and where the response may be lost, in
which the write landed all the same. Each of these, a restart and whatever else
goes wrong count towards one bound (`MaxFaults`, `MaxTrouble`).

**AdminReset.** `password` and `kept` are the two keys of the credentials
Secret, `pending` the marker on the CR, `req` the requests at their awaits
(`ReadCr`, `Gate`, `ReadPrevious`, `WriteSecret`, `Nudge` or its rollback), `rd`
the status reads at those of the backstop. A password is the request that sets
it. A Job pod is its password, the instant it was created and its phase; a
newest pod decides, ties are open. Time is a coarse clock: `Window`, `Skew` and
the instants of `MaxNow` keep the order of the code's 3600 and 30 seconds. The
operator's contract is external: a reconcile copies the Secret's password to the
probes and replaces a Job of other content. It may reconcile at any time (its own
resync), so the nudge is not a variable. An unreadable marker, which the code forgets, is not produced by anything here and is left out. Requests and readers come when they
like. `rested` is a history variable: each reset so far wrote to a deployment at rest (`AtRest`), on
which nothing of another reset was left, no reader was under way, no run was within the clock
tolerance, and whose Secret was as the request had read it. The gate asks for part of this, some
awaits before the write.

**DashboardsHold.** `held` and `replicas` are the two CR fields, `fresh` says
that nothing was written since the poller read the CR (its `resourceVersion`
still stands), `log` is the entry in the remediation log of this process.
`ripe` stands for `should_release_dashboards`: the node pool settled, or steady
beyond the ceiling. Dashboards itself is external: it creates `.kibana_1`,
migrates and serves; an index left by an aborted migration stops the next boot
until the startup probe kills it. The remediation's wait for the pod either sees
it gone, or runs out of polls.

**Provisioning.** `wanted` is the CR's purpose and monitors, `record` the
annotation, `installed` what the cluster runs. An attempt reads both once
(`ReadDeferred`), waits, applies in the plan's order and writes the record back
whole. Texts, times and delays of the record are left out, as is the Dashboards
default item, which is marked done whether it applies or not and is never
reported. Requests, toggles and appliers overlap as they do in the code. Two
history variables say what happened: `orderly`, that each request so far found nothing running and
nothing was toggled, no call failed and the backend did not restart; `doubled`, that a
record counted two profiles as done. The snapshot configuration, which an applier carries in memory, comes
with the snapshot module. Catalog packages are monitors like the recipes, except
that a change to search does not remove them: the monitors here are recipes.

**VersionUpgrade.** A version is a number whose tens are its major. `up` holds
the requests and the watches they leave, `save` the saves, `pool` the operator's
Upgrader row, `warning` its Event; the Event is read after the CR. The operator
takes an upgrade of at most one major and refuses the rest with an Event; when
the spec goes back under a roll it drops the row (`OperatorStops`), which is an
assumption: nothing in this repository says so. Catalog, feed and registry only
refuse requests. The profile re-asserted at the end is outside the CR.

**Lifecycle.** `claimed` is whether `CREATES_IN_FLIGHT` holds the base name that
all creates of the model ask for, `drawn` the names `unique_name` has handed out; `crs`,
`secrets`, `routes`, `sets` and `volumes` are the deployments that have such an object, `task` the
requests at their awaits. A create writes Secret, CR and routes and, if one
fails, rolls back through the deletion that a delete runs too (`EraseCr`,
`EraseOthers`); both spawn the `sweep` of the volumes. Which check before the writes refuses a
request is not distinguished (`WriteFails`, `NamingFails`). The
deferred provisioning of a create is there as far as it installs collection agents (`applier`).
`lost` is a history variable: the deployments on which a request failed, was
cut, or wrote while another deleted. External: the operator makes a StatefulSet
of a CR and its controllers the volumes, and Kubernetes collects a StatefulSet
whose CR is gone. A stale reconcile that makes one after the deletion is left out.

**Integrations** and **AnnotationSets.** `monitors` and `versions` are the two
annotations as sets of ids, `running` what the engine has applied, `req` the
requests at their awaits with what they read. `fresh` are the requests whose
reading still has the CR's `resourceVersion`, so a patch lands exactly when its request is
in it; every other write to the CR (`OtherWrite`, external) empties it. The waits
between attempts have no action of their own. `unsure` is a history variable:
ids on which two requests overlapped or one failed. Saves are left out: a save writes the
list of its form over the monitors, on purpose. `AnnotationSets` is the abstract
specification: two sets, and updates that happen in one step or are given up.
`Integrations` maps the update a request is at to what it owes there.

**BootstrapGrants.** `bind` is the installer's cluster-admin binding, `grant`
that of the operator upgrade with its age, `job` and `ujob` the two jobs in
memory, `cm`, `ours`, `foreign`, `sc` what the probes find. A request is an
`ensure`, a creation at `ensure_storage_ready` or an operator upgrade; the watch
takes its tick in up to four steps. Applying a bundle is one value of `pc`,
during which the powers are needed. `upset` is a history variable: two installs
overlapped, or a sizing had the class deleted for a moment. What a probe reads of the cluster is a
record of facts, and what the installer and the upgrade conclude of it is in `Conformity`: which
presence of a component is ours, foreign or broken, how a verdict of the whole is put together, how
storage is sized, and what a new schema of the CRD takes from the deployments that are there
(`diff_crd`, `Report`). External: the components that become ready, Longhorn's driver-deployer, the administrator who
applies the manifests or a grant again.

**Snapshots.** `slice` and `secret` are the two halves of the keystore,
`policy` the applied policy, `pending` the one on the CR, `owed` and `rolling` the
node roll of which the operator is to be told, or is at. A policy is named by the save that asked for it. A
save's pre-flight (`plan`) is what it read; `crossed`, `mixed` and `owner` are
history variables that say which saves met no other writer.

**AuthProvider.** `files`, `saved` and `account` are the three Secrets, `cr` the slice with its kind
label and references, `index` what the operator last pushed. A save merges, validates,
writes and points step by step; going back to internal accounts unwinds the same in its own order.
A push without a securityconfig leaves the index as it is, which is why the revert pushes a file with
internal accounts only. A spec is a kind and a credential. `given` is what the user of the last
answered save meant, `crossed` and `amiss` say which saves met another or failed.

**Access.** `config` is the ConfigMap, `list` the allow-list on the CR, `middleware`, `dashboards`,
`ingress` and `route` the objects. A pass keeps what it read of settings and list; `settled` is
history: the last pass to write ran well and alone. Which Ingress classes a
cluster offers is chosen initially, and Traefik may go.

**Activity.** A read gathers CR, StatefulSet, claims and Dashboards Deployment in turn (`read`), while
the cluster is created, rolled, scaled and upgraded around it. `open` is history: what was unfinished
all through the read; `clean` says that nothing went back since the read before.

**Retention.** `live` are the policies, each with age, description, version and (history) writer;
`cr` has value, source and stamps; a pass carries what it read at its start, puts with the version
it saw, and stamps afterwards. `behind` says that indices still run an older version of the stack's policy.

**Collectors.** `admin` is the Secret of the deployment, `accepted` what OpenSearch takes; a password
is the number of its reset. `made` is what each collector's template says and its pods run, `login`
the Secrets they read. Applying a collector is two steps, its ConfigMap (`Configure`) and its
workload (`Workload`), and so is what becomes of a migration that ends between them: the password is gone
from the ConfigMap and the template does not name the Secret. The repair at start-up (`BeginRepair`) is a
pass of its own. `ticked` is history: the last tick ran to its end, alone, and nothing changed since;
`cut` has the collectors whose migration ended there, until they are applied again.

**Catalog.** One integration in three sorts (`id`): in the compiled-in floor, a recipe, or known to the registry only.
`cache` is the catalog with its TTL, `published` what the registry serves, `objects`, `agent`,
`monitor`, `recorded` what a deployment has of it. A request resolves a version, fetches manifest and files
each from what is then published, verifies, applies and records.

**Metrics.** `count` is the counter of each node, which starts again with its process, `series` the
samples, `index` how the series is stored (shaped by policy and template, or made by the first sample alone),
`gather` what a profile has read. A node may stop (`Leave`, and `Return` with a counter at zero), or be
missing from the answers for a while and be back with all it has counted (`silent`, `FallSilent`, `AnswerAgain`). An
operation counts in `done`, which no code reads: it is what rates are about; and a sample carries, as history,
what it is `missing` of nodes that run and did not answer.

**OtelStack.** `otelKeys`, `uiKeys`, `chosen` and `marker` are on the CR,
`booted` is what the Dashboards pod now serving was started with, `objects` the
Kubernetes objects in the order of `Inventory`, `engine` and `conns` the two halves of the datasource,
of which Dashboards may have several saved objects, `space`, `boards`, `moved` the workspace and what is in it.
Registering the datasource is a step per call: the two reads (`FindConnection`, `FindEngine`), the two
deletes whose errors are ignored (`DropEngine`, `Unpair`), and the POST (`Register`); a failed read
reads as absent, and the first of several data-connections is the one found. The index patterns, the
dashboards, and the panels with the correlations are three groups of `boards`, each nowhere, in the
workspace or outside any; patterns are written before the rest, any Dashboards takes them, only one
with the stack's keys takes panels, and a write that fails may have landed in part. An install
answers and leaves a deferred `task`. A deployment may start with a
stack of an older version, whose span template the install takes away (`marker`, `template`): the new
Data Prepper (`sink`) puts its own there, and the task then rolls the alias over so that spans go to an index made
from it (`spans`); or with one whose pods are stuck for want of an account, which an
install and every read of the panel set free (`Release`, `ReadPanel`). `Refuse` is the gate
before any of it. `amiss` has the
kinds of trouble that occurred, each of which may occur as often as it likes. Data Prepper starts before
the next request (`Begin`), between requests (`StartSink`). `hidden` is history: what Dashboards did
not show when it was looked for or to be removed. What the
manifests contain and the credentials of the endpoints are left out.

**Remediation.** `log` is the entry of one deployment, `raised` the transient
override of `node_concurrent_recoveries`, `recs` the recoveries as the queries of
the code classify them, `facts` what the CR and the pods show, `read` the
status reads, `task` how many remediations are about to do what. A claim
decides and writes under one lock, on the log as it is then, so it is one step; all else is a step per
await. A read keeps the entry it saw before it asked for the recoveries (`last`), and that one decides
whether it hands back, also when another read has armed since; what it then removes is the entry
under the key, whichever that is. `lost` is a history variable: a raise that a restart forgot, or that a
task made and finished between such a restore and the removal.
The cooldown ends by an action (`CooldownEnds`), in which no task runs any more: a
task's calls are bounded in time well below it.

**Accounts.** One address, its tenant, and the links sent to it. Postgres runs
at READ COMMITTED; the locks that matter are those of the unique address, of the token rows
and of the user's row, and what an open transaction has written is in its request until it
commits. `Deadlock` is Postgres aborting one of two transactions that wait for each other.
`last` is the last provisioning outcome in the audit log, which is all the
reconcile looks at. `dead` is a history variable: the links that committed resets found
outstanding.

## Runs

| Run | Question | Bounds |
|---|---|---|
| `passes` | reset: is the way back kept, are only settled resets forgotten, is no accepted one undone? metrics: is no rate made up, is the series bounded? remediation: is each raise tracked? | 2 resets, 2 readers, 3 instants, 2 pods of the Job at once, 1 fault, while `rested`; 2 nodes, 3 ticks, 2 operations, 1 loss, silence or trouble; 2 reads, 2 recoveries on 2 pods, 3 situations, 1 trouble |
| `hold` | has every zero its annotation, and does Dashboards come up? | 1 sampler, 1 save, budget 1, 2 polls, 2 troubles |
| `contents` | is the loop atomic updates, and is what runs listed? profile before monitors? do edits stand, do CR and policy agree? does a tick settle the logins? is what is recorded what runs? | 2 requests at a time; 2 ids, 3 attempts; 2 appliers, 2 budgets, every kind of trouble; 2 ages, 2 passes, 1 edit; 1 recipe beside the stack, 3 passes, 1 reset; 2 versions, 3 requests; 1 trouble each |
| `upgrade` | Dashboards after the nodes, never wedged, accepted means done? | 2 requests, 1 save, 3 majors, 1 trouble |
| `life` | one create per base name, created stays, rolled back is gone, nothing is left? is complete applied, is what is owed done? | 2 creates, 1 save, 1 delete, 2 names, 1 trouble of any kind; 3 requests, 3 purposes, 2 monitors, 2 budgets, 2 troubles, while `orderly` |
| `grants` | is no grant dropped under work, is none left over? | 2 requests of any kind, 2 events, every initial cluster |
| `settings` | snapshots: no reference without a Secret, is an answer kept, does the sampler wait? is the provider shown the one run? do the routes follow? does settled miss nothing, does the bar climb? | 2 saves at a time; 2 events; 3 saves of a provider, 1 credential; 2 access passes, 1 domain, 1 list; 2 nodes, 2 edits or events of a cluster; 1 trouble each |
| `otel` | is installed whole, do spans go to an index of the running version, is the UI as asked, does an uninstall sweep, is an install wired? | 3 requests in turn, of which the first may be over as an older or a stuck stack, 2 objects, 1 kind of trouble as often as it likes |
| `remediation` | is each raise handed back, does no wedge last? | 2 reads, 2 recoveries on 2 pods, 3 situations, 1 trouble |
| `accounts` | do older links die with a reset, is everyone fenced? | 2 sign-ups, 2 reset links, 1 verification, 2 resets, 1 trouble |
| `access` | finding: does switching to public access cover the deployments that exist? | 1 pass at a time, no trouble |
| `purposes` | finding: is a purpose that was chosen owed? | 3 purposes, 3 requests, 2 item failures, while `orderly` |

The bounds are the smallest at which the hazards occur: two requests to race and
to follow one another; two readers for one to act on what the other has changed;
two trouble steps, where the parts are small enough, so that a failure meets the recovery from an earlier one;
two monitors for one to fail and the other not; three majors for an upgrade, a
further one and a jump of two; a settle schedule of two so that an applier
tries again once and can run out; two reads and two recoveries to arm at once and to tie;
two links for one to kill the other; two nodes for one to be rolled and the other not; three
collector passes for an install, a tick and what comes between. The clock of `AdminReset` has room for the
window to end under an open reset. The numbers of the code (20 polls, 12
budgets, 3600 seconds) only matter as "runs out eventually".

No constant takes behaviours of the code away, but for `SeesEvents` in `VersionUpgrade`: whether the
deployment is in the namespace whose Events are read. The installation admin's deployments are; those of
tenants, each in a namespace of its own, are not. `upgrade` has it TRUE.

What the code does not repair is named by history variables: `WayBack` and the other properties of the
reset speak of the states in which every reset so far is `rested`, `CompleteIsApplied` of those that are
`orderly`, `NothingLeft` of deployments that are not `lost`, `ListedIsRunning` of ids that are not
`unsure`, the properties of `BootstrapGrants` of behaviours that are not `upset`, and so on. The actions
are not restricted by them, and the theorems are about specifications that have every behaviour; the section on
known divergences says what each comes to.

Some runs have a `CONSTRAINT Explored`, which bounds what TLC looks at:

* `passes`: what follows a reset that was not `rested`; a request that waits before its write while
  something of another reset is about, because its write would not be `rested`, or it may as well have come later;
  more than two pods of the Job and its predecessors, of which only the newest counts and the others may be
  collected at any time; and in one behaviour of the metrics both a node that is lost and a call that fails.
* `life` and `purposes`: what follows a state of `Provisioning` that is not `orderly`. `contents` has the module
  with overlaps, toggles, failures and restarts, for `MonitorsAfterProfile`. `OwedGetsDone` supposes `orderly`
  throughout, so no behaviour that the constraint cuts is one of its counterexamples; and no weakly
  fair step can keep a behaviour at the border, since while something runs, what runs has a step inside.
* `otel`: where a request started during a deferred task, the third request of a behaviour is looked at without
  trouble only. It is a bound on the run like the number of requests, which `UiStaysAsAsked` and `StackIsWhole` do not
  have; `InstallWires`, the one liveness property, and `UninstallSweeps` claim nothing of such behaviours.

The type invariants of the modules that have proofs are proved, not run.

`CHECK_DEADLOCK FALSE` is set where requests are all answered in the end, or a clock is
bounded. In `hold`, `upgrade` and `remediation` the nodes, the health or the
situation always may move.

The two findings (`access`, `purposes`) are violations that TLC finds of what a comment of the code says; `PROJECT.json`
quotes the comments.

### Fairness

* `DashboardsHold`: the sampler is an endless loop whose ticks do each step
  (`metrics.rs` 254-289), spawned tasks are polled by the runtime, a status read
  comes with each tick, so weak fairness of each. The operator, the kubelet and
  Dashboards do what they can do at some time. Nothing is fair about trouble,
  saves, restarts or the nodes, and `DashboardsComesUp` supposes
  that the nodes stay settled from some time on.
* `Provisioning`: handlers and appliers run on; the re-arm is fair while the
  cluster is settled, in which Dashboards is ready. A user is never obliged to
  retry. `OwedGetsDone` supposes a cluster that settles for good, and behaviours that stay
  orderly: what a restart or a failed read leaves owing waits for a user.
* `VersionUpgrade`: requests and watches run on and the operator rolls or
  refuses. `AcceptedCompletes` supposes nobody else acts and the health stays green.
* `Lifecycle`: handlers that were not dropped and detached tasks run on, the operator
  and the garbage collector do what there is to do. No request is obliged to come.
* `BootstrapGrants`: a request once taken up goes on (its waits have a limit), the watch ticks
  for ever, components become ready, the deployer rebuilds the class, a grant ages. No request has to
  come. `PowersDropped` leaves out a job that a hang-up left marked as running.
* `OtelStack`: the operator rolls Dashboards in the end, and a deferred task goes on.
* `Remediation`: each status read goes on and there is always a next (the sampler's), spawned tasks
  run on, the cooldown ends. Nothing is fair about recoveries or situations: `RaiseIsHandedBack` and
  `NoWedgeForLong` hold whatever they do.
* `Accounts`: only the reconcile, an endless loop from the start of the process. No request has to
  come, go on or be answered.
* The other modules have no liveness property. In `AdminReset` nothing obliges the operator to run its
  Job, which is why the code has its window; saves and requests are answered in bounded time by their
  own timeouts, and what a failed one owes nobody takes up again (see the divergences).

## Proofs

TLAPS proves, for all values of the constants under the named `ASSUME`s of each
module (sets that do not overlap, bounds that are naturals; TLC evaluates them):

* `PassesProofs`: `TypeCorrect`. The invariant adds
  that a Job without a password is one that was deleted and has nothing to start,
  that a request past its reading holds a password, and that a reader past its
  decision holds the marker it is to write. `RestoreIgnoresFailedRun`: the
  marker of a restore never counts the run that failed before it. `AlwaysAWayBack`, `ForgottenWhenDone`
  and `NeverUndone` are theorems of `Spec` as it is, in which requests and readers overlap at will; what
  they say ends with the first reset that does not find the deployment at rest, after which they are false. The
  invariant, `QuietInv` as long as `rested`, says that the system is calm (nothing of a reset has been written, the
  cluster's password is the Secret's), or in the episode of one reset from password `d` to that of
  request `e` begun at `s`, while others are at their reads: which runs there can be by
  their password and instant, what the Secret
  holds, how far the request is, and for each reader what it can still do. A reader's step is decided
  from that alone, however old its reading. Of the metrics, `SeriesHasAnEnd`: as long as
  no call of the shaping failed, a pass is past it, and a sample is in, only with policy and template
  there (`SeriesInv`). Of the remediation,
  `RaiseNotForgotten`: a task that has raised the throttle, or an entry that owes its hand-back, exists
  while it is raised, however reads and tasks interleave, but for the two ways that `lost` marks. The
  invariant `RaiseInv` adds that a read about to remove the entry finds the throttle handed back, if
  nothing runs and no task has ended since its restore.
* `DashboardsProofs`: `TypeCorrect`, and `ZeroIsHeld`: a Dashboards at zero is
  held, for any number of samplers and saves. `NoOrphanZero` is not inductive.
  The invariant adds what pinned writers know: a poller whose reading is
  `fresh` has read the CR as it is, so one about to release or clear still finds it
  held and, if it clears, at a non-zero replica count; and a save re-applies a pair
  in which zero goes with held. Of `OtelStack`, for any inventory and any requests: `StackIsWhole`,
  `UiStaysAsAsked` and `UninstallLeavesNothing`. The invariant (`StackInv`) says that at most one request
  is under way unless two met (`Single`), and gives by the place of that request what is there already:
  which half of the UI it has written (`UiTold`), how much of the inventory is applied or deleted
  (`ObjectsTold`), what an uninstall has swept, and that no deferred task is left to put any of it back
  (`SweepTold`), that the datasource has at most one data-connection unless a call of a task failed or
  Dashboards did not show it (`Paired`), and where the spans go while an older stack is replaced (`MigrationTold`).
* `ProvisioningProofs`: `TypeCorrect`, in which the attempts a record counts stay
  within the schedule whoever writes it, and `ProfileComesFirst`. The invariant
  says of every copy of a record (on the CR, in a request, in an applier) that it
  counts a profile as done only when one has been applied, and of an applier's
  plan that its profile is done or still to do. Applying a monitor needs the
  plan to hold no profile, so the record names one, so one is installed. `CompleteMeansApplied` is about
  the specification with all its steps and any number of purposes. Its invariant (`OrderlyInv`) says
  that an orderly state has one request at most, or one applier at most, and relates the latter to the
  record (`SerialInv`): what the record counts as done is installed (`Faithful`), or the pass has just
  applied another profile, and the record it is about to write says so (`Afresh`). With two
  profiles counted (`doubled`) the conclusion about the profile is false, and the run `purposes`
  shows it; that about the monitors stands.
* `VersionUpgradeProofs`: `TypeCorrect`, and `DashboardsFollows`. The invariant:
  the nodes' version never goes down, a status read is not above it, a task in
  phase two or a retry of it holds a target the nodes have reached, and what a
  save re-applies was at most the nodes' version when it read it. `RetryAlwaysPasses`, with
  `SeesEvents`: where Events are seen, a reading that would refuse the retry contradicts the state it was
  made in.
* `LifecycleProofs`: `TypeCorrect`, `OneAtATime`, `CreatedStaysWhole` and `RolledBackGone`.
  The invariant says that a name belongs to one create (nobody else's rollback
  can reach it), that what a create has written is there as far as it has come unless a
  deletion was asked for, and that once its rollback deleted the CR only a save
  brings it back. `CompleteMeansApplied` takes the invariant of `ProvisioningProofs` through its
  instance to the specification that the run `life` checks.
* `ContentsProofs`, about the specification of the run `contents`: `TypeCorrect`, in which no
  request passes its last attempt;
  `NoUpdateIsLost`, the refinement: a reading that is `fresh` is what the CR says
  (`FreshReading`), so a patch that lands is the update of the CR as it is
  (`LandIsUpdate`), and every other step gives up or decides on an update, or is a stutter;
  `RunsAsListed`, whose invariant adds how far the one request at work on an
  id has come; `MonitorsFindProfile`, from `ProvisioningProofs`. Of retention, `EditsAreKept`:
  a put of a pass that is not forced carries the version it saw (`RetInv`), and a policy a user edited
  has a version that no stamp, and no version a pass holds for its put, can be; and `CrIsWhatPolicySays`:
  as long as passes neither overlap nor fail, the one pass at work holds what CR and policy
  still lack (`AgreeInv`). Of the collectors, `TicksSettle`: the invariant `ColInv` says for a
  tick that has run alone so far which logins and hashes it has compared or repaired, and that
  apart from torn installs a stack's hash is behind its Secret only in the hands of a pass, and
  `HalfInv` that a collector of which only the ConfigMap was applied is in the hands of a pass too, or `cut`. Of the
  catalog, `RecordedIsApplied`: the invariant `CatInv` says for the one request at work what of its
  package is in OpenSearch already and what is still the record of an earlier one.
* `BootstrapGrantsProofs`: `Types`, `WorkShown`, `Storage` and `WatchIsSafe`. The invariant adds
  that without an overlap at most one request is at work, that a creation which saw
  a class still has it, and that a watch about to revoke saw everything complete, so that nobody is
  applying: it is what makes the watch safe however old its readings are. `UpgradeBreaksNothing` is
  about the operators of `Conformity`: where the report of an operator upgrade has no blocker, no
  deployment sets a field at or below one the new schema drops, by well-founded induction over the
  paths of the schema.
* `SettingsProofs`, about the specification of the run `settings`: `Types`, `NoDanglingKeystore`, `AnswerKept` and `SamplerIsPatient`. The invariant
  says which writes of the save at work have landed (`Written`), that as long as saves do not
  cross, the Secret goes last and comes first (`SecretKept`), and that the schedule of the answered
  save is applied, pending, or in the sampler's hand (`Answered`). `ProviderShownIsRun`: the one save at
  work holds what Secrets, CR and index still lack (`AuthInv`). `AccessRoutesFollow`: how far a pass
  that is alone has come tells which route is already what it read, and nothing it read has changed
  since (`AccInv`). `ActivityMissesNothing`: each reading of a status, as old as it is, either shows
  what was open when it was made or is from after it was closed (`ActInv`); that counts of pods tell
  whether all nodes are there (`CountsTell`) is counting in finite sets. Of `Accounts`, `OldLinksAreDead`:
  no link is held by two transactions (`HeldByOne`), what one holds is live (`HeldAreLive`), and what
  a committed reset has found outstanding is used (`DeadAreUsed`), so none of it is redeemed again.

Only model-checked: liveness (`DashboardsComesUp`, `AcceptedCompletes`, `NothingLeft`,
`OwedGetsDone`, `PowersDropped`, `InstallWires`, `RaiseIsHandedBack`, `NoWedgeForLong`, `EveryoneFenced`), since TLAPS has no
ENABLED; `RatesAreReal` of `Metrics` and `PercentClimbs` of `Activity`, which sum over sets of nodes: what a
sum comes to is induction over data. Every other property of a passing run is a theorem.

## Known divergences

Where the code does otherwise than a comment, a document or the reader of one would expect. The
models have these behaviours; the properties leave them out by name.

* A reset that starts within another one's gate overwrites the only copy of the cluster's password
  (`k8s.rs` 5108), although `admin_reset.rs` 91-93 says it is kept until the cluster confirms. TLC
  comes to it in `AdminReset`: the second request's write ends `rested`, and then neither password of the
  Secret is the cluster's.
* A reset cut between the Secret and the marker leaves a changed password that no backstop knows of
  (`k8s.rs` 5132); ADR-064:56 says "A 500 never hides a changed password". ADR-064:61 says an older
  run is ignored; within the clock tolerance it counts (`admin_reset.rs` 319).
* The restart count that arms the deletion of `.kibana_1` outlives the boots it was counted on
  (`k8s.rs` 4313): an index that once served can be deleted, although `k8s.rs` 4494-4499 says it can hold
  nothing but aborted migration state.
* Work that is pending at a restart waits for a user: only an exhausted record is re-armed
  (`k8s.rs` 5690), although `k8s.rs` 5709-5710 and `provisioning.rs` 35-37 say otherwise.
* Keeping the applied set can hide new work (a monitor disabled by its toggle and selected again),
  although `provisioning.rs` 174-176 says it never can. The other things that `CompleteIsApplied` leaves out
  make a deployment look finished too: of two appliers the older can clear the newer one's record
  (`k8s.rs` 5881); a record whose write failed, or that a restart left behind, is that of an
  earlier choice.
* A tenant's deployment whose upgrade target the operator refused stays refused (`k8s.rs` 4979),
  although `upgrade.rs` 230-233 lets the retry through.
* A deletion takes the agents of a list fixed at build time (`k8s.rs` 1853); 1843-1846 says any agent.
* An install and an uninstall of one catalog id that overlap record a version of what is gone
  (`catalog.rs` 1001).
* A save of snapshots that needs no restart applies its policy while an earlier save's roll is owed
  (`k8s.rs` 7051), although 7041-7047 says it waits.
* The observability stack: a deferred task that outlives its install writes after an uninstall
  (`otel_stack.rs` 2088); its probe takes a pod without the UI's keys for ready (2709); with the UI off
  an uninstall does not see the workspace or the boards (3191); a read error counts as no choice of
  the UI (`k8s.rs` 2371). The credentials' Secret is written before their hash, so a failed hash is not tried
  again (`agents.rs` 857).
* The migration of an older observability stack: its uninstall leaves the span template and clears the
  marker, so the next install does not migrate (`otel_stack.rs` 73, 2273); an install that fails between applying
  and the marker and is tried again takes the new template away while its pod runs on, and the rollover makes an
  index without one (1937); when the wait for the features runs out, the task returns before the rollover (2089-2095).
  "Every id is namespaced by deployment" (1105) is not so of what the workspace makes itself. An install
  that misreads Dashboards for absent, while a pod that still has the keys of an earlier stack serves, registers
  a datasource whose saved half no later uninstall can see once that pod has rolled (2213). Misread so, it also
  writes patterns and boards outside a workspace, which the uninstall, looking in the deployment's tenant,
  does not see either (3292-3342).
* The datasource: registering it once more while the read of its data-connection fails, or the delete of
  that one is lost, makes a second saved object beside the first (3434-3468), although
  3428-3430 says that anything short of both halves is torn down; an uninstall deletes only the first it finds (2215).
* The installer: an earlier node's issue that is not fatal hides a later node's fatal one, so failing fast waits
  to the limit (`bootstrap.rs` 1776-1815). In the schema comparison, an open field that becomes closed
  loses what it held undeclared and is no blocker, and one that becomes open is reported as removed.
* A hand-back removes the log entry, and with it the cooldown, so a second bounce may follow within the
  30 minutes of `REMEDIATE_COOLDOWN` ("One remediation pass per episode", `k8s.rs` 3466). The read
  that hands back decides on the entry it saw before its query and removes the entry by its key (4098-4135): one
  armed since is handed back at once, and if its task raised and ended between the restore and the
  removal, it is forgotten with its raise, although 4027-4030 says the
  restore "can never be forgotten, only delayed" and 4058 that a pass "can never double-fire". A
  restart forgets the log while the raise stays, although 3897-3902 says no raise is permanent. The
  diagnosis of a stall arms on the oldest recovery in any stage and bounces the source of the ones
  in init, however young.
* The identity provider: a save that fails after the securityconfig and before the CR, on a cluster that had a
  provider before, lets the operator push the new one while the app shows internal accounts (`k8s.rs` 6570,
  6590). Going back to internal accounts leaves a securityconfig with the hash of a Dashboards password
  whose Secret is then deleted (6536). Saves that overlap can leave a domain in the security index.
* Retention: a stamp that is lost leaves the old one, by which velox takes its own policy for a user's, contrary to
  `profiles.rs` 213-215. A save carries the annotations it read, and so can undo a reset
  that ran in between (`k8s.rs` 1165-1190).
* Collectors: an install that overlaps the removal of the last collector loses its Secret. A repair that fails
  after the Secret and before the hashes is not resumed. An install during a reset that is then undone
  leaves the wrong password in the Secret of all (`agents.rs` 790-850). A migration that applied the
  ConfigMap and failed at the workload (452-476) leaves a collector with no password anywhere; the next
  tick takes it for a stale one, patches its hash (841-851), and from then on it reads as current.
* Catalog: the version recorded comes from the cached catalog and may be older than the package fetched; the
  core a package needs is checked against the catalog's entry; an uninstall deletes what the version served now
  consists of; of two loads that overlap the older can be stored.
* Activity: while a scale-down is pending, the counts of ready and updated pods can stand for other
  pods than the wanted ones, so with a restart or a crash at the same time a deployment is called settled while a
  wanted node is missing or on the old revision, and the bar walks back when the surplus pod
  goes (`activity.rs` 560). The bar walks back in a create as claims appear, although `activity.rs` 63 says it cannot; the
  first read of a roll can see a stall in pods older than the limit; growing a pool
  while a node is down changes what is counted; without a Dashboards Deployment, Dashboards counts as ready; a
  saved configuration reads as settled until the operator takes it up.
* Access: besides the finding, going back to port-forwarding or leaving Traefik keeps the old routes; an
  allow-list that cannot be read is taken as empty; saving a list is answered well when the settings
  cannot be read; saves of the list that overlap can leave a route that names a deleted middleware, and a
  middleware is deleted before the route drops its reference.
* Metrics: `now` dates counters with an instant after they were read, so a sample recorded after a restart in between
  makes up a rate; a node that is missing from one answer makes a spike when it is back (684-686, which `RatesAreReal` bounds
  by what the sample missed); a failed
  best-effort call leaves an index that no policy bounds (`metrics.rs` 172-175); stall episodes are read and never
  written.
* Provisioning: agents of catalog packages outlive the deployment; a purpose chosen again while its
  earlier work is outstanding (the finding `PurposeIsOwed`).
* A link issued between the invalidation and the commit of a reset survives it (`tenants.rs` 733). An
  account whose sign-up died before its token has no verification link and gets none, although
  `tenants.rs` 225 says the user can ask for one: only a password reset lets it in.

## What is not modelled

Sessions and the first-run setup (`auth.rs`), the version feed, capacity, telemetry and build info, the
rest of the cluster profile, the command line, the web
interface, the vendored operator manifests. Where a module stands for code that renders or reports, it
has what the properties tell apart: which objects a manifest makes, not what they say.
Deletion of a deployment is an action of `Lifecycle` only: in the other modules
the deployment stays, and in the code their tasks end when they no longer find the CR.

## Plan

1. Done: the reset, the hold, provisioning and the upgrade, their runs, the first proofs.
2. Done: `Lifecycle`, `Integrations` against `AnnotationSets`, `Snapshots` and `BootstrapGrants`, with proofs.
3. Done: `OtelStack`, `Remediation`, `Accounts`; `AuthProvider`, `Access`, `Activity`, `Retention`,
   `Collectors`, `Catalog`, `Metrics`.
4. Done: proofs of `WayBack` and the other properties of resets, of `NeverWedged`,
   `CompleteIsApplied`, of retention and the collectors, of `AuthProvider`, `Access`, `Activity`, `Catalog`,
   of what bounds the series and of `RaiseIsTracked`.
5. Done: the safety of `OtelStack` and the links of `Accounts`. What is left to TLC is liveness and sums.
6. Done: the properties of the reset and of what is complete under histories of the whole specification
   instead of constants; the datasource, patterns, migrations of collectors, silent nodes and stale
   hand-backs call by call.
7. Open: an abstract reset (two passwords, accepted or put back) that `AdminReset`
   implements as long as it is `rested`.
