------------------------------ MODULE OtelStack ------------------------------
(***************************************************************************)
(* The OpenTelemetry observability stack of one deployment                 *)
(* (src/src/otel_stack.rs) together with the choice of the next-generation *)
(* Dashboards UI (src/src/api.rs, src/src/k8s.rs), which both write.       *)
(*                                                                         *)
(* One request installs the stack, uninstalls it, or turns the UI on or    *)
(* off.  A step is what happens between two awaits: one object applied,    *)
(* one patch, one call to the cluster.  An install answers before the      *)
(* Dashboards pod has rolled; a deferred task then waits for it and writes *)
(* what needs it.  The operator rolls the pod in its own time.             *)
(*                                                                         *)
(* A deployment may come with a stack of an older version, whose template  *)
(* for spans has to go, or with one whose pods wait for an account that    *)
(* installs used not to make.                                              *)
(*                                                                         *)
(* Left out: what the objects contain, the credential of the published     *)
(* endpoints and its rotation, and the admin login the stack holds.        *)
(***************************************************************************)
EXTENDS Naturals, FiniteSets, Sequences

CONSTANTS
  MaxRequests,      \* bound: the requests that arrive
  AtOnce,           \* bound: how many of them are under way at once
  Kinds,            \* what they may ask, a subset of AllKinds
  Inventory,        \* the Kubernetes objects, in the order they are applied
  Sink,             \* the one that writes telemetry, Data Prepper
  TenantHasObjects, \* whether the tenant has saved objects to bring across
  DropsTelemetry,   \* whether uninstalls are to delete the telemetry
  Troubles,         \* the kinds of trouble that may occur
  MaxTroubles       \* bound: at most so many kinds of trouble in a behaviour

AllKinds == {"install", "uninstall", "on", "off"}
AllTroubles == {"call", "ui", "delete", "late", "wire", "half", "restart"}
Requests == 1..MaxRequests
Objects == {Inventory[i] : i \in DOMAIN Inventory}

ASSUME KindsAssumption == Kinds \subseteq AllKinds
ASSUME SinkAssumption == Inventory \in Seq(Objects) /\ Sink \in Objects
ASSUME TroublesAssumption ==
  Troubles \subseteq AllTroubles /\ {TenantHasObjects, DropsTelemetry} \subseteq BOOLEAN
ASSUME BoundsAssumption ==
  MaxTroubles \in Nat /\ MaxRequests \in Nat /\ AtOnce \in Nat \ {0}

VARIABLES
  otelKeys, uiKeys,  \* the two groups of keys in spec.dashboards.additionalConfig
  chosen,            \* the annotation: the user asked for the new UI
  marker,            \* the annotation: the version of the stack that is installed
  booted,            \* the keys the Dashboards pod now serving was started with
  multi,             \* multi-tenancy, as the Security plugin has it
  objects,           \* the Kubernetes objects of the stack that exist
  policies,          \* whether the stack's ISM policies exist
  sink,              \* Data Prepper's pod: the version it runs, "new" when it is to
                     \* start, "stuck" when it waits for its account
  template, spans,   \* the version of the span template, and of the index it writes to
  engine, conns,     \* the datasource: its half in OpenSearch, and how many saved
                     \* data-connections Dashboards has for it
  space,             \* whether the Observability workspace exists
  boards,            \* where each of Boards is: nowhere, in the workspace, outside
  moved,             \* whether the workspace has the tenant's saved objects
  dash, accepts      \* the deployment has a Dashboards; it boots with the keys

VARIABLES
  pc, kind, at,      \* of a request: the next step, what it asks, where in Inventory
  sees,              \* of an install: the deployment has a Dashboards
  migrates,          \* of an install: it replaces an older stack
  carry,             \* of an install: the export holds the tenant's objects
  task               \* of an install: the next step of its deferred task

VARIABLES            \* history, read by the properties only
  amiss,             \* the kinds of trouble that have occurred
  mixed, crossed,    \* two requests at once; a request during a deferred task
  hidden,            \* what could not be seen when it was looked for or to be removed:
                     \* a data-connection, the workspace, boards
  asked,             \* what the user last asked of the UI
  torn, swept        \* since the last install: an uninstall began, and completed

config == <<otelKeys, uiKeys, chosen, marker, booted>>
prepper == <<sink, template, spans>>
stack == <<multi, objects, policies, prepper>>
saved == <<engine, conns, space, boards, moved>>
kept == <<dash, accepts>>
requests == <<pc, kind, at, sees, migrates, carry, task>>
history == <<amiss, mixed, crossed, hidden, asked, torn, swept>>
vars == <<config, stack, saved, kept, requests, history>>

Steps ==
  {"idle", "gate", "clear", "policies", "apply", "release", "probe", "keys", "seen", "ui",
   "unnote", "export", "tenancy", "mark", "delete", "unsave", "unspace", "teardown", "asked",
   "unui", "unchoose", "restore", "unkeys", "unindex", "unmark", "set", "note", "flip",
   "over"}
TaskSteps ==
  {"off", "features", "revert", "prepper", "roll", "cortex", "datasource", "exists", "clear",
   "drop", "unpair", "post", "workspace", "import", "patterns", "boards", "outpatterns",
   "outside", "done"}
\* The saved objects of the stack, by what Dashboards must know to take them: the index
\* patterns, the dashboards, and the panels with the correlations.
Boards == {"patterns", "dashboards", "panels"}

ConfigTypes ==
  /\ otelKeys \in BOOLEAN /\ uiKeys \in BOOLEAN /\ chosen \in BOOLEAN
  /\ marker \in {"none", "older", "this"}
  /\ booted \in [otel : BOOLEAN, ui : BOOLEAN]
StackTypes ==
  /\ multi \in BOOLEAN /\ policies \in BOOLEAN /\ objects \subseteq Objects
  /\ sink \in {"none", "older", "new", "stuck", "this"}
  /\ template \in {"none", "older", "this"} /\ spans \in {"none", "older", "this", "bare"}
SavedTypes ==
  /\ engine \in BOOLEAN /\ conns \in Nat /\ space \in BOOLEAN /\ moved \in BOOLEAN
  /\ boards \in [Boards -> {"none", "workspace", "outside"}]
  /\ moved \/ (\E b \in Boards : boards[b] = "workspace") => space
RequestTypes ==
  /\ pc \in [Requests -> Steps] /\ kind \in [Requests -> AllKinds \cup {"none"}]
  /\ at \in [Requests -> 0..Len(Inventory)] /\ task \in [Requests -> TaskSteps]
  /\ sees \in [Requests -> BOOLEAN] /\ migrates \in [Requests -> BOOLEAN]
  /\ carry \in [Requests -> BOOLEAN] /\ dash \in BOOLEAN /\ accepts \in BOOLEAN
HistoryTypes ==
  /\ amiss \subseteq AllTroubles /\ mixed \in BOOLEAN /\ crossed \in BOOLEAN
  /\ hidden \subseteq {"saved", "space", "boards"}
  /\ asked \in BOOLEAN /\ torn \in BOOLEAN /\ swept \in BOOLEAN
TypeOK == ConfigTypes /\ StackTypes /\ SavedTypes /\ RequestTypes /\ HistoryTypes

\* A deployment without Dashboards may have a stack from before: of an older version, or
\* of this one and stuck.
Before ==
  /\ ~dash /\ objects = Objects /\ policies = TRUE
  /\ \/ marker = "older" /\ sink = "older" /\ template = "older" /\ spans = "older"
     \/ marker = "this" /\ sink = "stuck" /\ template = "none" /\ spans = "none"

Init ==
  /\ otelKeys = FALSE /\ uiKeys = FALSE /\ chosen = FALSE
  /\ booted = [otel |-> FALSE, ui |-> FALSE]
  /\ multi = TRUE
  /\ engine = FALSE /\ conns = 0 /\ space = FALSE /\ boards = [b \in Boards |-> "none"]
  /\ moved = FALSE
  /\ dash \in BOOLEAN /\ accepts \in {TRUE, ~dash}
  /\ \/ /\ Before
        /\ pc = [r \in Requests |-> IF r = 1 THEN "over" ELSE "idle"]
     \/ /\ marker = "none" /\ objects = {} /\ policies = FALSE
        /\ sink = "none" /\ template = "none" /\ spans = "none"
        /\ pc = [r \in Requests |-> "idle"]
  /\ kind = [r \in Requests |-> "none"]
  /\ at = [r \in Requests |-> 0]
  /\ sees = [r \in Requests |-> FALSE] /\ migrates = [r \in Requests |-> FALSE]
  /\ carry = [r \in Requests |-> FALSE]
  /\ task = [r \in Requests |-> "off"]
  /\ amiss = {} /\ mixed = FALSE /\ crossed = FALSE /\ hidden = {}
  /\ asked = FALSE /\ torn = FALSE /\ swept = FALSE

UnderWay == {r \in Requests : pc[r] \notin {"idle", "over"}}
Deferred == {r \in Requests : task[r] \notin {"off", "done"}}

Goes(r, step) == pc' = [pc EXCEPT ![r] = step]
\* A step of a request that changes nothing else about it.
Passes(r, from, to) ==
  /\ pc[r] = from
  /\ Goes(r, to)
  /\ UNCHANGED <<kind, at, sees, migrates, carry, task, kept>>
\* A request is over: answered, or failed.
Ends(r) ==
  /\ Goes(r, "over")
  /\ kind' = [kind EXCEPT ![r] = "none"]
  /\ at' = [at EXCEPT ![r] = 0]

Amiss(t) ==
  /\ t \in Troubles
  /\ Cardinality(amiss \cup {t}) <= MaxTroubles
  /\ amiss' = amiss \cup {t}
  /\ UNCHANGED <<mixed, crossed, hidden, asked, torn, swept>>

-----------------------------------------------------------------------------
(* A request arrives, or an error ends it.                                 *)

FirstStep(k) ==
  CASE k = "install" -> "gate" [] k = "uninstall" -> "delete" [] OTHER -> "set"

\* What a request and its task know goes with them: by the next request, for fewer states.
Living(knows) == [q \in Requests |-> q \in UnderWay \cup Deferred /\ knows[q]]
Begin(r, k) ==
  /\ pc[r] = "idle" /\ \A q \in 1..(r - 1) : pc[q] # "idle"
  /\ Cardinality(UnderWay) < AtOnce
  /\ sink # "new"  \* bound: Data Prepper starts before the next request
  /\ Goes(r, FirstStep(k))
  /\ kind' = [kind EXCEPT ![r] = k]
  /\ at' = [at EXCEPT ![r] = IF k = "uninstall" THEN Len(Inventory) ELSE 0]
  /\ mixed' = (mixed \/ UnderWay # {})
  /\ crossed' = (crossed \/ Deferred # {})
  /\ torn' = (torn \/ k = "uninstall")
  /\ swept' = (swept /\ k # "install")
  /\ sees' = Living(sees) /\ migrates' = Living(migrates) /\ carry' = Living(carry)
  /\ task' = [q \in Requests |-> IF q \in Deferred THEN task[q] ELSE "off"]
  /\ UNCHANGED <<amiss, hidden, asked, config, stack, saved, kept>>

\* A call whose error the handler returns: the request ends where it is.
Fatal == {"policies", "apply", "keys", "mark", "unkeys", "unmark"}
FatalUi == {"ui", "unnote", "unui", "unchoose", "set", "note"}
CallFails(r) ==
  /\ pc[r] \in Fatal \cup FatalUi
  /\ Ends(r)
  /\ Amiss(IF pc[r] \in Fatal THEN "call" ELSE "ui")
  /\ UNCHANGED <<sees, migrates, carry, task, config, stack, saved, kept>>

-----------------------------------------------------------------------------
(* install                                                                 *)

\* Refused: the deployment is not settled, has no password, or the cluster has no room.
Refuse(r) ==
  /\ pc[r] = "gate"
  /\ Ends(r)
  /\ UNCHANGED <<sees, migrates, carry, task, config, stack, saved, kept, history>>

\* A first install has no stale template, and needs the one there will be.
NeedsMigration == marker \notin {"none", "this"}
Gate(r) ==
  /\ pc[r] = "gate"
  /\ migrates' = [migrates EXCEPT ![r] = NeedsMigration]
  /\ Goes(r, IF NeedsMigration THEN "clear" ELSE "policies")
  /\ UNCHANGED <<kind, at, sees, carry, task, config, stack, saved, kept, history>>

\* Best-effort; the pod that runs has made its index already.
ClearTemplate(r) ==
  /\ Passes(r, "clear", "policies")
  /\ \/ template' = "none" /\ UNCHANGED history
     \/ template' = template /\ Amiss("wire")
  /\ UNCHANGED <<multi, objects, policies, sink, spans, config, saved>>

KeepPolicies(r) ==
  /\ Passes(r, "policies", "apply")
  /\ policies' = TRUE
  /\ UNCHANGED <<multi, objects, prepper, config, saved, history>>

ApplyPassesOver(r) ==
  /\ pc[r] = "apply"
  /\ at' = [at EXCEPT ![r] = @ + 1]
  /\ \/ objects' = objects \cup {Inventory[at'[r]]} /\ UNCHANGED history
     \/ objects' = objects /\ Amiss("call")
  /\ Goes(r, IF at'[r] = Len(Inventory) THEN "release" ELSE "apply")
  /\ UNCHANGED <<kind, sees, migrates, carry, task, multi, policies, prepper, config, saved,
                 kept>>
\* The objects in the order of the inventory, after the account their pods run as; an
\* error ends the request.  A pod is replaced when its template changes.
Apply(r) ==
  LET o == Inventory[at'[r]] IN
  /\ pc[r] = "apply"
  /\ at' = [at EXCEPT ![r] = @ + 1]
  /\ objects' = objects \cup {o}
  /\ sink' = IF o = Sink /\ sink \in {"none", "older"} THEN "new" ELSE sink
  /\ Goes(r, IF at'[r] = Len(Inventory) THEN "release" ELSE "apply")
  /\ UNCHANGED <<kind, sees, migrates, carry, task, multi, policies, template, spans, config,
                 saved, kept, history>>

\* The pods that wait for the account try again once their ReplicaSets are gone.
Stuck == Sink \in objects /\ sink = "stuck"
Released == sink' = IF Stuck THEN "new" ELSE sink
Release(r) ==
  /\ Passes(r, "release", "probe")
  /\ \/ Released /\ UNCHANGED history
     \/ Stuck /\ sink' = sink /\ Amiss("wire")
  /\ UNCHANGED <<multi, objects, policies, template, spans, config, saved>>

\* An unreadable Dashboards is taken for one that is not there.
Probe(r) ==
  /\ pc[r] = "probe"
  /\ \/ sees' = [sees EXCEPT ![r] = dash] /\ UNCHANGED history
     \/ dash /\ sees' = [sees EXCEPT ![r] = FALSE] /\ Amiss("call")
  /\ Goes(r, IF sees'[r] THEN "keys" ELSE "mark")
  /\ UNCHANGED <<kind, at, migrates, carry, task, config, stack, saved, kept>>

SetKeys(r) ==
  /\ Passes(r, "keys", "seen")
  /\ otelKeys' = TRUE
  /\ UNCHANGED <<uiKeys, chosen, marker, booted, stack, saved, history>>

NeedUiAlways(r) == Passes(r, "seen", "ui") /\ UNCHANGED history
\* The UI is left alone when it is on; a failed read counts as off.
NeedUi(r) == Passes(r, "seen", IF uiKeys THEN "export" ELSE "ui") /\ UNCHANGED history
SeeUi(r) ==
  /\ \/ NeedUi(r)
     \/ uiKeys /\ Passes(r, "seen", "ui") /\ Amiss("ui")
  /\ UNCHANGED <<config, stack, saved>>

SetUi(r) ==
  /\ Passes(r, "ui", "unnote")
  /\ uiKeys' = TRUE
  /\ UNCHANGED <<otelKeys, chosen, marker, booted, stack, saved, history>>
Unnote(r) ==
  /\ Passes(r, "unnote", "export")
  /\ chosen' = FALSE
  /\ UNCHANGED <<otelKeys, uiKeys, marker, booted, stack, saved, history>>

\* The tenant's objects are exported before multi-tenancy goes off; an export
\* that fails is an empty one.
Export(r) ==
  /\ pc[r] = "export"
  /\ Goes(r, "tenancy")
  /\ \/ /\ carry' = [carry EXCEPT ![r] = TenantHasObjects /\ multi /\ ~booted.ui]
        /\ UNCHANGED history
     \/ carry' = carry /\ Amiss("wire")
  /\ UNCHANGED <<kind, at, sees, migrates, task, config, stack, saved, kept>>

\* Best-effort: a refused call leaves multi-tenancy as it is.
SetTenancy(on) ==
  \/ multi' = on /\ UNCHANGED history
  \/ multi' = multi /\ Amiss("ui")
DropTenancy(r) ==
  /\ Passes(r, "tenancy", "mark")
  /\ SetTenancy(FALSE)
  /\ UNCHANGED <<objects, policies, prepper, config, saved>>

\* What a task does once Dashboards has its features.
AfterFeatures(r) == IF migrates[r] THEN "prepper" ELSE "cortex"

\* The marker goes on last, and what takes minutes is left to the task.
Mark(r) ==
  /\ pc[r] = "mark"
  /\ Ends(r)
  /\ marker' = "this"
  /\ task' = [task EXCEPT ![r] = IF sees[r] THEN "features" ELSE AfterFeatures(r)]
  /\ torn' = FALSE
  /\ UNCHANGED <<sees, migrates, carry, otelKeys, uiKeys, chosen, booted, stack, saved,
                 kept, amiss, mixed, crossed, hidden, asked, swept>>

Install(r) ==
  /\ kind[r] = "install"
  /\ \/ Refuse(r) \/ Gate(r) \/ ClearTemplate(r) \/ KeepPolicies(r) \/ Apply(r) \/ Release(r)
     \/ Probe(r) \/ SetKeys(r) \/ SeeUi(r) \/ SetUi(r) \/ Unnote(r) \/ Export(r)
     \/ DropTenancy(r) \/ Mark(r)

-----------------------------------------------------------------------------
(* The deferred task of an install.                                        *)

TaskGoes(r, from, to) ==
  /\ task[r] = from
  /\ task' = [task EXCEPT ![r] = to]
  /\ UNCHANGED <<pc, kind, at, sees, migrates, carry, kept>>

FeaturesAtOnce(r) ==
  /\ TaskGoes(r, "features", AfterFeatures(r))
  /\ UNCHANGED <<config, stack, saved, history>>
\* The probe looks for the stack's keys only: it passes on a pod that does not
\* have the UI's yet.
FeaturesLive(r) ==
  /\ booted.otel
  /\ TaskGoes(r, "features", AfterFeatures(r))
  /\ IF uiKeys /\ ~booted.ui THEN Amiss("half") ELSE UNCHANGED history
  /\ UNCHANGED <<config, stack, saved>>

\* The wait runs out: the keys did not boot, or the roll came late.
FeaturesTimeOut(r) ==
  /\ ~booted.otel
  /\ TaskGoes(r, "features", "revert")
  /\ IF accepts THEN Amiss("late") ELSE UNCHANGED history
  /\ UNCHANGED <<config, stack, saved>>
Revert(r) ==
  /\ TaskGoes(r, "revert", "done")
  /\ \/ otelKeys' = FALSE /\ UNCHANGED history
     \/ otelKeys' = otelKeys /\ Amiss("wire")
  /\ UNCHANGED <<uiKeys, chosen, marker, booted, stack, saved>>

\* A component that answers: what wait_available reads of its Deployment.
Available(part) == objects = Objects /\ (part = Sink => sink \in {"older", "this"})

\* A replaced stack: once Data Prepper runs with its own template, spans go to an index
\* made from it.  Its Deployment may still report the pod that is to be replaced.
PrepperUp(r) ==
  /\ TaskGoes(r, "prepper", "roll")
  /\ \/ Available(Sink) /\ UNCHANGED history
     \/ sink = "new" /\ Amiss("late")
  /\ UNCHANGED <<config, stack, saved>>
PrepperTimeOut(r) ==
  /\ TaskGoes(r, "prepper", "cortex")
  /\ IF Available(Sink) \/ sink = "new" THEN Amiss("late") ELSE UNCHANGED history
  /\ UNCHANGED <<config, stack, saved>>
RollSpans(r) ==
  /\ TaskGoes(r, "roll", "cortex")
  /\ \/ /\ spans' = CASE spans = "none" -> "none" [] template = "none" -> "bare"
                     [] OTHER -> template
        /\ UNCHANGED history
     \/ spans' = spans /\ Amiss("wire")
  /\ UNCHANGED <<multi, objects, policies, sink, template, config, saved>>

CortexUp(r) ==
  /\ Available("cortex")
  /\ TaskGoes(r, "cortex", "datasource")
  /\ UNCHANGED <<config, stack, saved, history>>
CortexTimeOut(r) ==
  /\ TaskGoes(r, "cortex", "done")
  /\ IF Available("cortex") THEN Amiss("late") ELSE UNCHANGED history
  /\ UNCHANGED <<config, stack, saved>>

\* Dashboards registers a datasource, and knows its saved object, only when it runs with
\* the stack's keys.  Of several saved objects the first counts.
Registers == dash /\ booted.otel
Found == Registers /\ conns > 0
\* A saved object that is there and that Dashboards does not show.
Unseen == hidden' = hidden \cup {h \in {"saved"} : conns > 0 /\ ~Registers}

AfterDatasource(r) == IF sees[r] THEN "workspace" ELSE "outpatterns"
\* Both halves there is all that is wanted; a failed read counts as not there.
FindConnection(r) ==
  /\ \/ /\ TaskGoes(r, "datasource", IF Found THEN "exists" ELSE "clear")
        /\ Unseen
        /\ UNCHANGED <<amiss, mixed, crossed, asked, torn, swept>>
     \/ Found /\ TaskGoes(r, "datasource", "clear") /\ Amiss("wire")
  /\ UNCHANGED <<config, stack, saved>>
FindEngine(r) ==
  /\ \/ TaskGoes(r, "exists", IF engine THEN AfterDatasource(r) ELSE "drop")
        /\ UNCHANGED history
     \/ engine /\ TaskGoes(r, "exists", "drop") /\ Amiss("wire")
  /\ UNCHANGED <<config, stack, saved>>
\* What there is goes first: the half in OpenSearch, then the saved object that was found.
DropEngine(r) ==
  /\ TaskGoes(r, "clear", "post") \/ TaskGoes(r, "drop", "unpair")
  /\ \/ engine' = FALSE /\ UNCHANGED history
     \/ engine /\ engine' = engine /\ Amiss("wire")
  /\ UNCHANGED <<conns, space, boards, moved, config, stack>>
Unpair(r) ==
  /\ TaskGoes(r, "unpair", "post")
  /\ \/ /\ conns' = IF Found THEN conns - 1 ELSE conns
        /\ Unseen
        /\ UNCHANGED <<amiss, mixed, crossed, asked, torn, swept>>
     \/ Found /\ conns' = conns /\ Amiss("wire")
  /\ UNCHANGED <<engine, space, boards, moved, config, stack>>
\* A name that OpenSearch has is refused; a call that fails may have made its half there.
Register(r) ==
  /\ TaskGoes(r, "post", AfterDatasource(r))
  /\ \/ /\ engine' = (engine \/ Registers)
        /\ conns' = IF Registers /\ ~engine THEN conns + 1 ELSE conns
        /\ UNCHANGED history
     \/ Registers /\ ~engine /\ engine' \in BOOLEAN /\ conns' = conns /\ Amiss("wire")
  /\ UNCHANGED <<space, boards, moved, config, stack>>

\* Without a workspace the rest is written outside any.
EnsureWorkspace(r) ==
  /\ \/ /\ booted.ui
        /\ TaskGoes(r, "workspace", "import")
        /\ space' = TRUE
        /\ UNCHANGED history
     \/ /\ TaskGoes(r, "workspace", "outpatterns")
        /\ space' = space
        /\ IF booted.ui THEN Amiss("wire") ELSE UNCHANGED history
  /\ UNCHANGED <<engine, conns, boards, moved, config, stack>>

\* What is written through a workspace that has gone since is refused.
Import(r) ==
  /\ TaskGoes(r, "import", "patterns")
  /\ \/ moved' = (moved \/ (carry[r] /\ space)) /\ UNCHANGED history
     \/ carry[r] /\ moved' = moved /\ Amiss("wire")
  /\ UNCHANGED <<engine, conns, space, boards, config, stack>>

\* Any Dashboards takes index patterns and dashboards, the panels one with the stack's
\* keys; in the workspace, one that has it.
Takes(place) == dash /\ (place = "workspace" => space /\ booted.ui)
Written(what, place) == [b \in Boards |-> IF b \in what THEN place ELSE boards[b]]
\* A call that fails may have written its object, and one object of several may fail.
Write(what, place) ==
  /\ \/ boards' = Written({b \in what : Takes(place)}, place) /\ UNCHANGED history
     \/ /\ Takes(place) /\ Amiss("wire")
        /\ \E some \in SUBSET what : boards' = Written(some, place)
  /\ UNCHANGED <<engine, conns, space, moved, config, stack>>

\* The patterns first, once their indices are there or the wait for these is over.
WritePatterns(r) ==
  \/ TaskGoes(r, "patterns", "boards") /\ Write({"patterns"}, "workspace")
  \/ TaskGoes(r, "outpatterns", "outside") /\ Write({"patterns"}, "outside")
\* The rest in one call, which answers for each object by itself.
TakenAsBoards == {"dashboards"} \cup {b \in {"panels"} : Registers}
WriteBoards(r) ==
  \/ TaskGoes(r, "boards", "done") /\ Write(TakenAsBoards, "workspace")
  \/ TaskGoes(r, "outside", "done") /\ Write(TakenAsBoards, "outside")

Task(r) ==
  \/ FeaturesLive(r) \/ FeaturesTimeOut(r) \/ Revert(r) \/ PrepperUp(r) \/ PrepperTimeOut(r)
  \/ RollSpans(r) \/ CortexUp(r) \/ CortexTimeOut(r)
  \/ FindConnection(r) \/ FindEngine(r) \/ DropEngine(r) \/ Unpair(r) \/ Register(r)
  \/ EnsureWorkspace(r) \/ Import(r) \/ WritePatterns(r) \/ WriteBoards(r)

-----------------------------------------------------------------------------
(* uninstall.  Every delete is best-effort: one that fails is lost.        *)

Lost(change, same) == (change /\ UNCHANGED history) \/ (same /\ Amiss("delete"))

Delete(r) ==
  /\ pc[r] = "delete"
  /\ Lost(objects' = objects \ {Inventory[at[r]]}, objects' = objects)
  /\ sink' = IF Sink \in objects' THEN sink ELSE "none"
  /\ at' = [at EXCEPT ![r] = @ - 1]
  /\ Goes(r, IF at[r] = 1 THEN "unsave" ELSE "delete")
  /\ UNCHANGED <<kind, sees, migrates, carry, task, multi, policies, template, spans, config,
                 saved, kept>>

\* Dashboards finds a saved half only when it knows the type, and only the first goes.
Unsave(r) ==
  /\ Passes(r, "unsave", "unspace")
  /\ \/ /\ conns' = IF Found THEN conns - 1 ELSE conns
        /\ Unseen
        /\ UNCHANGED <<amiss, mixed, crossed, asked, torn, swept>>
     \/ Found /\ conns' = conns /\ Amiss("delete")
  /\ UNCHANGED <<engine, space, boards, moved, config, stack>>

\* A workspace goes with all that is in it.  It is found only when Dashboards
\* runs with workspaces.
RemoveWorkspace(r) ==
  /\ Passes(r, "unspace", "teardown")
  /\ IF space /\ booted.ui
       THEN \/ /\ space' = FALSE /\ moved' = FALSE
               /\ boards' = Written({b \in Boards : boards[b] = "workspace"}, "none")
               /\ UNCHANGED history
            \/ UNCHANGED <<space, moved, boards>> /\ Amiss("delete")
       ELSE /\ UNCHANGED <<space, moved, boards, amiss, mixed, crossed, asked, torn, swept>>
            /\ hidden' = hidden \cup {h \in {"space"} : space}
  /\ UNCHANGED <<engine, conns, config, stack>>

\* The boards are looked for in the deployment's tenant unless the UI is on, and they are
\* in none; the panels only by a Dashboards that knows their types.
SeesBoards == uiKeys \/ booted.ui
Seen == {b \in Boards : SeesBoards /\ (b = "panels" => Registers)}
TearsBoards ==
  /\ boards' = Written(Seen, "none")
  /\ hidden' = hidden \cup {h \in {"boards"} : \E b \in Boards : boards'[b] # "none"}
TeardownKeepsPolicies(r) ==
  /\ Passes(r, "teardown", "asked")
  /\ TearsBoards /\ engine' = FALSE
  /\ UNCHANGED <<policies, amiss, mixed, crossed, asked, torn, swept>>
  /\ UNCHANGED <<conns, space, moved, multi, objects, prepper, config>>
Teardown(r) ==
  /\ Passes(r, "teardown", "asked")
  /\ \/ /\ TearsBoards /\ policies' = FALSE /\ engine' = FALSE
        /\ UNCHANGED <<amiss, mixed, crossed, asked, torn, swept>>
     \/ UNCHANGED <<boards, hidden, policies, engine>> /\ Amiss("delete")
  /\ UNCHANGED <<conns, space, moved, multi, objects, prepper, config>>

\* The UI stays when the user asked for it; a failed read counts as not asked.
Chosen(r) ==
  /\ \/ Passes(r, "asked", IF chosen THEN "unkeys" ELSE "unui") /\ UNCHANGED history
     \/ chosen /\ Passes(r, "asked", "unui") /\ Amiss("ui")
  /\ UNCHANGED <<config, stack, saved>>
DropUi(r) ==
  /\ Passes(r, "unui", "unchoose")
  /\ uiKeys' = FALSE
  /\ UNCHANGED <<otelKeys, chosen, marker, booted, stack, saved, history>>
Unchoose(r) ==
  /\ Passes(r, "unchoose", "restore")
  /\ chosen' = FALSE
  /\ UNCHANGED <<otelKeys, uiKeys, marker, booted, stack, saved, history>>
RestoreTenancy(r) ==
  /\ Passes(r, "restore", "unkeys")
  /\ SetTenancy(TRUE)
  /\ UNCHANGED <<objects, policies, prepper, config, saved>>

DropKeys(r) ==
  /\ Passes(r, "unkeys", "unindex")
  /\ otelKeys' = FALSE
  /\ UNCHANGED <<uiKeys, chosen, marker, booted, stack, saved, history>>
\* The telemetry goes only when the user says so; the template stays.
DropIndices(r) ==
  /\ Passes(r, "unindex", "unmark")
  /\ spans' = IF DropsTelemetry THEN "none" ELSE spans
  /\ UNCHANGED <<multi, objects, policies, sink, template, config, saved, history>>
Unmark(r) ==
  /\ pc[r] = "unmark"
  /\ Ends(r)
  /\ marker' = "none"
  /\ swept' = TRUE
  /\ UNCHANGED <<sees, migrates, carry, task, kept, otelKeys, uiKeys, chosen, booted, stack,
                 saved, amiss, mixed, crossed, hidden, asked, torn>>

Uninstall(r) ==
  /\ kind[r] = "uninstall"
  /\ \/ Delete(r) \/ Unsave(r) \/ RemoveWorkspace(r) \/ Teardown(r) \/ Chosen(r)
     \/ DropUi(r) \/ Unchoose(r) \/ RestoreTenancy(r) \/ DropKeys(r) \/ DropIndices(r)
     \/ Unmark(r)

-----------------------------------------------------------------------------
(* The user turns the next-generation UI on or off.                        *)

Wants(r) == kind[r] = "on"
SetNextUi(r) ==
  /\ Passes(r, "set", "note")
  /\ uiKeys' = Wants(r)
  /\ UNCHANGED <<otelKeys, chosen, marker, booted, stack, saved, history>>
NoteChoice(r) ==
  /\ Passes(r, "note", "flip")
  /\ chosen' = Wants(r)
  /\ UNCHANGED <<otelKeys, uiKeys, marker, booted, stack, saved, history>>
FlipTenancy(r) ==
  /\ pc[r] = "flip"
  /\ Ends(r)
  /\ \/ multi' = ~Wants(r) /\ UNCHANGED amiss
     \/ multi' = multi /\ Amiss("ui")
  /\ asked' = Wants(r)
  /\ UNCHANGED <<sees, migrates, carry, task, kept, objects, policies, prepper, config, saved,
                 mixed, crossed, hidden, torn, swept>>

Toggle(r) == SetNextUi(r) \/ NoteChoice(r) \/ FlipTenancy(r)

-----------------------------------------------------------------------------
(* The operator rolls the Dashboards pod; keys it does not boot with leave  *)
(* the old pod serving.  Data Prepper starts.  The process restarts.        *)

Boot ==
  /\ dash
  /\ booted # [otel |-> otelKeys, ui |-> uiKeys]
  /\ otelKeys => accepts
  /\ booted' = [otel |-> otelKeys, ui |-> uiKeys]
  /\ UNCHANGED <<otelKeys, uiKeys, chosen, marker, stack, saved, kept, requests, history>>

\* It installs its template unless one is there, and makes its index unless one is.  No
\* step of a request sees whether it has, so it may as well start between requests.
StartSink ==
  /\ sink = "new" /\ UnderWay = {}
  /\ sink' = "this"
  /\ template' = IF template = "none" THEN "this" ELSE template
  /\ spans' = IF spans = "none" THEN template' ELSE spans
  /\ UNCHANGED <<multi, objects, policies, config, saved, kept, requests, history>>

Restart ==
  /\ UnderWay \cup Deferred # {}
  /\ pc' = [r \in Requests |-> IF r \in UnderWay THEN "over" ELSE pc[r]]
  /\ kind' = [r \in Requests |-> "none"] /\ at' = [r \in Requests |-> 0]
  /\ task' = [r \in Requests |-> IF r \in Deferred THEN "done" ELSE task[r]]
  /\ Amiss("restart")
  /\ UNCHANGED <<sees, migrates, carry, config, stack, saved, kept>>

-----------------------------------------------------------------------------
(* The panel: what it reads, and what a read of it repairs.                *)

Components == [part \in Objects |-> Available(part)]
\* Looked for in the workspace if there is one that shows, outside otherwise.
BoardsThere ==
  boards["dashboards"] = IF space /\ booted.ui THEN "workspace" ELSE "outside"
Panel == [installed |-> marker # "none",
          components |-> IF marker = "none" THEN {} ELSE {o \in Objects : Components[o]},
          datasource |-> marker # "none" /\ engine,
          boards |-> marker # "none" /\ BoardsThere]

ReadPanel ==
  /\ Panel.installed /\ Panel.components # Objects
  /\ Stuck /\ Released
  /\ UNCHANGED <<multi, objects, policies, template, spans, config, saved, kept, requests,
                 history>>

Arrive(r) == \E k \in Kinds : Begin(r, k)
Next ==
  \/ \E r \in Requests :
       Arrive(r) \/ CallFails(r) \/ Install(r) \/ Task(r) \/ Uninstall(r) \/ Toggle(r)
  \/ Boot
  \/ StartSink
  \/ Restart
  \/ ReadPanel

Spec == Init /\ [][Next]_vars

\* A task the process runs goes on, and the operator rolls the pod in the end.
Fairness == WF_vars(Boot) /\ WF_vars(StartSink) /\ \A r \in Requests : WF_vars(Task(r))
FairSpec == Spec /\ Fairness

-----------------------------------------------------------------------------
(* Properties.                                                             *)

\* A stack that reads as installed is whole, and nothing of it writes before
\* its retention exists: whatever fails or restarts, the marker is on only
\* with every object applied and the policies there, until an uninstall has
\* begun; and the sink never runs without them ("a partial install must never
\* read as installed", step 7 of install; "OpenSearch side first").  An install
\* and an uninstall at once, and deletes lost, are left out.  And with no trouble, once
\* the task of an install that replaces an older stack is over, spans go to an index of
\* the version that writes them (step 3 of install, roll_span_alias).
Whole ==
  ~mixed /\ "delete" \notin amiss =>
    /\ Sink \in objects => policies
    /\ Panel.installed /\ ~torn => objects = Objects
    /\ amiss = {} /\ ~crossed /\ sink = "this" /\ marker = "this"
         /\ (\E r \in Requests : migrates[r] /\ task[r] = "done")
         => spans = "this"

\* The two halves of the UI agree and say what the user last asked: between
\* requests multi-tenancy is on exactly when workspaces are off, the choice is
\* noted exactly when it was made, an installed or uninstalled stack never
\* takes the UI from a user who asked for it, and an uninstall leaves it to
\* nobody who did not (set_next_ui, next_ui_state, steps 6a and 6b of install).
UiIsAsAsked ==
  UnderWay = {} /\ ~mixed /\ amiss \cap {"ui", "restart"} = {} =>
    /\ multi <=> ~uiKeys
    /\ chosen <=> asked
    /\ asked => uiKeys
    /\ swept => (uiKeys <=> asked)

\* An uninstall that answered leaves nothing that the installs made, in the namespace, the
\* cluster or Dashboards ("Remove everything install created"), however an install before
\* it failed.  Left out: a request during a deferred task, two requests at once, a lost
\* delete, and of what is in Dashboards what it did not show when it was looked for:
\* boards with the UI off, say of an install that misread Dashboards for absent, panels
\* and the datasource without the stack's keys; and a data-connection when a task's call
\* failed, for a second may have been made, and an uninstall deletes one.
UninstallSweeps ==
  swept /\ ~mixed /\ ~crossed /\ "delete" \notin amiss =>
    /\ objects = {} /\ ~policies /\ ~engine
    /\ ~otelKeys /\ ~Panel.installed
    /\ "wire" \notin amiss /\ "saved" \notin hidden => conns = 0
    /\ "space" \notin hidden => ~space
    /\ "boards" \notin hidden => \A b \in Boards : boards[b] = "none"

\* An answered install is wired in the end: its deferred task comes to the
\* datasource, the boards in the workspace and the tenant's saved objects, or
\* takes back the keys that Dashboards does not boot with (install, step 8).
\* Left out: troubles and later requests during the task.
Wired(r) ==
  \/ /\ Panel.datasource /\ conns > 0 /\ \A b \in Boards : boards[b] = "workspace"
     /\ carry[r] => moved
  \/ ~accepts /\ ~otelKeys
InstallWires ==
  \A r \in Requests :
    task[r] = "features"
      ~> (task[r] = "done" /\ Wired(r)) \/ amiss # {} \/ mixed \/ crossed
=============================================================================
