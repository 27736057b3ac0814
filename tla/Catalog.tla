-------------------------------- MODULE Catalog --------------------------------
(***************************************************************************)
(* One integration of one deployment, installed from the registry and       *)
(* removed again: src/src/catalog.rs and the engine of                      *)
(* src/src/integrations.rs.                                                 *)
(*                                                                         *)
(* An install looks the version up in a cached catalog, and then fetches     *)
(* what the registry serves: the manifest, then the files it names.  What    *)
(* passes the signature is applied object by object, and last the CR is told *)
(* which version that was.  An uninstall fetches the package again, to learn *)
(* what to delete.  When the registry does not answer, the recipe compiled   *)
(* in stands in for the ids it knows.                                        *)
(***************************************************************************)
EXTENDS Naturals

CONSTANTS Requests,   \* installs and uninstalls at one time
          None,       \* no catalog, no collector, no version
          Newest,     \* bound on the versions published: 1 .. Newest
          Unsigned,   \* the <<id, version>> whose signature does not verify
          NeedNewer,  \* the <<id, version>> that need a newer core
          MaxBegun,   \* bound on the requests begun
          MaxTrouble  \* bound on what goes wrong

CatalogAssumption == Newest \in Nat /\ None \notin Nat

Versions == 1 .. Newest
Absent == 0           \* not in the catalog
Builtin == 1          \* BOOTSTRAP_VERSION, which the compiled-in recipes equal

VARIABLES id,         \* which one: "kubernetes", "nginx" or one only the registry has
          published,  \* what the registry serves
          cache,      \* CACHE: the version in its catalog, and whether the TTL has passed
          objects,    \* what the deployment's OpenSearch has of it
          agent,      \* the collector: the version it was rendered from
          monitor,    \* the CR: in the annotation of the monitors
          recorded,   \* the CR: its version in integration-versions
          req,        \* the requests
          crossed,    \* history: a removal overlapped a request, or installs of two versions did
          amiss,      \* history: a request failed half way, or a best-effort call did
          late,       \* history: an install applied another version than its catalog named
          seen,       \* history: the versions applied or read for a removal
          begun, troubles

cr == <<monitor, recorded>>
bounds == <<begun, troubles>>
vars == <<id, published, cache, objects, agent, cr, req, crossed, amiss, late, seen, bounds>>

Floor == {"kubernetes"}                \* BOOTSTRAP_IDS
Recipes == Floor \cup {"nginx"}        \* RECIPES
Integs == Recipes \cup {"extra"}

\* What a version consists of: pipeline and template, if it has any, and what it saves in
\* the Dashboards, under ids of which some change from version to version.
Config == IF id \in Floor THEN {} ELSE {<<"config", 0>>}
Saved(v) == {<<"saved", 0>>, <<"saved", v>>}

\* teardown: created_resources, by the check of the registry; recipe_teardown.
Teardown(v) == Config \cup Saved(v)

-----------------------------------------------------------------------------
\* Within the TTL.
Fresh == cache # None /\ cache.fresh

Idle == [pc |-> "idle", kind |-> None, want |-> None, resolved |-> None,
         manifest |-> None, files |-> None]

Active == {r \in Requests : req[r].pc # "idle"}
Set(r, me) == req' = [req EXCEPT ![r] = me]
At(r, pc) == Set(r, [(IF pc = "idle" THEN Idle ELSE req[r]) EXCEPT !.pc = pc])
Trouble == troubles < MaxTrouble /\ troubles' = troubles + 1

Begin(r, kind, pc, want) ==
  /\ req[r].pc = "idle" /\ begun < MaxBegun /\ begun' = begun + 1
  /\ Set(r, [Idle EXCEPT !.kind = kind, !.pc = pc, !.want = want])
  /\ crossed' = (crossed \/ \E q \in Active : {kind, req[q].kind} # {"install"})
  /\ UNCHANGED <<id, published, cache, objects, agent, cr, amiss, late, seen, troubles>>

BeginInstall(r) == \E want \in Versions \cup {None} : Begin(r, "install", "load", want)
BeginUninstall(r) == Begin(r, "uninstall", "manifest", None)

-----------------------------------------------------------------------------
(* load: the catalog, of which an entry comes out, and whether the registry   *)
(* answered for it.                                                          *)

Resolve(r, entry, degraded) ==
  LET me == req[r]
      refused == \/ entry # Absent /\ <<id, entry>> \in NeedNewer
                 \/ entry # Absent /\ me.want \notin {None, entry}
                 \/ entry = Absent /\ ~degraded
  IN IF refused THEN At(r, "idle")
     ELSE Set(r, [me EXCEPT !.pc = "manifest", !.want = None,
                            !.resolved = IF entry = Absent THEN Builtin ELSE entry])

ServeFresh(r) ==
  /\ req[r].pc = "load" /\ Fresh
  /\ Resolve(r, cache.version, FALSE)
  /\ UNCHANGED <<id, published, cache, objects, agent, cr, crossed, amiss, late, seen,
                 bounds>>

Ask(r) ==
  /\ req[r].pc = "load" /\ ~Fresh
  /\ Set(r, [req[r] EXCEPT !.pc = "store", !.resolved = published])
  /\ UNCHANGED <<id, published, cache, objects, agent, cr, crossed, amiss, late, seen,
                 bounds>>

\* The answer goes to the cache, also when another request has put a newer one there.
Store(r) ==
  /\ req[r].pc = "store"
  /\ cache' = [version |-> req[r].resolved, fresh |-> TRUE]
  /\ Resolve(r, req[r].resolved, FALSE)
  /\ UNCHANGED <<id, published, objects, agent, cr, crossed, amiss, late, seen, bounds>>

\* No answer: the stale catalog, or the floor.
AskFails(r) ==
  /\ req[r].pc = "load" /\ ~Fresh
  /\ Resolve(r, IF cache # None THEN cache.version
                ELSE IF id \in Floor THEN Builtin ELSE Absent, TRUE)
  /\ UNCHANGED <<id, published, cache, objects, agent, cr, crossed, amiss, late, seen,
                 bounds>>

-----------------------------------------------------------------------------
(* fetch_package and verify_package.                                         *)

FetchManifest(r) ==
  /\ req[r].pc = "manifest" /\ published # Absent
  /\ Set(r, [req[r] EXCEPT !.pc = "files", !.manifest = published])
  /\ UNCHANGED <<id, published, cache, objects, agent, cr, crossed, amiss, late, seen,
                 bounds>>

FetchFiles(r) ==
  /\ req[r].pc = "files"
  /\ Set(r, [req[r] EXCEPT !.pc = "verify", !.files = published])
  /\ UNCHANGED <<id, published, cache, objects, agent, cr, crossed, amiss, late, seen,
                 bounds>>

Start(me) == IF me.kind = "install" THEN "config" ELSE "remove"

\* Of two versions, a manifest and files do not match the signature.
Verifies(me) == me.manifest = me.files /\ <<id, me.manifest>> \notin Unsigned

\* Another request works with another version.
Crosses(r, version) ==
  \E q \in Active \ {r} :
    req[q].pc \notin {"files", "verify"} /\ req[q].manifest \notin {None, version}

Verify(r) ==
  LET me == req[r] IN
  /\ me.pc = "verify"
  /\ IF Verifies(me)
     THEN /\ At(r, Start(me))
          /\ late' = (late \/ (me.kind = "install" /\ me.manifest # me.resolved))
          /\ seen' = seen \cup {me.manifest}
          /\ crossed' = (crossed \/ Crosses(r, me.manifest))
     ELSE At(r, "idle") /\ UNCHANGED <<late, seen, crossed>>
  /\ UNCHANGED <<id, published, cache, objects, agent, cr, amiss, bounds>>

\* The compiled-in recipe, for the ids that have one.
StandsIn(kind) == id \in (IF kind = "install" THEN Floor ELSE Recipes)

\* Mutant: the install is recorded as what the catalog named.
FallbackRecordsCatalog(r) ==
  LET me == req[r] IN
  /\ me.pc \in {"manifest", "files"}
  /\ IF StandsIn(me.kind)
     THEN Set(r, [me EXCEPT !.pc = Start(me), !.manifest = Builtin, !.files = Builtin])
     ELSE At(r, "idle")
  /\ seen' = IF StandsIn(me.kind) THEN seen \cup {Builtin} ELSE seen
  /\ crossed' = (crossed \/ (StandsIn(me.kind) /\ Crosses(r, Builtin)))
  /\ UNCHANGED <<id, published, cache, objects, agent, cr, amiss, late, bounds>>

Fallback(r) ==
  LET me == req[r] IN
  /\ me.pc \in {"manifest", "files"}
  /\ IF StandsIn(me.kind)
     THEN Set(r, [me EXCEPT !.pc = Start(me), !.manifest = Builtin, !.files = Builtin,
                            !.resolved = Builtin])
     ELSE At(r, "idle")
  /\ seen' = IF StandsIn(me.kind) THEN seen \cup {Builtin} ELSE seen
  /\ crossed' = (crossed \/ (StandsIn(me.kind) /\ Crosses(r, Builtin)))
  /\ UNCHANGED <<id, published, cache, objects, agent, cr, amiss, late, bounds>>

-----------------------------------------------------------------------------
(* apply_package, recipes::apply, and the CR.                                 *)

PutConfig(r) ==
  /\ req[r].pc = "config"
  /\ objects' = objects \cup Config
  /\ At(r, "saved")
  /\ UNCHANGED <<id, published, cache, agent, cr, crossed, amiss, late, seen, bounds>>

PutSaved(r) ==
  /\ req[r].pc = "saved"
  /\ objects' = objects \cup Saved(req[r].manifest)
  /\ At(r, "agent")
  /\ UNCHANGED <<id, published, cache, agent, cr, crossed, amiss, late, seen, bounds>>

DeployAgent(r) ==
  /\ req[r].pc = "agent"
  /\ agent' = req[r].manifest
  /\ At(r, "monitor")
  /\ UNCHANGED <<id, published, cache, objects, cr, crossed, amiss, late, seen, bounds>>

SetMonitor(r) ==
  LET on == req[r].kind = "install" IN
  /\ req[r].pc = "monitor"
  /\ monitor' = on
  /\ recorded' = IF on THEN recorded ELSE None
  /\ At(r, IF on THEN "version" ELSE "idle")
  /\ UNCHANGED <<id, published, cache, objects, agent, crossed, amiss, late, seen, bounds>>

SetVersion(r) ==
  /\ req[r].pc = "version"
  /\ recorded' = req[r].resolved
  /\ At(r, "idle")
  /\ UNCHANGED <<id, published, cache, objects, agent, monitor, crossed, amiss, late, seen,
                 bounds>>

-----------------------------------------------------------------------------
(* uninstall_package, recipes::disable.                                       *)

RemoveAgent(r) ==
  /\ req[r].pc = "remove"
  /\ agent' = None
  /\ At(r, "teardown")
  /\ UNCHANGED <<id, published, cache, objects, cr, crossed, amiss, late, seen, bounds>>

TearDown(r) ==
  /\ req[r].pc = "teardown"
  /\ objects' = objects \ Teardown(req[r].manifest)
  /\ At(r, "monitor")
  /\ UNCHANGED <<id, published, cache, agent, cr, crossed, amiss, late, seen, bounds>>

\* Best effort: what is saved in the Dashboards, the removal of a package's collector,
\* the deletion of any object.
Skipped(r) ==
  LET me == req[r]
      next == [saved |-> "agent", remove |-> "teardown", teardown |-> "monitor"] IN
  /\ me.pc \in DOMAIN next
  /\ Trouble /\ amiss' = TRUE
  /\ At(r, next[me.pc])
  /\ \E left \in SUBSET (IF me.pc = "teardown" THEN objects ELSE {}) :
       objects' = IF me.pc = "teardown" THEN (objects \ Teardown(me.manifest)) \cup left
                  ELSE objects
  /\ UNCHANGED <<id, published, cache, agent, cr, crossed, late, seen, begun>>

\* A call fails, or the process dies.
Ends(r) ==
  /\ r \in Active
  /\ Trouble /\ amiss' = TRUE
  /\ At(r, "idle")
  /\ UNCHANGED <<id, published, cache, objects, agent, cr, crossed, late, seen, begun>>

-----------------------------------------------------------------------------
(* The registry, and time.                                                   *)

Publish ==
  /\ published < Newest /\ published' = published + 1
  /\ UNCHANGED <<id, cache, objects, agent, cr, req, crossed, amiss, late, seen, bounds>>

Expire ==
  /\ Fresh
  /\ cache' = [cache EXCEPT !.fresh = FALSE]
  /\ UNCHANGED <<id, published, objects, agent, cr, req, crossed, amiss, late, seen, bounds>>

-----------------------------------------------------------------------------
(* The tab, build_view: what it says of the integration, with this catalog.   *)

Entry(version) == IF version # Absent THEN version
                  ELSE IF id \in Floor THEN Builtin ELSE Absent

UpdateAvailable(version) ==
  /\ Entry(version) # Absent /\ recorded # None
  /\ recorded # Entry(version) /\ Entry(version) >= recorded

Init ==
  /\ id \in Integs
  /\ published \in {Absent, Builtin}
  /\ cache = None /\ objects = {} /\ agent = None /\ monitor = FALSE /\ recorded = None
  /\ req = [r \in Requests |-> Idle]
  /\ crossed = FALSE /\ amiss = FALSE /\ late = FALSE /\ seen = {}
  /\ begun = 0 /\ troubles = 0

Next ==
  \/ \E r \in Requests :
       \/ BeginInstall(r) \/ BeginUninstall(r)
       \/ ServeFresh(r) \/ Ask(r) \/ Store(r) \/ AskFails(r)
       \/ FetchManifest(r) \/ FetchFiles(r) \/ Verify(r) \/ Fallback(r)
       \/ PutConfig(r) \/ PutSaved(r) \/ DeployAgent(r) \/ SetMonitor(r) \/ SetVersion(r)
       \/ RemoveAgent(r) \/ TearDown(r) \/ Skipped(r) \/ Ends(r)
  \/ Publish \/ Expire

Spec == Init /\ [][Next]_vars
-----------------------------------------------------------------------------
(* Properties.                                                               *)

Settled == Active = {} /\ ~crossed /\ ~amiss

\* What gets recorded is what actually gets applied (install), so that the tab, shown the
\* registry's present catalog, offers an update exactly when an older version runs; and
\* what was removed (uninstall) has left nothing in OpenSearch, as long as the registry
\* has served one version all along.  Left out is an install that fetched another version
\* than its catalog named (`late`).
RecordIsWhatRuns ==
  Settled =>
    /\ ~late =>
         /\ recorded = agent /\ monitor = (agent # None)
         /\ (agent # None /\ published # Absent) =>
               (UpdateAvailable(published) <=> agent < published)
    /\ (~monitor /\ \A v, w \in seen : v = w) => objects = {} /\ agent = None
=============================================================================
