--------------------------------- MODULE Access ---------------------------------
(***************************************************************************)
(* How users reach a deployment (ADR-027): the access settings of           *)
(* src/src/access.rs, and the public routes and the allow-list that         *)
(* src/src/k8s.rs keeps for one deployment.                                 *)
(*                                                                         *)
(* Four passes write the routes: a save of the settings, the pass at        *)
(* start-up, a save of the allow-list, and the create or edit of the         *)
(* deployment.  Each goes over the two routes, the Dashboards' and that of   *)
(* the OpenSearch API, and for each reads the allow-list, makes the          *)
(* middleware, and applies the route.  The API has an IngressRoute on        *)
(* Traefik, and an Ingress elsewhere.  What the passes read may be old when  *)
(* they use it; the stored settings may also change from outside the app.    *)
(*                                                                         *)
(* A base domain stands for itself and its TLS Secret, an allow-list for     *)
(* its addresses.  The rollback of a create is a step here; Lifecycle has    *)
(* it call by call.                                                         *)
(***************************************************************************)
EXTENDS Naturals, Sequences

CONSTANTS Requests,   \* the passes at one time
          Sites,      \* base domains
          Fallback,   \* the one of default_base_domain
          Lists,      \* allow-lists
          Open,       \* the empty one
          Offers,     \* what clusters may offer: ingress classes, and Traefik's CRDs
          None,       \* no domain, no object
          MaxBegun,   \* bound on the passes begun
          MaxTrouble  \* bound on what goes wrong

VARIABLES config,      \* the ConfigMap
          offers,      \* the ingress classes of the cluster, and Traefik's CRDs
          list,        \* the CR: its allow-list, or no CR
          middleware,  \* the Middleware: its list
          dashboards,  \* the Ingress of the Dashboards
          ingress,     \* the Ingress of the OpenSearch API
          route,       \* the IngressRoute of the OpenSearch API
          pass,        \* the passes
          startup,     \* the process is new: the pass at start-up is due
          settled,     \* history: a pass that ran well and alone was the last to write
          begun, troubles

routes == <<middleware, dashboards, ingress, route>>
bounds == <<begun, troubles>>
vars == <<config, offers, list, routes, pass, startup, settled, bounds>>

Trouble == troubles < MaxTrouble /\ troubles' = troubles + 1

-----------------------------------------------------------------------------
(* access.rs: the settings, and whether the cluster can take them.           *)

\* An absent ConfigMap.
Default == [mode |-> "portforward", site |-> None, class |-> "traefik"]

\* In port-forward mode the other settings mean nothing.
Settings == {Default} \cup
  [mode : {"ingress"}, site : Sites \cup {None}, class : {"traefik", "nginx"}]

Enabled(c) == c.mode = "ingress" /\ c.site # None

\* route_blocker.
Blocked(c) ==
  /\ c.mode = "ingress"
  /\ c.class \notin offers \/ (c.class = "traefik" /\ "ingressroutes" \notin offers)

-----------------------------------------------------------------------------
Idle == [kind |-> None, pc |-> "idle", config |-> Default, todo |-> <<>>, list |-> Open,
         new |-> FALSE, good |-> TRUE]

Active == {r \in Requests : pass[r].pc # "idle"}
Set(r, me) == pass' = [pass EXCEPT ![r] = me]
At(r, pc) == Set(r, [pass[r] EXCEPT !.pc = pc])

\* A pass is over with every route done: the routes are settled, if it went well alone.
\* What was typed into the settings may differ from what was stored.
Done(r, c) ==
  /\ Set(r, Idle)
  /\ settled' = IF ~pass[r].good THEN settled ELSE IF c = config THEN "yes" ELSE "typed"
Over(r) == Set(r, Idle) /\ UNCHANGED settled

Begin(r, me) ==
  /\ pass[r].pc = "idle" /\ begun < MaxBegun /\ begun' = begun + 1
  /\ pass' = [q \in Requests |->
                IF q = r THEN [me EXCEPT !.good = Active = {}]
                ELSE [pass[q] EXCEPT !.good = FALSE]]
  /\ UNCHANGED <<offers, routes, startup, troubles>>

\* save_access_settings.
BeginSave(r) ==
  /\ \E c \in Settings :
       Begin(r, [Idle EXCEPT !.kind = "save", !.pc = "preflight", !.config = c])
  /\ UNCHANGED <<config, list, settled>>

\* backfill_on_startup: the settings are read, and a read that fails ends it.
BeginStartup(r) ==
  /\ startup /\ startup' = FALSE
  /\ pass[r].pc = "idle"
  /\ pass' = [q \in Requests |->
                IF q = r THEN [Idle EXCEPT !.kind = "startup", !.config = config,
                                           !.pc = IF Enabled(config) THEN "list" ELSE "idle",
                                           !.good = Active = {}]
                ELSE [pass[q] EXCEPT !.good = FALSE]]
  /\ UNCHANGED <<config, offers, list, routes, settled, bounds>>

\* set_ip_allow_list: first of all the CR.
BeginAllow(r) ==
  /\ list # None
  /\ \E l \in Lists \cup {Open} : list' = l
  /\ Begin(r, [Idle EXCEPT !.kind = "allow", !.pc = "access"])
  /\ settled' = "no"
  /\ UNCHANGED config

\* create_cluster and save_cluster: refuse_unroutable_access reads the settings.
BeginApply(r) ==
  /\ Begin(r, [Idle EXCEPT !.kind = "apply", !.config = config,
                           !.pc = IF Enabled(config) THEN "preflight" ELSE "cr"])
  /\ UNCHANGED <<config, list, settled>>

\* route_preflight, before anything is written.
Preflight(r) ==
  /\ pass[r].pc = "preflight"
  /\ IF Blocked(pass[r].config) THEN Set(r, Idle)
     ELSE At(r, IF pass[r].kind = "save" THEN "set" ELSE "cr")
  /\ UNCHANGED <<config, offers, list, routes, startup, settled, bounds>>

\* set: an empty base domain asks for the default one, which is stored.  The pass goes on
\* with what was typed.
SetConfig(r) ==
  LET c == pass[r].config IN
  /\ pass[r].pc = "set"
  /\ config' = IF c.mode = "ingress" /\ c.site = None THEN [c EXCEPT !.site = Fallback] ELSE c
  /\ settled' = "no"
  /\ At(r, "list")
  /\ UNCHANGED <<offers, list, routes, startup, bounds>>

\* backfill_ingresses, for a deployment that is there; in port-forward mode, or without a
\* base domain, it does nothing.
Backfill(r) ==
  LET me == pass[r] IN
  /\ me.pc = "list"
  /\ IF Enabled(me.config) /\ list # None
     THEN /\ Set(r, [me EXCEPT !.pc = "read", !.todo = <<"opensearch", "dashboards">>])
          /\ UNCHANGED settled
     ELSE Done(r, me.config)
  /\ UNCHANGED <<config, offers, list, routes, startup, bounds>>

\* The CR is applied; one that is there keeps its allow-list.
ApplyCr(r) ==
  /\ pass[r].pc = "cr"
  /\ list' = IF list = None THEN Open ELSE list
  /\ Set(r, [pass[r] EXCEPT !.pc = "access", !.new = list = None])
  /\ settled' = "no"
  /\ UNCHANGED <<config, offers, routes, startup, bounds>>

ReadAccess(r) ==
  /\ pass[r].pc = "access"
  /\ IF Enabled(config)
     THEN /\ Set(r, [pass[r] EXCEPT !.pc = "read", !.config = config,
                                    !.todo = <<"dashboards", "opensearch">>])
          /\ UNCHANGED settled
     ELSE Done(r, config)
  /\ UNCHANGED <<config, offers, list, routes, startup, bounds>>

\* set_ip_allow_list takes settings it cannot read for port-forward.
ReadAccessFails(r) ==
  /\ pass[r].pc = "access" /\ pass[r].kind = "allow"
  /\ Trouble
  /\ Over(r)
  /\ UNCHANGED <<config, offers, list, routes, startup, begun>>

-----------------------------------------------------------------------------
(* ensure_dashboards_ingress and ensure_opensearch_ingress.                   *)

\* The allow-list; one that cannot be read is taken for empty.
ReadList(r) ==
  /\ pass[r].pc = "read"
  /\ Set(r, [pass[r] EXCEPT !.pc = "guard", !.list = IF list = None THEN Open ELSE list])
  /\ UNCHANGED <<config, offers, list, routes, startup, settled, bounds>>

ReadListFails(r) ==
  /\ pass[r].pc = "read" /\ Trouble
  /\ Set(r, [pass[r] EXCEPT !.pc = "guard", !.list = Open, !.good = FALSE])
  /\ settled' = "no"
  /\ UNCHANGED <<config, offers, list, routes, startup, begun>>

OnTraefik(me) == Head(me.todo) = "opensearch" /\ me.config.class = "traefik"

\* ensure_ip_allow_middleware: best effort, and in vain without Traefik's CRDs.
Guard(r) ==
  LET me == pass[r] IN
  /\ me.pc = "guard"
  /\ middleware' = IF me.list = Open \/ "ingressroutes" \notin offers THEN None ELSE me.list
  /\ At(r, IF OnTraefik(me) THEN "clear" ELSE "put")
  /\ UNCHANGED <<config, offers, list, dashboards, ingress, route, startup, settled, bounds>>

\* Mutant: the Ingress of another class stays beside the IngressRoute.
ClearLeaves(r) ==
  /\ pass[r].pc = "clear"
  /\ At(r, "put")
  /\ UNCHANGED <<config, offers, list, routes, startup, settled, bounds>>

\* No plain Ingress for the same host.
Clear(r) ==
  /\ pass[r].pc = "clear"
  /\ ingress' = None
  /\ At(r, "put")
  /\ UNCHANGED <<config, offers, list, middleware, dashboards, route, startup, settled,
                 bounds>>

\* What goes wrong with either of the two is no error.
Skipped(r) ==
  LET me == pass[r] IN
  /\ me.pc \in {"guard", "clear"} /\ Trouble
  /\ Set(r, [me EXCEPT !.pc = IF me.pc = "guard" /\ OnTraefik(me) THEN "clear" ELSE "put",
                       !.good = FALSE])
  /\ settled' = "no"
  /\ UNCHANGED <<config, offers, list, routes, startup, begun>>

\* On to the other route.
Onward(r, me) ==
  IF Len(me.todo) = 1 THEN Done(r, me.config)
  ELSE Set(r, [me EXCEPT !.pc = "read", !.todo = Tail(@)]) /\ UNCHANGED settled

Takes(me) == OnTraefik(me) => "ingressroutes" \in offers

Put(r) ==
  LET me == pass[r]
      made == [site |-> me.config.site, class |-> me.config.class, guarded |-> me.list # Open]
  IN
  /\ me.pc = "put" /\ Takes(me)
  /\ dashboards' = IF Head(me.todo) = "dashboards" THEN made ELSE dashboards
  /\ route' = IF OnTraefik(me) THEN made ELSE route
  /\ ingress' = IF Head(me.todo) = "opensearch" /\ ~OnTraefik(me) THEN made ELSE ingress
  /\ Onward(r, me)
  /\ UNCHANGED <<config, offers, list, middleware, startup, bounds>>

\* A route that is refused: a backfill goes on to the next, a save of the allow-list and
\* an edit end, and a create is rolled back.
Refused(r) ==
  LET me == pass[r] IN
  /\ me.pc = "put"
  /\ IF Takes(me) THEN Trouble ELSE UNCHANGED troubles
  /\ IF me.kind \in {"save", "startup"} /\ Len(me.todo) > 1
     THEN Set(r, [me EXCEPT !.pc = "read", !.todo = Tail(@), !.good = FALSE])
     ELSE Set(r, Idle)
  /\ settled' = "no"
  /\ IF me.new
     THEN /\ list' = None /\ middleware' = None
          /\ dashboards' = None /\ ingress' = None /\ route' = None
     ELSE UNCHANGED <<list, routes>>
  /\ UNCHANGED <<config, offers, startup, begun>>

\* Any other call fails, or the client hangs up.
Ends(r) ==
  /\ r \in Active /\ Trouble
  /\ Set(r, Idle) /\ settled' = "no"
  /\ UNCHANGED <<config, offers, list, routes, startup, begun>>

-----------------------------------------------------------------------------
(* The process, and what is done beside the app.                             *)

Restart ==
  /\ Trouble
  /\ pass' = [r \in Requests |-> Idle] /\ startup' = TRUE /\ settled' = "no"
  /\ UNCHANGED <<config, offers, list, routes, begun>>

Beside == pass' = [r \in Requests |-> [pass[r] EXCEPT !.good = FALSE]] /\ settled' = "no"

\* The ConfigMap is restored, or applied by GitOps.
EditConfig ==
  /\ Trouble
  /\ \E c \in Settings : config' = c
  /\ Beside
  /\ UNCHANGED <<offers, list, routes, startup, begun>>

\* Traefik goes, and its objects with the CRDs.
DropTraefik ==
  /\ "ingressroutes" \in offers /\ Trouble
  /\ offers' = offers \ {"traefik", "ingressroutes"}
  /\ route' = None /\ middleware' = None
  /\ Beside
  /\ UNCHANGED <<config, list, dashboards, ingress, startup, begun>>

-----------------------------------------------------------------------------
Init ==
  /\ config \in {Default} \cup {c \in Settings : Enabled(c)}
  /\ offers \in Offers
  /\ list \in {None, Open}
  /\ middleware = None /\ dashboards = None /\ ingress = None /\ route = None
  /\ pass = [r \in Requests |-> Idle]
  /\ startup = TRUE /\ settled = "no" /\ begun = 0 /\ troubles = 0

Next ==
  \/ \E r \in Requests :
       \/ BeginSave(r) \/ BeginStartup(r) \/ BeginAllow(r) \/ BeginApply(r)
       \/ Preflight(r) \/ SetConfig(r) \/ Backfill(r) \/ ApplyCr(r)
       \/ ReadAccess(r) \/ ReadAccessFails(r) \/ ReadList(r) \/ ReadListFails(r)
       \/ Guard(r) \/ Clear(r) \/ Skipped(r) \/ Put(r) \/ Refused(r) \/ Ends(r)
  \/ Restart \/ EditConfig \/ DropTraefik

Spec == Init /\ [][Next]_vars
-----------------------------------------------------------------------------
(* Properties.                                                               *)

\* The routes are what the stored settings and the CR ask for: on the host and the class,
\* behind a middleware with the deployment's list or behind none, and the API not on an
\* Ingress beside its IngressRoute.
Follow ==
  LET made(class) == [site |-> config.site, class |-> class, guarded |-> list # Open] IN
  (Active = {} /\ list # None /\ Enabled(config)) =>
    /\ dashboards = made(config.class)
    /\ config.class = "traefik" => route = made("traefik") /\ ingress = None
    /\ config.class # "traefik" => ingress = made(config.class)
    /\ "ingressroutes" \in offers => middleware = IF list = Open THEN None ELSE list

\* The routes follow the settings after any pass that ran well and alone (backfill at a
\* save and at start-up, set_ip_allow_list, create_cluster): a pass that died half way, a
\* list or settings that came from elsewhere, a class that changed are all made up for,
\* and a save that is refused has written nothing (#139).
RoutesFollow == settled = "yes" => Follow

\* ... and also after a save whose base domain was left empty: "Switching to ingress mode
\* must cover deployments that already exist" (save_access_settings).  It does not.
DefaultDomainCovers == settled = "typed" => Follow
=============================================================================
