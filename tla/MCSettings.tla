------------------------------ MODULE MCSettings ------------------------------
(***************************************************************************)
(* The settings of a deployment that users save, and what it reports: the  *)
(* snapshots, the identity provider, the public routes, and the activity   *)
(* of the status. The modules share no state, so an initial state picks    *)
(* one of them, and only that one moves.                                   *)
(***************************************************************************)
EXTENDS Snapshots, TLC

CONSTANTS Creds, Kinds, Kept, Mode, Domain, AuthBegun, Sites, Fallback, Lists, Open,
          Offers, MaxBegun, MaxNodes, MaxTrouble

VARIABLES
  part,  \* the component of this behaviour
  files, saved, account, authCr, index, req, given, authCrossed, amiss, authBegun,
  authTroubles,
  config, offers, list, middleware, dashboards, ingress, route, pass, startup, settled,
  accBegun, accTroubles,
  want, upgrade, actCr, size, pods, claims, dash, read, shown, open, clean, actEvents

A == INSTANCE AuthProvider WITH
       Requests <- Saves, MaxBegun <- AuthBegun, cr <- authCr, crossed <- authCrossed,
       begun <- authBegun, troubles <- authTroubles
E == INSTANCE Access WITH
       Requests <- Saves, begun <- accBegun, troubles <- accTroubles
V == INSTANCE Activity WITH
       Count <- Cardinality, cr <- actCr, events <- actEvents

ASSUME SettingsAssumption == A!AuthAssumption /\ V!ActivityAssumption

authVars == <<files, saved, account, authCr, index, req, given, authCrossed, amiss,
              authBegun, authTroubles>>
accVars == <<config, offers, list, middleware, dashboards, ingress, route, pass,
             startup, settled, accBegun, accTroubles>>
actVars == <<want, upgrade, actCr, size, pods, claims, dash, read, shown, open, clean,
             actEvents>>
allVars == <<part, vars, authVars, accVars, actVars>>

-----------------------------------------------------------------------------
(* A component that is not the one of this behaviour stays where it starts, or   *)
(* has no state.                                                                 *)

AllInit ==
  /\ part \in {"snapshots", "auth provider", "access", "activity"}
  /\ Init
  /\ IF part = "auth provider" THEN A!Init
     ELSE files = None /\ saved = None /\ account = None /\ authCr = None /\
          index = None /\ req = None /\ given = None /\ authCrossed = None /\
          amiss = None /\ authBegun = None /\ authTroubles = None
  /\ IF part = "access" THEN E!Init
     ELSE config = None /\ offers = None /\ list = None /\ middleware = None /\
          dashboards = None /\ ingress = None /\ route = None /\ pass = None /\
          startup = None /\ settled = None /\ accBegun = None /\ accTroubles = None
  /\ IF part = "activity" THEN V!Init
     ELSE want = None /\ upgrade = None /\ actCr = None /\ size = None /\
          pods = None /\ claims = None /\ dash = None /\ read = None /\ shown = None /\
          open = None /\ clean = None /\ actEvents = None

Snap(step) ==
  /\ part = "snapshots" /\ step
  /\ UNCHANGED <<part, authVars, accVars, actVars>>
Auth(step) ==
  /\ part = "auth provider" /\ step
  /\ UNCHANGED <<part, vars, accVars, actVars>>
Acc(step) ==
  /\ part = "access" /\ step
  /\ UNCHANGED <<part, vars, authVars, actVars>>
Act(step) ==
  /\ part = "activity" /\ step
  /\ UNCHANGED <<part, vars, authVars, accVars>>

SnapNext ==
  \/ \E s \in Saves :
       \/ Snap(Begin(s)) \/ Snap(Preflight(s)) \/ Snap(WriteSecret(s)) \/
          Snap(WriteSlice(s)) \/ Snap(Prune(s)) \/ Snap(DropPolicy(s)) \/
          Snap(ApplyPolicy(s)) \/ Snap(SetPending(s)) \/ Snap(ForgetSecret(s)) \/
          Snap(SaveFails(s))
  \/ Snap(TickReads) \/ Snap(TickChecks) \/ Snap(TickApplies) \/ Snap(TickClears) \/
     Snap(RollStarts) \/ Snap(RollEnds) \/ Snap(Ages) \/ Snap(Restart)

AuthNext ==
  \/ \E r \in Saves :
       \/ Auth(A!Begin(r)) \/ Auth(A!ReadStored(r)) \/ Auth(A!ReadFails(r)) \/
          Auth(A!LookOwned(r)) \/ Auth(A!EnsureAccount(r)) \/ Auth(A!WriteFiles(r)) \/
          Auth(A!Save(r)) \/ Auth(A!Wire(r)) \/ Auth(A!Point(r)) \/ Auth(A!Prune(r)) \/
          Auth(A!DropFiles(r)) \/ Auth(A!Unsave(r)) \/ Auth(A!DropAccount(r)) \/
          Auth(A!DeleteFails(r)) \/ Auth(A!Ends(r))
  \/ Auth(A!Push)

AccNext ==
  \/ \E r \in Saves :
       \/ Acc(E!BeginSave(r)) \/ Acc(E!BeginStartup(r)) \/ Acc(E!BeginAllow(r)) \/
          Acc(E!BeginApply(r)) \/ Acc(E!Preflight(r)) \/ Acc(E!SetConfig(r)) \/
          Acc(E!Backfill(r)) \/ Acc(E!ApplyCr(r)) \/ Acc(E!ReadAccess(r)) \/
          Acc(E!ReadAccessFails(r)) \/ Acc(E!ReadList(r)) \/ Acc(E!ReadListFails(r)) \/
          Acc(E!Guard(r)) \/ Acc(E!Clear(r)) \/ Acc(E!Skipped(r)) \/ Acc(E!Put(r)) \/
          Acc(E!Refused(r)) \/ Acc(E!Ends(r))
  \/ Acc(E!Restart) \/ Acc(E!EditConfig) \/ Acc(E!DropTraefik)

ActNext ==
  \/ Act(V!ReadCr) \/ Act(V!ReadSts) \/ Act(V!StsFails) \/ Act(V!ReadClaims) \/
     Act(V!ClaimsFail) \/ Act(V!ReadDash) \/ Act(V!DashFails)
  \/ \E n \in V!Nodes :
       \/ Act(V!StartPod(n)) \/ Act(V!Bind(n)) \/ Act(V!GetsReady(n)) \/
          Act(V!Restart(n)) \/ Act(V!Crash(n))
  \/ Act(V!Resize) \/ Act(V!Report) \/ Act(V!Initialize) \/ Act(V!MakeDash) \/
     Act(V!DashUp) \/ Act(V!DashDown) \/ Act(V!Template) \/ Act(V!Scale) \/
     Act(V!AskUpgrade) \/ Act(V!Upgrade) \/ Act(V!Upgraded)

AllNext == SnapNext \/ AuthNext \/ AccNext \/ ActNext
AllSpec == AllInit /\ [][AllNext]_allVars

-----------------------------------------------------------------------------
(* The properties of the components: see their modules.                          *)

\* What the app shows as the identity provider is what the cluster authenticates
\* against (merge_secrets, internal_only_security_config_files).
ShownIsRun == part = "auth provider" => A!ShownIsRun

\* The routes follow the settings and the allow-list after any pass that ran well and
\* alone (backfill, set_ip_allow_list, create_cluster).
RoutesFollow == part = "access" => E!RoutesFollow

\* No deployment is called settled by a read that had something unfinished before it
\* all along (settled_of, nodes_settled).
SettledMissesNothing == part = "activity" => V!SettledMissesNothing

\* The bar does not walk back while nothing goes wrong, once every claim is bound
\* (percent_for, nodes_done).
PercentClimbs == [][part = "activity" => V!Climbs]_actVars

Symmetry == Permutations(Saves)
=============================================================================
