------------------------------ MODULE MCContents ------------------------------
(***************************************************************************)
(* What velox puts into a deployment besides its CR: the deferred profile  *)
(* and monitors with every kind of request and of trouble, the retention   *)
(* policies, the logins of the collectors, the integrations and the        *)
(* annotations that list them. The modules share no state, so an initial   *)
(* state picks one of them, and only that one moves.                       *)
(***************************************************************************)
EXTENDS Integrations, TLC

CONSTANTS Uses, Search, Sampler, Appliers, Budgets, ProvTrouble, ProvKinds, Days,
          Shipped, RetBegun, MaxEdits, RetTrouble, Stacks, ColBegun, MaxResets,
          ColTrouble, Newest, Unsigned, NeedNewer, CatBegun, CatTrouble

VARIABLES
  part,  \* the component of this behaviour
  wanted, record, installed, settled, provReq, task, provTroubles, orderly, doubled,
  default, cr, live, behind, seqs, retPass, retCrossed, retAmiss, edits, retBegun,
  retTroubles,
  admin, accepted, resets, login, made, colPass, colCrossed, torn, cut, ticked, colBegun,
  colTroubles,
  id, published, cache, objects, agent, monitor, recorded, catReq, catCrossed,
  catAmiss, late, seen, catBegun, catTroubles

UnsignedExtra == {<<"extra", 2>>}
NewerNginx == {<<"nginx", 2>>}

P == INSTANCE Provisioning WITH
       Users <- Requests, Monitors <- Ids, Kinds <- ProvKinds,
       Purposes <- Uses, Trouble <- ProvTrouble, req <- provReq,
       troubles <- provTroubles
R == INSTANCE Retention WITH
       Passes <- Requests, MaxBegun <- RetBegun, MaxTrouble <- RetTrouble,
       Builtin <- Shipped, pass <- retPass, crossed <- retCrossed, amiss <- retAmiss,
       begun <- retBegun, troubles <- retTroubles
K == INSTANCE Collectors WITH
       Passes <- Requests, MaxBegun <- ColBegun, MaxTrouble <- ColTrouble,
       Recipes <- Stacks, pass <- colPass, crossed <- colCrossed, begun <- colBegun,
       troubles <- colTroubles
G == INSTANCE Catalog WITH
       MaxBegun <- CatBegun, MaxTrouble <- CatTrouble, req <- catReq,
       crossed <- catCrossed, amiss <- catAmiss, begun <- catBegun,
       troubles <- catTroubles

ASSUME PartsAssumption ==
  /\ P!ProvisioningAssumption /\ P!NoneAssumption /\ R!RetentionAssumption
  /\ K!CollectorsAssumption /\ G!CatalogAssumption

provVars == <<wanted, record, installed, settled, provReq, task, provTroubles, orderly,
              doubled>>
retVars == <<default, cr, live, behind, seqs, retPass, retCrossed, retAmiss, edits,
             retBegun, retTroubles>>
colVars == <<admin, accepted, resets, login, made, colPass, colCrossed, torn, cut, ticked,
             colBegun, colTroubles>>
catVars == <<id, published, cache, objects, agent, monitor, recorded, catReq,
             catCrossed, catAmiss, late, seen, catBegun, catTroubles>>
allVars == <<part, vars, provVars, retVars, colVars, catVars>>

-----------------------------------------------------------------------------
(* A component that is not the one of this behaviour stays where it starts, or   *)
(* has no state.                                                                 *)

AllInit ==
  /\ part \in {"annotations", "provisioning", "retention", "collectors", "catalog"}
  /\ Init
  /\ IF part = "provisioning" THEN P!Init
     ELSE wanted = None /\ record = None /\ installed = None /\ settled = None /\
          provReq = None /\ task = None /\ provTroubles = None /\
          orderly = None /\ doubled = None
  /\ IF part = "retention" THEN R!Init
     ELSE default = None /\ cr = None /\ live = None /\ behind = None /\ seqs = None /\
          retPass = None /\ retCrossed = None /\ retAmiss = None /\ edits = None /\
          retBegun = None /\ retTroubles = None
  /\ IF part = "collectors" THEN K!Init
     ELSE admin = None /\ accepted = None /\ resets = None /\ login = None /\
          made = None /\ colPass = None /\ colCrossed = None /\ torn = None /\
          cut = None /\ ticked = None /\ colBegun = None /\ colTroubles = None
  /\ IF part = "catalog" THEN G!Init
     ELSE id = None /\ published = None /\ cache = None /\ objects = None /\
          agent = None /\ monitor = None /\ recorded = None /\ catReq = None /\
          catCrossed = None /\ catAmiss = None /\ late = None /\ seen = None /\
          catBegun = None /\ catTroubles = None

Ann(step) ==
  /\ part = "annotations" /\ step
  /\ UNCHANGED <<part, provVars, retVars, colVars, catVars>>
Prov(step) ==
  /\ part = "provisioning" /\ step
  /\ UNCHANGED <<part, vars, retVars, colVars, catVars>>
Ret(step) ==
  /\ part = "retention" /\ step
  /\ UNCHANGED <<part, vars, provVars, colVars, catVars>>
Col(step) ==
  /\ part = "collectors" /\ step
  /\ UNCHANGED <<part, vars, provVars, retVars, catVars>>
Cat(step) ==
  /\ part = "catalog" /\ step
  /\ UNCHANGED <<part, vars, provVars, retVars, colVars>>

AnnNext ==
  \/ \E r \in Requests :
       \/ Ann(Start(r)) \/ Ann(Engine(r)) \/ Ann(Read(r)) \/ Ann(Patch(r)) \/
          Ann(Conflict(r)) \/ Ann(RequestFails(r)) \/ Ann(PatchFails(r))
  \/ Ann(OtherWrite)

ProvNext ==
  \/ \E r \in Requests :
       \/ Prov(P!Save(r)) \/ Prov(P!Retry(r)) \/ Prov(P!Toggle(r))
  \/ \E r \in P!Starters :
       \/ Prov(P!Begin(r)) \/ Prov(P!MarkRecord(r)) \/ Prov(P!MarkFails(r)) \/
          Prov(P!Spawn(r)) \/ Prov(P!ToggleMarks(r))
  \/ \E t \in Appliers :
       \/ Prov(P!ReadDeferred(t)) \/ Prov(P!RunsOut(t)) \/ Prov(P!GiveUp(t)) \/
          Prov(P!TimesOut(t)) \/ Prov(P!Settles(t)) \/ Prov(P!ApplyProfile(t)) \/
          Prov(P!ApplyMonitor(t)) \/ Prov(P!PassEnds(t)) \/ Prov(P!ItemFails(t)) \/
          Prov(P!ReadFails(t))
  \/ Prov(P!Rearm) \/ Prov(P!Moves) \/ Prov(P!Crash)

RetNext ==
  \/ \E r \in Requests :
       \/ Ret(R!BeginApply(r)) \/ Ret(R!BeginReset(r)) \/ Ret(R!BeginInstall(r)) \/
          Ret(R!BeginSave(r)) \/ Ret(R!Carry(r)) \/ Ret(R!Manifest(r)) \/
          Ret(R!Profile(r)) \/ Ret(R!Drop(r)) \/ Ret(R!Get(r)) \/ Ret(R!Put(r)) \/
          Ret(R!Refused(r)) \/ Ret(R!Settle(r)) \/ Ret(R!Record(r)) \/
          Ret(R!DropFails(r)) \/ Ret(R!SettleFails(r)) \/ Ret(R!Ends(r))
  \/ Ret(R!SetDefault) \/ Ret(R!UserEdit)

ColNext ==
  \/ Col(K!Reset) \/ Col(K!Job) \/ Col(K!Backstop)
  \/ \E c \in K!Collectors :
       \/ Col(K!Start(c))
  \/ \E r \in Requests :
       \/ Col(K!BeginTick(r)) \/ Col(K!BeginInstall(r)) \/ Col(K!BeginRepair(r)) \/
          Col(K!BeginRemove(r)) \/ Col(K!BeginRotate(r)) \/ Col(K!ReadCreds(r)) \/
          Col(K!WriteLogin(r)) \/ Col(K!Configure(r)) \/
          Col(K!Workload(r)) \/ Col(K!Delete(r)) \/ Col(K!Last(r)) \/ Col(K!Drop(r)) \/
          Col(K!Look(r)) \/ Col(K!Probe(r)) \/ Col(K!Secret(r)) \/ Col(K!Stamp(r)) \/
          Col(K!SyncSecret(r)) \/ Col(K!SyncPart(r)) \/ Col(K!End(r)) \/ Col(K!Ends(r))

CatNext ==
  \/ \E r \in Requests :
       \/ Cat(G!BeginInstall(r)) \/ Cat(G!BeginUninstall(r)) \/ Cat(G!ServeFresh(r)) \/
          Cat(G!Ask(r)) \/ Cat(G!Store(r)) \/ Cat(G!AskFails(r)) \/
          Cat(G!FetchManifest(r)) \/ Cat(G!FetchFiles(r)) \/ Cat(G!Verify(r)) \/
          Cat(G!Fallback(r)) \/ Cat(G!PutConfig(r)) \/ Cat(G!PutSaved(r)) \/
          Cat(G!DeployAgent(r)) \/ Cat(G!SetMonitor(r)) \/ Cat(G!SetVersion(r)) \/
          Cat(G!RemoveAgent(r)) \/ Cat(G!TearDown(r)) \/ Cat(G!Skipped(r)) \/
          Cat(G!Ends(r))
  \/ Cat(G!Publish) \/ Cat(G!Expire)

AllNext == AnnNext \/ ProvNext \/ RetNext \/ ColNext \/ CatNext
AllSpec == AllInit /\ [][AllNext]_allVars

-----------------------------------------------------------------------------
(* The properties of the components: see their modules.                          *)

\* An applier never installs a monitor on a cluster that has no profile
\* (provisioning.rs, plan).
MonitorsAfterProfile ==
  [][(part = "provisioning" /\ \E t \in Appliers : P!ApplyMonitor(t))
       => installed.profile # None]_provVars

\* A policy that a user has edited is written again by nothing but "restore default"
\* (retention.rs, apply_once).
EditsStand == [][part = "retention" => R!KeepsEdits]_retVars

\* The CR's retention and the policy in OpenSearch agree (apply_default_retention,
\* reset_retention).
CrAndPolicyAgree == part = "retention" => R!CrAndPolicyAgree

\* After a tick that ran alone to its end every collector has the password that
\* OpenSearch takes (reconcile_creds).
TickSettlesLogins == part = "collectors" => K!TickSettlesLogins

\* What gets recorded of an integration is what actually gets applied, and what was
\* removed has left nothing behind (catalog.rs, install and uninstall).
RecordIsWhatRuns == part = "catalog" => G!RecordIsWhatRuns

Symmetry == Permutations(Requests) \cup Permutations(Appliers) \cup Permutations(Ids)
=============================================================================
