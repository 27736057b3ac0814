----------------------------- MODULE MCLifecycle -----------------------------
(***************************************************************************)
(* The life of deployments, and what one of them is owed after its create  *)
(* and its saves.  The modules share no state, so an initial state picks   *)
(* one of them, and only that one moves.  The second is explored as far as *)
(* it is orderly, which is what its properties here are about; MCContents  *)
(* has it with everything.                                                 *)
(***************************************************************************)
EXTENDS Lifecycle, TLC

CONSTANTS Uses, Search, Choices, Users, Sampler, Appliers, Budgets, ProvTrouble,
          ProvKinds, MaxFailures

VARIABLES
  part,  \* the component of this behaviour
  wanted, record, installed, settled, req, provTask, troubles, orderly, doubled

P == INSTANCE Provisioning WITH
       Purposes <- Uses, Monitors <- Choices, Trouble <- ProvTrouble, Kinds <- ProvKinds,
       MaxTrouble <- MaxFailures, task <- provTask

AllTrouble == {"calls", "hangups", "restarts", "sweeps", "overlaps"}

ASSUME OwedAssumption == P!ProvisioningAssumption /\ P!NoneAssumption

provVars == <<wanted, record, installed, settled, req, provTask, troubles, orderly,
              doubled>>
allVars == <<part, vars, provVars>>

-----------------------------------------------------------------------------
(* A component that is not the one of this behaviour stays where it starts.      *)

AllInit == part \in {"lifecycle", "provisioning"} /\ Init /\ P!Init

Life(step) == part = "lifecycle" /\ step /\ UNCHANGED <<part, provVars>>
Prov(step) == part = "provisioning" /\ step /\ UNCHANGED <<part, vars>>

LifeNext ==
  \/ \E c \in Creates : Life(Claim(c)) \/ Life(Draw(c)) \/ Life(NamingFails(c))
  \/ \E s \in Saves : Life(Save(s))
  \/ \E d \in Deletes : Life(Delete(d)) \/ Life(RemoveAgents(d))
  \/ \E w \in Writers :
       \/ Life(EnsureSecret(w)) \/ Life(ApplyCr(w)) \/ Life(ApplyRoutes(w))
       \/ Life(Finish(w)) \/ Life(WriteFails(w))
  \/ \E e \in Erasers :
       Life(EraseCr(e)) \/ Life(EraseCrFails(e)) \/ Life(EraseAll(e)) \/ Life(EraseMisses(e))
  \/ \E r \in Requests : Life(HangUp(r))
  \/ \E n \in Names :
       \/ Life(SweepReady(n)) \/ Life(SweepVolumes(n)) \/ Life(SweepFails(n))
       \/ Life(ApplierSettles(n)) \/ Life(ApplierInstalls(n))
       \/ Life(OperatorCreates(n)) \/ Life(SetCollected(n)) \/ Life(VolumesClaimed(n))
  \/ Life(Restart)

\* All its steps but the one that ends a toggle and the one at the applier's local
\* bound, which nothing orderly comes to; MCContents fires those.
ProvNext ==
  \/ \E r \in Users : Prov(P!Save(r)) \/ Prov(P!Retry(r)) \/ Prov(P!Toggle(r))
  \/ \E r \in P!Starters :
       \/ Prov(P!Begin(r)) \/ Prov(P!MarkRecord(r)) \/ Prov(P!MarkFails(r))
       \/ Prov(P!Spawn(r))
  \/ \E t \in Appliers :
       \/ Prov(P!ReadDeferred(t)) \/ Prov(P!GiveUp(t)) \/ Prov(P!TimesOut(t))
       \/ Prov(P!Settles(t)) \/ Prov(P!ApplyProfile(t)) \/ Prov(P!ApplyMonitor(t))
       \/ Prov(P!PassEnds(t)) \/ Prov(P!ItemFails(t)) \/ Prov(P!ReadFails(t))
  \/ Prov(P!Rearm) \/ Prov(P!Moves) \/ Prov(P!Crash)

AllNext == LifeNext \/ ProvNext
AllSpec == AllInit /\ [][AllNext]_allVars

\* What is explored.
Explored == part = "provisioning" => orderly

\* The fairness of the two modules, each for its own part.
AllFairness ==
  /\ \A c \in Creates : WF_allVars(Life(task[c].pc # "idle" /\ CreateStep(c)))
  /\ \A w \in Writers : WF_allVars(Life(WriteStep(w)))
  /\ \A e \in Erasers : WF_allVars(Life(EraseStep(e)))
  /\ \A d \in Deletes : WF_allVars(Life(RemoveAgents(d)))
  /\ \A n \in Names : WF_allVars(Life(SweepStep(n))) /\ WF_allVars(Life(ApplyStep(n)))
  /\ \A n \in Names : WF_allVars(Life(OperatorStep(n)))
  /\ WF_allVars(Prov(settled /\ P!Rearm))
  /\ \A r \in P!Starters : WF_allVars(Prov(P!RequestGoesOn(r)))
  /\ \A t \in Appliers : WF_allVars(Prov(P!Applier(t)))

FairAllSpec == AllSpec /\ AllFairness

-----------------------------------------------------------------------------
(* The properties of the second component: see its module.                       *)

\* A deployment reported complete, with no request under way, has every monitor it
\* selected, and its profile unless a record once counted two (provisioning.rs).
CompleteIsApplied == part = "provisioning" => P!CompleteIsApplied

\* Once the cluster has settled for good, what a deployment owes gets applied, as long
\* as all that comes is orderly (ADR-056).
OwedGetsDone == part = "provisioning" => P!OwedGetsDone
=============================================================================
