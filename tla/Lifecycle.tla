------------------------------ MODULE Lifecycle ------------------------------
(***************************************************************************)
(* Creating, saving and deleting deployments: create_cluster, save_cluster *)
(* and delete_cluster of src/src/api.rs, and what they call in             *)
(* src/src/k8s.rs.                                                         *)
(*                                                                         *)
(* A create claims its base name, draws a fresh name, and writes Secret,   *)
(* CR and routes one after the other; if one fails it deletes what it may  *)
(* have written before it answers.  A delete does the same and removes the *)
(* collection agents.  Both leave the data volumes to a detached sweep,    *)
(* which has to wait until the operator's StatefulSet is gone.  A client   *)
(* may hang up: its handler is dropped where it stands.                    *)
(***************************************************************************)
EXTENDS Naturals, FiniteSets

CONSTANTS
  Creates, Saves, Deletes,  \* the requests; the creates ask for one base name
  Names,      \* what <base>-<suffix> can be
  Recipes,    \* built-in monitors, whose agents a delete knows
  Packages,   \* catalog packages, which have agents too
  Trouble,    \* what may go wrong: "calls" that err, "hangups", "restarts", "sweeps"
              \* that fail, or a request that "overlaps" one on the same deployment
  MaxTrouble, \* bound: how often
  None        \* "no name drawn"

Writers  == Creates \cup Saves
Erasers  == Creates \cup Deletes
Requests == Writers \cup Deletes
Monitors == Recipes \cup Packages

ASSUME LifecycleAssumption ==
  /\ Creates \cap Saves = {} /\ Creates \cap Deletes = {} /\ Saves \cap Deletes = {}
  /\ Recipes \cap Packages = {} /\ None \notin Names
  /\ Trouble \subseteq {"calls", "hangups", "restarts", "sweeps", "overlaps"}
  /\ MaxTrouble \in Nat

VARIABLES
  claimed,   \* CREATES_IN_FLIGHT holds the base name
  drawn,     \* names handed out so far
  crs, secrets, routes,   \* the deployments that have a CR, a Secret, routes
  sets,      \* ... a StatefulSet
  volumes,   \* ... data volumes
  agents,    \* collection agents: <<deployment, monitor>>
  task,      \* the requests: where each is, and on which deployment
  sweep,     \* per deployment, its detached volume sweep
  applier,   \* per deployment, its deferred provisioning
  lost,      \* history: deployments on which a request failed, was cut short, or
             \* wrote while another deleted
  trouble    \* how much went wrong

objects == <<crs, secrets, routes>>
cluster == <<objects, sets, volumes, agents>>
tasks   == <<sweep, applier>>
vars    == <<claimed, drawn, cluster, task, tasks, lost, trouble>>

Answers == {"created", "conflict", "rolled_back", "left_behind", "saved", "deleted",
            "error", "gone"}
InFlight(r) == task[r].pc \notin Answers \cup {"idle"}
On(n)       == {r \in Requests : task[r].name = n}

Goto(r, pc) == task' = [task EXCEPT ![r].pc = pc]
\* The answer drops the handler, and with a create's handler goes its claim.
Answer(r, a) ==
  /\ Goto(r, a)
  /\ claimed' = (claimed /\ r \notin Creates)

GoesWrong(kind) ==
  /\ kind \in Trouble /\ trouble < MaxTrouble
  /\ trouble' = trouble + 1

-----------------------------------------------------------------------------
(* Create and save.                                                          *)

\* claim_create, before the first await.
Claim(c) ==
  /\ task[c].pc = "idle"
  /\ claimed' = TRUE
  /\ Goto(c, IF claimed THEN "conflict" ELSE "naming")
  /\ UNCHANGED <<drawn, cluster, tasks, lost, trouble>>

\* Mutant: the name as given, without a suffix.
DrawNoSuffix(c) ==
  /\ task[c].pc = "naming"
  /\ \E n \in Names : task' = [task EXCEPT ![c] = [pc |-> "secret", name |-> n]]
  /\ UNCHANGED <<claimed, drawn, cluster, tasks, lost, trouble>>

\* unique_name: four random characters do not repeat, and a name with a CR is
\* passed over; otherwise one name is as good as another.
Draw(c) ==
  /\ task[c].pc = "naming" /\ Names \ (drawn \cup crs) # {}
  /\ LET n == CHOOSE n \in Names \ (drawn \cup crs) : TRUE
     IN  /\ task' = [task EXCEPT ![c] = [pc |-> "secret", name |-> n]]
         /\ drawn' = drawn \cup {n}
  /\ UNCHANGED <<claimed, cluster, tasks, lost, trouble>>

\* scope.require: a save or a delete first resolves its deployment.  Nothing keeps
\* it from overlapping another request on it.
Resolve(r, first) ==
  /\ task[r].pc = "idle"
  /\ \E n \in crs :
       /\ task' = [task EXCEPT ![r] = [pc |-> first, name |-> n]]
       /\ IF \E q \in On(n) : InFlight(q) /\ ~({q, r} \subseteq Deletes)
          THEN GoesWrong("overlaps") /\ lost' = lost \cup {n}
          ELSE UNCHANGED <<lost, trouble>>
  /\ UNCHANGED <<claimed, drawn, cluster, tasks>>

Save(s) == Resolve(s, "secret")

EnsureSecret(w) ==
  /\ task[w].pc = "secret"
  /\ secrets' = secrets \cup {task[w].name}
  /\ Goto(w, "cr")
  /\ UNCHANGED <<claimed, drawn, crs, routes, sets, volumes, agents, tasks, lost, trouble>>

\* A forced apply: it makes the CR if there is none.
ApplyCr(w) ==
  /\ task[w].pc = "cr"
  /\ crs' = crs \cup {task[w].name}
  /\ Goto(w, "routes")
  /\ UNCHANGED <<claimed, drawn, secrets, routes, sets, volumes, agents, tasks, lost, trouble>>

ApplyRoutes(w) ==
  /\ task[w].pc = "routes"
  /\ routes' = routes \cup {task[w].name}
  /\ Goto(w, "finish")
  /\ UNCHANGED <<claimed, drawn, crs, secrets, sets, volumes, agents, tasks, lost, trouble>>

\* The record of what is owed is best-effort; the applier is spawned either way.
Finish(w) ==
  /\ task[w].pc = "finish"
  /\ applier' = [applier EXCEPT ![task[w].name] = "waiting"]
  /\ Answer(w, IF w \in Creates THEN "created" ELSE "saved")
  /\ UNCHANGED <<drawn, cluster, sweep, lost, trouble>>

\* A check or a call of create_cluster errs; an apply may have landed all the
\* same.  A create rolls back (whole_or_rolled_back), a save just answers.
WriteFails(w) ==
  /\ task[w].pc \in {"secret", "cr", "routes"}
  /\ GoesWrong("calls")
  /\ LET n == task[w].name
     IN  /\ \/ UNCHANGED objects
            \/ task[w].pc = "cr" /\ crs' = crs \cup {n} /\ UNCHANGED <<secrets, routes>>
            \/ task[w].pc = "routes" /\ routes' = routes \cup {n} /\ UNCHANGED <<crs, secrets>>
         /\ IF w \in Creates
            THEN Goto(w, "erase_cr") /\ UNCHANGED <<claimed, lost>>
            ELSE Answer(w, "error") /\ lost' = lost \cup {n}
  /\ UNCHANGED <<drawn, sets, volumes, agents, tasks>>

\* Before create_cluster there is nothing to roll back.
NamingFails(c) ==
  /\ task[c].pc = "naming" /\ GoesWrong("calls")
  /\ Answer(c, "error")
  /\ UNCHANGED <<drawn, cluster, tasks, lost>>

-----------------------------------------------------------------------------
(* Delete, and the rollback of a create: delete_created_objects.             *)

Delete(d) == Resolve(d, "erase_cr")

EraseCr(e) ==
  /\ task[e].pc = "erase_cr"
  /\ crs' = crs \ {task[e].name}
  /\ Goto(e, "erase_others")
  /\ UNCHANGED <<claimed, drawn, secrets, routes, sets, volumes, agents, tasks, lost, trouble>>

\* A delete meets a trouble of its own; a rollback the outage that caused it.
CannotErase(e) ==
  /\ task[e].pc = "erase_cr"
  /\ IF e \in Creates THEN UNCHANGED trouble ELSE GoesWrong("calls")

\* Mutant: a failure to delete the CR is passed over like the others.
EraseCrFailsSilently(e) ==
  /\ CannotErase(e)
  /\ Goto(e, "erase_others")
  /\ UNCHANGED <<claimed, drawn, cluster, tasks, lost>>

\* The one deletion whose failure is reported; the CR may be gone all the same.
EraseCrFails(e) ==
  /\ CannotErase(e)
  /\ crs' \in {crs, crs \ {task[e].name}}
  /\ lost' = lost \cup {task[e].name}
  /\ Answer(e, IF e \in Creates THEN "left_behind" ELSE "error")
  /\ UNCHANGED <<drawn, secrets, routes, sets, volumes, agents, tasks>>

\* Routes and Secrets are deleted one after the other without looking at the
\* outcome; a call that errs leaves what it was to delete.
EraseOthers(e, left) ==
  /\ task[e].pc = "erase_others"
  /\ routes' = IF "routes" \in left THEN routes ELSE routes \ {task[e].name}
  /\ secrets' = IF "secrets" \in left THEN secrets ELSE secrets \ {task[e].name}
  /\ sweep' = [sweep EXCEPT ![task[e].name] = "waiting"]
  /\ IF e \in Creates THEN Answer(e, "rolled_back")
                      ELSE Goto(e, "agents") /\ UNCHANGED claimed
  /\ UNCHANGED <<drawn, crs, sets, volumes, agents, applier>>

EraseAll(e) == EraseOthers(e, {}) /\ UNCHANGED <<lost, trouble>>

EraseMisses(e) ==
  /\ \E left \in SUBSET {"routes", "secrets"} : left # {} /\ EraseOthers(e, left)
  /\ lost' = lost \cup {task[e].name}
  /\ GoesWrong("calls")

\* remove_agent for each recipe.
RemoveAgents(d) ==
  /\ task[d].pc = "agents"
  /\ agents' = agents \ ({task[d].name} \X Recipes)
  /\ Answer(d, "deleted")
  /\ UNCHANGED <<drawn, objects, sets, volumes, tasks, lost, trouble>>

\* Mutant: the volumes are deleted without waiting for the StatefulSet.
SweepAtOnce(n) ==
  /\ sweep[n] = "waiting"
  /\ sweep' = [sweep EXCEPT ![n] = "sweeping"]
  /\ UNCHANGED <<claimed, drawn, cluster, task, applier, lost, trouble>>

\* delete_data_pvcs: no StatefulSet is left ...
SweepReady(n) ==
  /\ sweep[n] = "waiting" /\ n \notin sets
  /\ sweep' = [sweep EXCEPT ![n] = "sweeping"]
  /\ UNCHANGED <<claimed, drawn, cluster, task, applier, lost, trouble>>

\* ... so what is deleted stays deleted.
SweepVolumes(n) ==
  /\ sweep[n] = "sweeping"
  /\ volumes' = volumes \ {n}
  /\ sweep' = [sweep EXCEPT ![n] = "none"]
  /\ UNCHANGED <<claimed, drawn, objects, sets, agents, task, applier, lost, trouble>>

\* STS_GONE_TIMEOUT passes, or the volumes cannot be deleted.
SweepFails(n) ==
  /\ sweep[n] # "none" /\ GoesWrong("sweeps")
  /\ sweep' = [sweep EXCEPT ![n] = "none"]
  /\ lost' = lost \cup {n}
  /\ UNCHANGED <<claimed, drawn, cluster, task, applier>>

-----------------------------------------------------------------------------
(* The applier, as far as agents go; Provisioning has the rest.              *)

\* The cluster has settled, so there are nodes; without a CR the applier ends.
ApplierSettles(n) ==
  /\ applier[n] = "waiting"
  /\ \/ n \in crs /\ n \in sets /\ applier' = [applier EXCEPT ![n] = "applying"]
     \/ n \notin crs /\ applier' = [applier EXCEPT ![n] = "none"]
  /\ UNCHANGED <<claimed, drawn, cluster, task, sweep, lost, trouble>>

\* An installation needs an OpenSearch that answers, not the CR; some of them may
\* fail.
ApplierInstalls(n) ==
  /\ applier[n] = "applying"
  /\ \E ms \in SUBSET Monitors :
       /\ n \notin sets => ms = {}
       /\ agents' = agents \cup ({n} \X ms)
  /\ applier' = [applier EXCEPT ![n] = "none"]
  /\ UNCHANGED <<claimed, drawn, objects, sets, volumes, task, sweep, lost, trouble>>

-----------------------------------------------------------------------------
(* The operator and the StatefulSet controller (external), and what goes     *)
(* wrong with the backend itself.                                            *)

OperatorCreates(n) ==
  /\ n \in crs \ sets
  /\ sets' = sets \cup {n}
  /\ UNCHANGED <<claimed, drawn, objects, volumes, agents, task, tasks, lost, trouble>>

SetCollected(n) ==
  /\ n \in sets \ crs
  /\ sets' = sets \ {n}
  /\ UNCHANGED <<claimed, drawn, objects, volumes, agents, task, tasks, lost, trouble>>

\* A StatefulSet claims its volumes, again if they are deleted under it.
VolumesClaimed(n) ==
  /\ n \in sets \ volumes
  /\ volumes' = volumes \cup {n}
  /\ UNCHANGED <<claimed, drawn, objects, sets, agents, task, tasks, lost, trouble>>

\* Whatever a dropped handler was to write or delete stays as it is.
Cut(rs) == {task[r].name : r \in {q \in rs : InFlight(q) /\ task[q].name # None}}

HangUp(r) ==
  /\ InFlight(r) /\ GoesWrong("hangups")
  /\ Answer(r, "gone")
  /\ lost' = lost \cup Cut({r})
  /\ UNCHANGED <<drawn, cluster, tasks>>

Restart ==
  /\ GoesWrong("restarts")
  /\ claimed' = FALSE
  /\ task' = [r \in Requests |-> IF InFlight(r) THEN [task[r] EXCEPT !.pc = "gone"]
                                                ELSE task[r]]
  /\ lost' = lost \cup Cut(Requests) \cup {n \in Names : sweep[n] # "none"}
  /\ sweep' = [n \in Names |-> "none"]
  /\ applier' = [n \in Names |-> "none"]
  /\ UNCHANGED <<drawn, cluster>>

Init ==
  /\ claimed = FALSE /\ drawn = {}
  /\ crs = {} /\ secrets = {} /\ routes = {} /\ sets = {} /\ volumes = {} /\ agents = {}
  /\ task = [r \in Requests |-> [pc |-> "idle", name |-> None]]
  /\ sweep = [n \in Names |-> "none"]
  /\ applier = [n \in Names |-> "none"]
  /\ lost = {} /\ trouble = 0

CreateStep(c) == Claim(c) \/ Draw(c) \/ NamingFails(c)
WriteStep(w)  == EnsureSecret(w) \/ ApplyCr(w) \/ ApplyRoutes(w) \/ Finish(w) \/ WriteFails(w)
EraseStep(e)  == EraseCr(e) \/ EraseCrFails(e) \/ EraseAll(e) \/ EraseMisses(e)
SweepStep(n)  == SweepReady(n) \/ SweepVolumes(n) \/ SweepFails(n)
ApplyStep(n)  == ApplierSettles(n) \/ ApplierInstalls(n)
OperatorStep(n) == OperatorCreates(n) \/ SetCollected(n) \/ VolumesClaimed(n)

Next ==
  \/ \E c \in Creates : CreateStep(c)
  \/ \E s \in Saves : Save(s)
  \/ \E d \in Deletes : Delete(d) \/ RemoveAgents(d)
  \/ \E w \in Writers : WriteStep(w)
  \/ \E e \in Erasers : EraseStep(e)
  \/ \E r \in Requests : HangUp(r)
  \/ \E n \in Names : SweepStep(n) \/ ApplyStep(n) \/ OperatorStep(n)
  \/ Restart

Spec == Init /\ [][Next]_vars

\* A handler that was not dropped runs on, detached tasks run on, and the
\* operator and its controllers do what there is to do.
Fairness ==
  /\ \A c \in Creates : WF_vars(task[c].pc # "idle" /\ CreateStep(c))
  /\ \A w \in Writers : WF_vars(WriteStep(w))
  /\ \A e \in Erasers : WF_vars(EraseStep(e))
  /\ \A d \in Deletes : WF_vars(RemoveAgents(d))
  /\ \A n \in Names : WF_vars(SweepStep(n)) /\ WF_vars(ApplyStep(n))
  /\ \A n \in Names : WF_vars(OperatorStep(n))

FairSpec == Spec /\ Fairness
-----------------------------------------------------------------------------
(* Properties.                                                               *)

Stages == {"idle", "naming", "secret", "cr", "routes", "finish", "erase_cr",
           "erase_others", "agents"} \cup Answers

\* The types of the cluster's objects, the requests and the detached tasks; whoever
\* writes or deletes has a name to do it to.
TypeOK ==
  /\ claimed \in BOOLEAN
  /\ drawn \subseteq Names /\ crs \subseteq Names /\ secrets \subseteq Names
  /\ routes \subseteq Names /\ sets \subseteq Names /\ volumes \subseteq Names
  /\ agents \subseteq Names \X Monitors
  /\ task \in [Requests -> [pc : Stages, name : Names \cup {None}]]
  /\ \A r \in Requests :
       task[r].pc \in Stages \ {"idle", "naming", "conflict", "error", "gone"} =>
         task[r].name # None
  /\ sweep \in [Names -> {"none", "waiting", "sweeping"}]
  /\ applier \in [Names -> {"none", "waiting", "applying"}]
  /\ lost \subseteq Names /\ trouble \in 0 .. MaxTrouble

\* Of the creates of one base name at most one is being handled, and the name is
\* claimed exactly while one is, whoever is refused, fails or hangs up (api.rs:
\* "success, `?` on any error, or the client hanging up").
OneCreate ==
  /\ \A c, d \in Creates : InFlight(c) /\ InFlight(d) => c = d
  /\ claimed <=> \E c \in Creates : InFlight(c)

\* A deployment whose create was answered with success has its CR, its Secret and
\* its routes until someone asks for its deletion: no other create's rollback and
\* no save takes them away (api.rs whole_or_rolled_back).
CreatedStays ==
  \A c \in Creates :
    task[c].pc = "created" =>
      \/ task[c].name \in crs \cap secrets \cap routes
      \/ \E d \in Deletes : task[d].name = task[c].name

\* A create that says "nothing was created" has left no CR, unless a save of it had
\* begun (api.rs: "a create is whole or gone -- never error AND created").
RolledBackIsGone ==
  \A c \in Creates :
    task[c].pc = "rolled_back" =>
      \/ task[c].name \notin crs
      \/ \E s \in Saves : task[s].name = task[c].name

\* Once all is quiet, nothing is left of a deployment without a CR: not its Secret,
\* its routes or its data volumes, which no garbage collector would ever take
\* (k8s.rs delete_data_pvcs: "Ordering is load-bearing").
NothingLeft ==
  <>[](\A n \in Names \ (crs \cup lost) :
         n \notin secrets \cup routes \cup sets \cup volumes)
=============================================================================
