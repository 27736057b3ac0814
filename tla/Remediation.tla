----------------------------- MODULE Remediation -----------------------------
(***************************************************************************)
(* The remediation of wedged shard recoveries of one deployment (#27, #96): *)
(* src/src/k8s.rs, from status_from down to remediate_wedged_recovery, with *)
(* the verdict of src/src/activity.rs it rests on.                          *)
(*                                                                         *)
(* Every read of the status may find a wedged recovery, by the watch of a   *)
(* restart wave or by the diagnosis of a stall.  It then claims an entry in *)
(* a log in memory and spawns a task that raises the recovery throttle of   *)
(* the cluster and deletes the pod the wedged recoveries come from.  The    *)
(* entry is the cooldown, and it is also the only thing that remembers the  *)
(* raise: a later read hands the throttle back and removes it.              *)
(*                                                                         *)
(* Reads run side by side: the sampler's and one per viewer.  A read takes  *)
(* the entry and the recoveries at one moment and may use them at any later *)
(* one, when both are others: recoveries come and go, so the two caches,    *)
(* which keep an answer for 30 seconds, need no variable.                   *)
(* Names of indices, what the viewer is shown and the dashboards rung,      *)
(* which has a log and a remediation of its own, are left out.              *)
(***************************************************************************)
EXTENDS Naturals, FiniteSets

CONSTANTS Reads,      \* status reads that can run at once
          MaxTasks,   \* bound on the remediations that can run at once
          Recs,       \* shard recoveries
          Pods,       \* node pods
          Source,     \* the pod a recovery comes from
          Situations, \* the situations the deployment goes through
          None,       \* no entry, no pod
          MaxTrouble  \* bound on what goes wrong

\* What the CR, the StatefulSet and the pods show: green, every node ready and on
\* the current revision; a RollingRestart row that is not terminal; and whether no
\* node pod has moved for STALL_AFTER_SECS.  Dashboards is up throughout.
Facts == [green : BOOLEAN, updated : BOOLEAN, wave : BOOLEAN, still : BOOLEAN]

ASSUME RemediationAssumption ==
  /\ Source \in [Recs -> Pods]
  /\ Situations \subseteq Facts /\ Situations # {}
  /\ None \notin Pods \cup {"fresh", "old"}
  /\ MaxTasks \in Nat /\ MaxTrouble \in Nat

VARIABLES facts,    \* the situation now
          recs,     \* the cluster's recoveries
          raised,   \* the transient override of node_concurrent_recoveries
          log,      \* the remediation log's entry for this deployment
          read,     \* the status reads
          task,     \* how many remediations are about to do what
          lost,     \* history: a raise that the log forgot, by a restart or by a hand-back
                    \* between whose two halves a task ended, until the log is written again
          troubles  \* what has gone wrong so far

vars == <<facts, recs, raised, log, read, task, lost, troubles>>

Trouble == troubles < MaxTrouble /\ troubles' = troubles + 1

-----------------------------------------------------------------------------
(* activity.rs: the verdict, from the signals of one reading.               *)

NodesSettled(f) == f.green /\ f.updated /\ ~f.wave
Stalled(f) == ~NodesSettled(f) /\ f.still

RestartWave(f) == ~f.updated \/ f.wave

-----------------------------------------------------------------------------
(* The recoveries, as the three queries of the code see them.               *)

\* In init at zero bytes, for less or more than the 600 seconds of both budgets;
\* past init for more; anything else raises no question.
States == {"fine", "init", "wedged", "long"}

\* parse_recovery_rows, narrowed to what wave_settled and worst_wedged_init ask.
InInit(r) == recs[r] \in {"init", "wedged"}
Rows ==
  IF \E r \in Recs : recs[r] = "wedged" THEN "wedged"
  ELSE IF \E r \in Recs : InInit(r) THEN "unsettled" ELSE "settled"

\* The oldest active recovery has run for REMEDIATE_AFTER_SECS, in any stage.
Held == \E r \in Recs : recs[r] \in {"wedged", "long"}

\* choose_bounce_pod: the pod most of the recoveries in init come from, if there
\* is one.
Votes(p) == Cardinality({r \in Recs : InInit(r) /\ Source[r] = p})
Top(p) == Votes(p) > 0 /\ \A q \in Pods \ {p} : Votes(q) < Votes(p)
BouncePod == IF \E p \in Pods : Top(p) THEN CHOOSE p \in Pods : Top(p) ELSE None

-----------------------------------------------------------------------------
(* The log: no entry, one that cools down, or one older than                *)
(* REMEDIATE_COOLDOWN.                                                       *)

Entries == {None, "fresh", "old"}
Stages == {"raise", "bounce", "log"}
Busy == task["raise"] + task["bounce"] + task["log"]

\* What a read holds: the entry it has seen, by its age now, the rows, and, once it has
\* taken the override away, whether no task has ended since.
Idle == [pc |-> "idle", last |-> None, rows |-> None, alone |-> FALSE]
At(pc) == [Idle EXCEPT !.pc = pc]

\* claim_remediation decides on the log as it is now, ...
Claims(wants) == wants /\ log # "fresh"

\* ... and leaves a placeholder, under the same guard; the task is spawned.
Arm(r, pc) ==
  /\ log' = "fresh" /\ lost' = FALSE
  /\ Busy < MaxTasks
  /\ task' = [task EXCEPT !["raise"] = @ + 1]
  /\ read' = [read EXCEPT ![r] = At(pc)]

-----------------------------------------------------------------------------
(* A read of the status: status_from.                                        *)

Step(r, pc) == read' = [read EXCEPT ![r] = At(pc)]

\* Mutant: an owed hand-back does not keep the deployment on the slow path.
PlainlyStableWhateverIsOwed(f) == NodesSettled(f)

\* plainly_stable, with the probe of throttle_still_raised.
PlainlyStable(f) == NodesSettled(f) /\ log = None

\* Mutant: the wave is watched in a stalled deployment only.
WatchesIfStalled(f) == Stalled(f) \/ log # None

\* restart_wave_watch looks on while the wave walks or a hand-back is owed.
Watches(f) == RestartWave(f) \/ log # None

\* The fast path writes nothing: a read that takes it is not told from none.
Begin(r) ==
  /\ read[r].pc = "idle" /\ ~PlainlyStable(facts)
  /\ IF Watches(facts)
     THEN read' = [read EXCEPT ![r] = [At("decide") EXCEPT !.last = log, !.rows = Rows]]
     ELSE Stalled(facts) /\ Step(r, "diagnose")
  /\ UNCHANGED <<facts, recs, raised, log, task, lost, troubles>>

\* cat_recovery_rows gets no answer.
Dark(r) ==
  /\ read[r].pc = "decide" /\ Trouble
  /\ Step(r, "diagnose")
  /\ UNCHANGED <<facts, recs, raised, log, task, lost>>

\* should_hand_back_throttle, for the entry that was there when the read began.
HandsBack(m) == m.last # None /\ (m.rows = "settled" \/ m.last = "old")

\* restart_wave_should_remediate, on the log as it is now; a read that arms does not
\* hand back.
Decide(r) ==
  /\ read[r].pc = "decide"
  /\ IF Claims(read[r].rows = "wedged")
     THEN Arm(r, "diagnose")
     ELSE /\ Step(r, IF HandsBack(read[r]) THEN "restore" ELSE "diagnose")
          /\ UNCHANGED <<log, task, lost>>
  /\ UNCHANGED <<facts, recs, raised, troubles>>

\* restore_throttle takes the override away ...
Restore(r) ==
  /\ read[r].pc = "restore"
  /\ raised' = FALSE /\ lost' = FALSE
  /\ read' = [read EXCEPT ![r] = [At("forget") EXCEPT !.alone = TRUE]]
  /\ UNCHANGED <<facts, recs, log, task, troubles>>

\* Mutant: the entry goes whatever the cluster answered.
RestoreFailsAndForgets(r) ==
  /\ read[r].pc = "restore" /\ Trouble
  /\ raised' \in {raised, FALSE} /\ lost' = (lost /\ raised')
  /\ read' = [read EXCEPT ![r] = [At("forget") EXCEPT !.alone = TRUE]]
  /\ UNCHANGED <<facts, recs, log, task>>

\* ... or fails, or its answer is lost, and the entry stays.
RestoreFails(r) ==
  /\ read[r].pc = "restore" /\ Trouble
  /\ raised' \in {raised, FALSE} /\ lost' = (lost /\ raised')
  /\ Step(r, "diagnose")
  /\ UNCHANGED <<facts, recs, log, task>>

\* The entry is removed by its key, whichever it is by now.
Forget(r) ==
  /\ read[r].pc = "forget"
  /\ log' = None
  /\ Step(r, "diagnose")
  /\ lost' = (raised /\ (lost \/ ~(read[r].alone \/ Busy > 0)))
  /\ UNCHANGED <<facts, recs, raised, task, troubles>>

\* A deployment that reads as stalled is diagnosed, and should_remediate asked:
\* stall_diagnosis_in.
Diagnose(r) ==
  /\ read[r].pc = "diagnose"
  /\ IF Claims(Stalled(facts) /\ Held)
     THEN Arm(r, "idle")
     ELSE Step(r, "idle") /\ UNCHANGED <<log, task, lost>>
  /\ UNCHANGED <<facts, recs, raised, troubles>>

\* It was diagnosed a moment ago, or the cluster does not answer.
NoDiagnosis(r) ==
  /\ read[r].pc = "diagnose"
  /\ Step(r, "idle")
  /\ UNCHANGED <<facts, recs, raised, log, task, lost, troubles>>

-----------------------------------------------------------------------------
(* The task: remediate_wedged_recovery, and the entry it ends with.          *)

Move(from, to) ==
  task[from] > 0 /\ task' = [task EXCEPT ![from] = @ - 1, ![to] = @ + 1]

Raise ==
  /\ Move("raise", "bounce")
  /\ raised' = TRUE
  /\ UNCHANGED <<facts, recs, log, read, lost, troubles>>

\* The task goes on without its raise.
RaiseFails ==
  /\ Move("raise", "bounce") /\ Trouble
  /\ raised' \in {raised, TRUE}
  /\ UNCHANGED <<facts, recs, log, read, lost>>

\* The source is asked of the whole cluster, now, and deleted; nobody is bounced on
\* a tie or on no wedge.  A fresh JVM: the sessions of the pod are gone, and so are
\* the recoveries.
Bounce ==
  /\ Move("bounce", "log")
  /\ recs' = [r \in Recs |-> IF Source[r] = BouncePod THEN "fine" ELSE recs[r]]
  /\ UNCHANGED <<facts, raised, log, read, lost, troubles>>

\* Nor when a query fails, when the winner is no pod of this deployment, or when
\* the deletion fails.
BounceFails ==
  /\ Move("bounce", "log") /\ Trouble
  /\ UNCHANGED <<facts, recs, raised, log, read, lost>>

\* Whatever came of it, the entry is written again, and dated now.
Finish ==
  /\ task["log"] > 0
  /\ log' = "fresh" /\ lost' = FALSE
  /\ task' = [task EXCEPT !["log"] = @ - 1]
  /\ read' = [r \in Reads |-> [read[r] EXCEPT !.alone = FALSE]]
  /\ UNCHANGED <<facts, recs, raised, troubles>>

-----------------------------------------------------------------------------
(* Time, the cluster, and restarts.                                          *)

\* REMEDIATE_COOLDOWN passes, and a task is over by then; an entry that a read has seen
\* is at least as old.
CooldownEnds ==
  /\ Busy = 0 /\ log = "fresh"
  /\ log' = "old"
  /\ read' = [r \in Reads |-> [read[r] EXCEPT !.last = IF @ = None THEN None ELSE "old"]]
  /\ UNCHANGED <<facts, recs, raised, task, lost, troubles>>

FactsChange ==
  /\ facts' \in Situations \ {facts}
  /\ UNCHANGED <<recs, raised, log, read, task, lost, troubles>>

\* A recovery may stay in any state for ever.
Recovers(r) ==
  /\ \E to \in States \ {recs[r]} :
       /\ to = "wedged" => recs[r] = "init"
       /\ to = "init" => recs[r] = "fine"
       /\ recs' = [recs EXCEPT ![r] = to]
  /\ UNCHANGED <<facts, raised, log, read, task, lost, troubles>>

\* The log is in memory; the throttle is not.
Restart ==
  /\ Trouble
  /\ log' = None
  /\ read' = [r \in Reads |-> Idle] /\ task' = [p \in Stages |-> 0]
  /\ lost' = raised
  /\ UNCHANGED <<facts, recs, raised>>

-----------------------------------------------------------------------------
Init ==
  /\ facts \in Situations
  /\ recs = [r \in Recs |-> "fine"] /\ raised = FALSE /\ log = None
  /\ read = [r \in Reads |-> Idle] /\ task = [p \in Stages |-> 0]
  /\ lost = FALSE /\ troubles = 0

Reading(r) ==
  Begin(r) \/ Decide(r) \/ Restore(r) \/ Forget(r) \/ Diagnose(r)

Next ==
  \/ \E r \in Reads : Reading(r) \/ Dark(r) \/ RestoreFails(r) \/ NoDiagnosis(r)
  \/ Raise \/ Bounce \/ Finish \/ RaiseFails \/ BounceFails
  \/ CooldownEnds \/ FactsChange \/ Restart
  \/ \E r \in Recs : Recovers(r)

\* The sampler reads the status on every tick, spawned tasks run on, time passes.
Fairness ==
  /\ \A r \in Reads : WF_vars(Reading(r))
  /\ WF_vars(Raise) /\ WF_vars(Bounce) /\ WF_vars(Finish)
  /\ WF_vars(CooldownEnds)

Spec == Init /\ [][Next]_vars /\ Fairness
-----------------------------------------------------------------------------
(* Properties.                                                               *)

TypeOK ==
  /\ facts \in Situations /\ recs \in [Recs -> States]
  /\ raised \in BOOLEAN /\ log \in Entries
  /\ read \in [Reads -> [pc : {"idle", "decide", "restore", "forget", "diagnose"},
                         last : Entries,
                         rows : {None, "wedged", "unsettled", "settled"}, alone : BOOLEAN]]
  /\ task \in [Stages -> 0 .. MaxTasks] /\ Busy <= MaxTasks
  /\ lost \in BOOLEAN /\ troubles \in 0 .. MaxTrouble

\* A raised throttle has an entry, or a task that will write one, although a read may hand
\* back for an entry that is long another and remove that one by its key: the restore is
\* never forgotten, only delayed, but for a restart, and for a task that raised and ended
\* between the restore and the removal; and then until the log is written again.
RaiseIsTracked == raised => log # None \/ Busy > 0 \/ lost

\* A raise does not outlive its reason: the throttle is handed back, though the
\* deployment has long settled, unless some recovery still asks for a remedy.
RaiseIsHandedBack == raised ~> (~raised \/ Held \/ lost)

\* A wedge with one source, in a restart wave, does not last, whatever the age of
\* the node pods says about a stall, and whichever calls of a remedy failed.
Wedged == RestartWave(facts) /\ (\E r \in Recs : recs[r] = "wedged") /\ BouncePod # None
NoWedgeForLong == []<>~Wedged
=============================================================================
