------------------------------- MODULE MCPasses -------------------------------
(***************************************************************************)
(* What the passes of the sampler and of the status reads look after: the  *)
(* reset of the admin password, with its backstop, the health series, and  *)
(* wedged recoveries.  The modules share no state, so an initial state     *)
(* picks one of them, and only that one moves.                             *)
(***************************************************************************)
EXTENDS AdminReset, FiniteSets, TLC

CONSTANTS MaxTrouble, Cap, Width, MaxAge, MaxTicks, MaxDone, MaxLosses, MaxTasks, Recs,
          Pods, Source, Situations, RemTrouble

VARIABLES
  part,  \* the component of this behaviour
  metNow, done, count, silent, build, policy, template, index, series, metPc, sample, gather,
  amiss, losses, troubles,
  facts, recs, raised, log, read, task, lost, remTroubles

\* Two recoveries of different sources: a tie, or one winner.
TwoSources == "r1" :> "p1" @@ "r2" :> "p2"

Steady  == [green |-> TRUE, updated |-> TRUE, wave |-> FALSE, still |-> TRUE]
Rolling == [green |-> FALSE, updated |-> FALSE, wave |-> TRUE, still |-> FALSE]
Stuck   == [green |-> FALSE, updated |-> TRUE, wave |-> FALSE, still |-> TRUE]
Three   == {Steady, Rolling, Stuck}

M == INSTANCE Metrics WITH
       Nodes <- Readers, MaxNow <- MaxTicks, now <- metNow, pc <- metPc
D == INSTANCE Remediation WITH
       Reads <- Readers, MaxTrouble <- RemTrouble, troubles <- remTroubles

ASSUME RaiseAssumption == D!RemediationAssumption

metVars == <<metNow, done, count, silent, build, policy, template, index, series, metPc, sample,
             gather, amiss, losses, troubles>>
remVars == <<facts, recs, raised, log, read, task, lost, remTroubles>>
allVars == <<part, vars, metVars, remVars>>

-----------------------------------------------------------------------------
(* A component that is not the one of this behaviour stays where it starts, or   *)
(* has no state.                                                                 *)

AllInit ==
  /\ part \in {"reset", "metrics", "remediation"}
  /\ Init
  /\ IF part = "metrics" THEN M!Init
     ELSE metNow = None /\ done = None /\ count = None /\ silent = None /\ build = None /\
          policy = None /\ template = None /\ index = None /\ series = None /\
          metPc = None /\ sample = None /\ gather = None /\ amiss = None /\
          losses = None /\ troubles = None
  /\ IF part = "remediation" THEN D!Init
     ELSE facts = None /\ recs = None /\ raised = None /\ log = None /\ read = None /\
          task = None /\ lost = None /\ remTroubles = None

Res(step) ==
  /\ part = "reset" /\ step
  /\ UNCHANGED <<part, metVars, remVars>>
Met(step) ==
  /\ part = "metrics" /\ step
  /\ UNCHANGED <<part, vars, remVars>>
Rem(step) ==
  /\ part = "remediation" /\ step
  /\ UNCHANGED <<part, vars, metVars>>

ResNext ==
  \/ \E r \in Requests :
       \/ Res(ReadCr(r)) \/ Res(Gate(r)) \/ Res(ReadPrevious(r)) \/
          Res(WriteSecret(r)) \/ Res(Nudge(r)) \/ Res(NudgeFails(r)) \/
          Res(Rollback(r)) \/ Res(RollbackFails(r)) \/ Res(RequestFails(r))
  \/ \E b \in Readers :
       \/ Res(Observe(b)) \/ Res(Decide(b)) \/ Res(ReadNudge(b)) \/ Res(Unmark(b)) \/
          Res(DropKept(b)) \/ Res(ReadKept(b)) \/ Res(PutBack(b)) \/
          Res(DeleteJob(b)) \/ Res(DeleteJobRefused(b)) \/ Res(Remark(b)) \/
          Res(MarkStalled(b)) \/ Res(ReaderFails(b))
  \/ Res(OperatorReconcile) \/ Res(JobStarts) \/ Res(JobEnds) \/ Res(PodCollected) \/
     Res(Tick) \/ Res(Crash)

MetNext ==
  \/ Met(M!EnsureIndex) \/ Met(M!EnsureFails) \/ Met(M!CollectSample) \/
     Met(M!RecordSample) \/ Met(M!PassEnds) \/ Met(M!ReadStats) \/ Met(M!ReadNewest) \/
     Met(M!Date) \/ Met(M!Expire) \/ Met(M!Release) \/ Met(M!Tick)
  \/ \E n \in Readers :
       \/ Met(M!Operate(n)) \/ Met(M!Leave(n)) \/ Met(M!Return(n)) \/
          Met(M!FallSilent(n)) \/ Met(M!AnswerAgain(n))

RemNext ==
  \/ \E b \in Readers :
       \/ Rem(D!Begin(b)) \/ Rem(D!Decide(b)) \/ Rem(D!Restore(b)) \/ Rem(D!Forget(b)) \/
          Rem(D!Diagnose(b)) \/ Rem(D!Dark(b)) \/ Rem(D!RestoreFails(b)) \/
          Rem(D!NoDiagnosis(b))
  \/ Rem(D!Raise) \/ Rem(D!Bounce) \/ Rem(D!Finish) \/ Rem(D!RaiseFails) \/
     Rem(D!BounceFails) \/ Rem(D!CooldownEnds) \/ Rem(D!FactsChange) \/ Rem(D!Restart)
  \/ \E r \in Recs : Rem(D!Recovers(r))

AllNext == ResNext \/ MetNext \/ RemNext
AllSpec == AllInit /\ [][AllNext]_allVars

-----------------------------------------------------------------------------
(* The properties of the components: see their modules.                          *)

\* No chart and no profile shows work that was not done (counter_rate,
\* recorded_counters, now_of).
RatesAreReal == part = "metrics" => M!RatesAreReal

\* The series is bounded by the policy, but for a best-effort call that failed
\* (ensure_metrics_index).
SeriesEnds == part = "metrics" => M!SeriesEnds

\* A raised throttle has an entry, or a task that will write one (k8s.rs: a restore "can
\* never be forgotten, only delayed"), but for a restart, and for a task that raised and
\* ended between a restore and the removal of its entry.
RaiseIsTracked == part = "remediation" => D!RaiseIsTracked

\* Not looked at: what follows a reset that wrote to a deployment not at rest, of which
\* nothing is claimed; requests that wait for another: what they read is stale by then, or
\* as if they had come later; old pods beside the newest but one; and a node lost and a
\* call failed in one behaviour.
Explored ==
  /\ rested /\ \A r \in Requests : req[r].pc \in {"read", "gated", "previous"} => Free(r)
  /\ Cardinality(pods) <= 2
  /\ part = "metrics" => losses + troubles <= 1

Symmetry == Permutations(Requests) \cup Permutations(Readers)
=============================================================================
