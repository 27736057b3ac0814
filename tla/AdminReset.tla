----------------------------- MODULE AdminReset -----------------------------
(***************************************************************************)
(* The admin-password reset of one deployment: src/src/admin_reset.rs and  *)
(* the reset section of src/src/k8s.rs.                                    *)
(*                                                                         *)
(* A reset request writes the new password into the credentials Secret,    *)
(* keeps the one it replaced beside it, and nudges the operator with an    *)
(* annotation that also marks the reset pending.  The operator copies the  *)
(* password to the Secret the node probes use and runs a one-shot Job that *)
(* pushes its hash to the cluster.  Every status read of a deployment that *)
(* carries the marker is a reader of the backstop: it looks at the newest  *)
(* pod of that Job and forgets, restores or stalls.  Nothing serialises    *)
(* requests with each other or with the readers, so each await of theirs   *)
(* is an action here.                                                      *)
(***************************************************************************)
EXTENDS Integers

CONSTANTS
  Requests,     \* the reset requests; a request stands for the password it sets
  Readers,      \* the status reads that run the backstop (sampler, SSE, handlers)
  Orig,         \* the password the deployment was created with
  None,         \* "absent"
  Skew,         \* CLOCK_SKEW_SECS
  Window,       \* WINDOW_SECS
  MaxRestores,  \* MAX_RESTORES
  MaxNow,       \* bound: the last instant of the clock
  MaxFaults     \* bound: API calls that fail and backend restarts

Passwords == Requests \cup {Orig}

ASSUME ResetAssumption ==
  /\ Skew \in Nat /\ Window \in Nat /\ MaxRestores \in Nat \ {0}
  /\ MaxNow \in Nat /\ MaxFaults \in Nat
  /\ Orig \notin Requests /\ None \notin Passwords

VARIABLES
  now,       \* epoch seconds, coarse
  faults,    \* faults so far
  password,  \* credentials Secret: the current password
  kept,      \* credentials Secret: previous-password, or None
  rested,    \* (history) each reset so far wrote to a deployment at rest
  pending,   \* CR annotation security-reset-pending: a marker, or None
  probe,     \* the password in the Secret the node probes use
  hash,      \* the password whose hash the cluster has
  job,       \* the securityconfig Job: its password, and whether its pod exists
  pods,      \* the pods of that Job and of its predecessors
  req,       \* the requests: where each is, and what it has read
  rd         \* the readers: where each is, and what it has read

secret   == <<password, kept, rested>>
operator == <<probe, hash, job, pods>>
vars     == <<now, faults, secret, pending, operator, req, rd>>

-----------------------------------------------------------------------------
(* Markers, runs, and the pure rules of admin_reset.rs.                      *)

\* Stage: the reset, its nth restore, or stalled.
Reset   == 0
Stalled == MaxRestores + 1

Mark(t, stage) == [since |-> t, stage |-> stage]
Marks == [since : Int, stage : Reset .. Stalled]

ASSUME NoneAssumption == None \notin Marks

Runs == [pw : Passwords, created : Int, phase : {"Running", "Succeeded", "Failed"}]

\* A restore's marker is dated past the failed run by more than the tolerance,
\* so that run cannot pass for the restore's own.
RestoreSince(t, created) ==
  IF t > created + Skew THEN t ELSE created + Skew + 1

\* Mutant: any run is a verdict, however old.
CountsAnyRun(p, run) == run # None

\* The run a marker may take as its verdict.
Counts(p, run) == run # None /\ run.created + Skew >= p.since

Does(what, next) == [do |-> what, next |-> next]

\* Mutant: a window with no verdict restores instead of forgetting.
BackstopRestoresLate(p, run, t) ==
  LET own == Counts(p, run)
  IN  CASE own /\ run.phase = "Succeeded" -> Does("forget", None)
        [] ~own \/ run.phase = "Running" ->
             IF t - p.since >= Window THEN Does("restore", Mark(t, 1))
                                      ELSE Does("wait", None)
        [] OTHER -> Does("forget", None)

\* What the backstop does about marker p, given the newest run and the time.
Backstop(p, run, t) ==
  LET phase == IF Counts(p, run) THEN run.phase ELSE "none"
  IN  CASE phase = "Succeeded" -> Does("forget", None)
        [] phase = "Failed" /\ p.stage < MaxRestores ->
             Does("restore", Mark(RestoreSince(t, run.created), p.stage + 1))
        [] phase = "Failed" /\ p.stage = MaxRestores ->
             Does("stall", Mark(t, Stalled))
        [] OTHER -> Does(IF t - p.since >= Window THEN "forget" ELSE "wait", None)

\* The newest pod of the Job; equal timestamps leave the choice open.
NewestRuns ==
  IF pods = {} THEN {None}
  ELSE {r \in pods : \A q \in pods : q.created <= r.created}

-----------------------------------------------------------------------------
(* Reset requests: reset_admin_password.                                     *)

IdleReq == [pc |-> "idle", pend |-> None, prev |-> None]
IdleRd  == [pc |-> "idle", pend |-> None, next |-> None, prev |-> None]

Answers == {"Applied", "NotApplied", "Partial", "Refused", "Error"}
InFlight(r) == req[r].pc \notin Answers \cup {"idle"}

OperatorQuiet ==
  /\ probe = password /\ hash = password
  /\ job = [pw |-> password, started |-> TRUE]
  /\ \A run \in pods : run.phase # "Running" /\ run.created + Skew < now

\* Nothing of another reset is left.
Free(r) ==
  /\ pending = None /\ kept = None /\ OperatorQuiet
  /\ \A q \in Requests : req[q].pc \notin {"written", "rollback"}
  /\ \A b \in Readers : rd[b].pc = "idle"

\* ... and what r has read of the Secret is still so.  The gate asks for part of this,
\* awaits before the write; a write that finds it otherwise is recorded in rested, and
\* the properties speak of the resets before it.
AtRest(r) == Free(r) /\ password = req[r].prev

\* Deployment exists; its marker is read off the CR.
ReadCr(r) ==
  /\ req[r].pc = "idle"
  /\ req' = [req EXCEPT ![r].pc = "read", ![r].pend = pending]
  /\ UNCHANGED <<now, faults, secret, pending, operator, rd>>

\* is_settled, then the gate.  A deployment can only read settled while its
\* nodes pass their probes; it may read unsettled for any other reason.
Gate(r) ==
  /\ req[r].pc = "read"
  /\ \/ /\ req[r].pend = None /\ probe = hash
        /\ req' = [req EXCEPT ![r].pc = "gated"]
     \/ req' = [req EXCEPT ![r] = [IdleReq EXCEPT !.pc = "Refused"]]
  /\ UNCHANGED <<now, faults, secret, pending, operator, rd>>

ReadPrevious(r) ==
  /\ req[r].pc = "gated"
  /\ req' = [req EXCEPT ![r].pc = "previous", ![r].prev = password]
  /\ UNCHANGED <<now, faults, secret, pending, operator, rd>>

\* Mutant: the password kept is read after the write.
WriteSecretKeepsNew(r) ==
  /\ req[r].pc = "previous"
  /\ password' = r /\ kept' = r /\ rested' = (rested /\ AtRest(r))
  /\ req' = [req EXCEPT ![r].pc = "written"]
  /\ UNCHANGED <<now, faults, pending, operator, rd>>

\* start_patch: the new password, and the one read kept beside it.
Lands(r) ==
  /\ req[r].pc = "previous"
  /\ password' = r /\ kept' = req[r].prev
  /\ rested' = (rested /\ AtRest(r))

WriteSecret(r) ==
  /\ Lands(r)
  /\ req' = [req EXCEPT ![r].pc = "written"]
  /\ UNCHANGED <<now, faults, pending, operator, rd>>

Answer(r, a) == req' = [req EXCEPT ![r] = [IdleReq EXCEPT !.pc = a]]

\* One apply writes the nudge and the marker.
Nudge(r) ==
  /\ req[r].pc = "written"
  /\ pending' = Mark(now, Reset)
  /\ Answer(r, "Applied")
  /\ UNCHANGED <<now, faults, secret, operator, rd>>

\* The apply errs; the annotations may have landed all the same.
NudgeFails(r) ==
  /\ req[r].pc = "written" /\ faults < MaxFaults
  /\ faults' = faults + 1
  /\ \/ pending' = Mark(now, Reset)
     \/ UNCHANGED pending
  /\ req' = [req EXCEPT ![r].pc = "rollback"]
  /\ UNCHANGED <<now, secret, operator, rd>>

\* restore_patch with drop_kept.
Rollback(r) ==
  /\ req[r].pc = "rollback"
  /\ password' = req[r].prev /\ kept' = None
  /\ Answer(r, "NotApplied")
  /\ UNCHANGED <<now, faults, rested, pending, operator, rd>>

\* The outage that failed the nudge outlasts it.
RollbackFails(r) ==
  /\ req[r].pc = "rollback"
  /\ Answer(r, "Partial")
  /\ UNCHANGED <<now, faults, secret, pending, operator, rd>>

\* A call up to the Secret write errs; the write may have landed all the same.
RequestFails(r) ==
  /\ req[r].pc \in {"read", "gated", "previous"} /\ faults < MaxFaults
  /\ faults' = faults + 1
  /\ Answer(r, "Error")
  /\ Lands(r) \/ UNCHANGED secret
  /\ UNCHANGED <<now, pending, operator, rd>>

-----------------------------------------------------------------------------
(* The backstop: reset_backstop_in, run by status_from.                      *)

\* The reader holds the CR it listed, and the marker on it.
Observe(b) ==
  /\ rd[b].pc = "idle" /\ pending # None
  /\ rd' = [rd EXCEPT ![b].pc = "observed", ![b].pend = pending]
  /\ UNCHANGED <<now, faults, secret, pending, operator, req>>

Goto(b, pc, next) ==
  rd' = [rd EXCEPT ![b] = [IdleRd EXCEPT !.pc = pc, !.next = next]]

\* The newest run is read, and the rule decides.
Decide(b) ==
  /\ rd[b].pc = "observed"
  /\ \E run \in NewestRuns :
       LET step == Backstop(rd[b].pend, run, now)
       IN  Goto(b, IF step.do = "wait" THEN "idle" ELSE step.do, step.next)
  /\ UNCHANGED <<now, faults, secret, pending, operator, req>>

\* Forgetting and stalling restate the nudge, so they read it first: one more
\* await before the write.
ReadNudge(b) ==
  /\ rd[b].pc \in {"forget", "stall"}
  /\ rd' = [rd EXCEPT ![b].pc = IF @ = "forget" THEN "unmark" ELSE "markstalled"]
  /\ UNCHANGED <<now, faults, secret, pending, operator, req>>

\* forget_reset_in: the marker goes first, ...
Unmark(b) ==
  /\ rd[b].pc = "unmark"
  /\ pending' = None
  /\ Goto(b, "drop", None)
  /\ UNCHANGED <<now, faults, secret, operator, req>>

\* ... then the kept password.
DropKept(b) ==
  /\ rd[b].pc = "drop"
  /\ kept' = None
  /\ Goto(b, "idle", None)
  /\ UNCHANGED <<now, faults, password, rested, pending, operator, req>>

\* restore_reset_in: with nothing kept, forgetting is all that is left.
ReadKept(b) ==
  /\ rd[b].pc = "restore"
  /\ IF kept = None
     THEN Goto(b, "forget", None)
     ELSE rd' = [rd EXCEPT ![b].pc = "putback", ![b].prev = kept]
  /\ UNCHANGED <<now, faults, secret, pending, operator, req>>

\* restore_patch without drop_kept; a retry deletes the failed Job next.
PutBack(b) ==
  /\ rd[b].pc = "putback"
  /\ password' = rd[b].prev
  /\ rd' = [rd EXCEPT ![b].pc = IF rd[b].next.stage > 1 THEN "deljob" ELSE "remark"]
  /\ UNCHANGED <<now, faults, kept, rested, pending, operator, req>>

\* Background propagation: the Job's pods outlive it.
DeleteJob(b) ==
  /\ rd[b].pc = "deljob"
  /\ job' = [pw |-> None, started |-> TRUE]
  /\ rd' = [rd EXCEPT ![b].pc = "remark"]
  /\ UNCHANGED <<now, faults, secret, pending, probe, hash, pods, req>>

\* The Role may lack the grant: there is no way to retry, so stall.
DeleteJobRefused(b) ==
  /\ rd[b].pc = "deljob" /\ faults < MaxFaults
  /\ faults' = faults + 1
  /\ Goto(b, "stall", Mark(now, Stalled))
  /\ UNCHANGED <<now, secret, pending, operator, req>>

\* The restore's nudge carries its own marker.
Remark(b) ==
  /\ rd[b].pc = "remark"
  /\ pending' = rd[b].next
  /\ Goto(b, "idle", None)
  /\ UNCHANGED <<now, faults, secret, operator, req>>

MarkStalled(b) ==
  /\ rd[b].pc = "markstalled"
  /\ pending' = rd[b].next
  /\ Goto(b, "idle", None)
  /\ UNCHANGED <<now, faults, secret, operator, req>>

\* Any call of a pass errs: the pass ends where it is, and the next status
\* read starts over.
ReaderFails(b) ==
  /\ rd[b].pc # "idle" /\ faults < MaxFaults
  /\ faults' = faults + 1
  /\ Goto(b, "idle", None)
  /\ UNCHANGED <<now, secret, pending, operator, req>>

-----------------------------------------------------------------------------
(* The operator, its Job, the clock and the backend process.                 *)

\* One reconcile copies the password to the probes and replaces a Job whose
\* content differs.  It runs on a nudge and on the operator's own resync, so the
\* nudge itself is not a variable: at most it makes this step sooner.
OperatorReconcile ==
  /\ probe' = password
  /\ job' = IF job.pw = password THEN job
                                 ELSE [pw |-> password, started |-> FALSE]
  /\ UNCHANGED <<now, faults, secret, pending, hash, pods, req, rd>>

JobStarts ==
  /\ ~job.started
  /\ job' = [job EXCEPT !.started = TRUE]
  /\ pods' = pods \cup {[pw |-> job.pw, created |-> now, phase |-> "Running"]}
  /\ UNCHANGED <<now, faults, secret, pending, probe, hash, req, rd>>

\* The pod pushes the hash, or exhausts its attempts; BackoffLimit is 0.
JobEnds ==
  \E run \in pods :
    /\ run.phase = "Running"
    /\ \/ /\ hash' = run.pw
          /\ pods' = (pods \ {run}) \cup {[run EXCEPT !.phase = "Succeeded"]}
       \/ /\ pods' = (pods \ {run}) \cup {[run EXCEPT !.phase = "Failed"]}
          /\ UNCHANGED hash
    /\ UNCHANGED <<now, faults, secret, pending, probe, job, req, rd>>

\* A pod of a Job that is gone is collected.
PodCollected ==
  \E run \in pods :
    /\ ~( /\ job.started /\ run.pw = job.pw
          /\ \A q \in pods : q.pw = job.pw => q.created <= run.created )
    /\ pods' = pods \ {run}
    /\ UNCHANGED <<now, faults, secret, pending, probe, hash, job, req, rd>>

Tick ==
  /\ now < MaxNow
  /\ now' = now + 1
  /\ UNCHANGED <<faults, secret, pending, operator, req, rd>>

\* The backend restarts: requests and readers are gone where they stood.
Crash ==
  /\ faults < MaxFaults
  /\ faults' = faults + 1
  /\ req' = [r \in Requests |->
               IF InFlight(r) THEN [IdleReq EXCEPT !.pc = "Error"] ELSE req[r]]
  /\ rd' = [b \in Readers |-> IdleRd]
  /\ UNCHANGED <<now, secret, pending, operator>>

Init ==
  /\ now = Skew + 1 /\ faults = 0
  /\ password = Orig /\ kept = None /\ rested = TRUE
  /\ pending = None
  /\ probe = Orig /\ hash = Orig
  /\ job = [pw |-> Orig, started |-> TRUE]
  /\ pods = {[pw |-> Orig, created |-> 0, phase |-> "Succeeded"]}
  /\ req = [r \in Requests |-> IdleReq]
  /\ rd = [b \in Readers |-> IdleRd]

RequestStep(r) ==
  \/ ReadCr(r) \/ Gate(r) \/ ReadPrevious(r) \/ WriteSecret(r)
  \/ Nudge(r) \/ NudgeFails(r) \/ Rollback(r) \/ RollbackFails(r) \/ RequestFails(r)

ReaderStep(b) ==
  \/ Observe(b) \/ Decide(b) \/ ReadNudge(b) \/ Unmark(b) \/ DropKept(b)
  \/ ReadKept(b) \/ PutBack(b) \/ DeleteJob(b) \/ DeleteJobRefused(b)
  \/ Remark(b) \/ MarkStalled(b) \/ ReaderFails(b)

Environment == OperatorReconcile \/ JobStarts \/ JobEnds \/ PodCollected \/ Tick \/ Crash

Next ==
  \/ \E r \in Requests : RequestStep(r)
  \/ \E b \in Readers : ReaderStep(b)
  \/ Environment

Spec == Init /\ [][Next]_vars
-----------------------------------------------------------------------------
(* Properties.                                                               *)

ReqStates == {"idle", "read", "gated", "previous", "written", "rollback"} \cup Answers
RdStates == {"idle", "observed", "forget", "unmark", "drop", "restore", "putback",
             "deljob", "remark", "stall", "markstalled"}

\* The types of what the Secret, the CR, the operator and the processes hold.
TypeOK ==
  /\ now \in Int /\ faults \in Nat
  /\ password \in Passwords /\ kept \in Passwords \cup {None} /\ rested \in BOOLEAN
  /\ pending \in Marks \cup {None}
  /\ probe \in Passwords /\ hash \in Passwords
  /\ job \in [pw : Passwords \cup {None}, started : BOOLEAN]
  /\ pods \subseteq Runs
  /\ req \in [Requests -> [pc : ReqStates, pend : Marks \cup {None},
                           prev : Passwords \cup {None}]]
  /\ rd \in [Readers -> [pc : RdStates, pend : Marks \cup {None},
                         next : Marks \cup {None}, prev : Passwords \cup {None}]]

\* While a reset is unconfirmed and its previous password is kept, the Secret
\* still holds the password the cluster has: as the current one or as the way
\* back (admin_reset.rs: "without the old value there is no way back").
WayBack ==
  rested /\ pending # None /\ kept # None => hash \in {password, kept}

\* The marker of a reset that keeps a way back is only removed once the
\* cluster has the Secret's password, or its window has passed (ADR-064:
\* "Succeeded, at any stage: forget. This is the only point where
\* previous-password is dropped, apart from the one-hour bound").
ForgetOnlyWhenDone ==
  [][ rested /\ pending # None /\ kept # None /\ pending' = None =>
        hash = password \/ now - pending.since >= Window ]_vars

\* The backstop never takes back a password the cluster has accepted.
RestoreNeverUndoes ==
  [][ rested /\ (\E b \in Readers : PutBack(b)) /\ password' # password =>
        hash # password ]_vars
=============================================================================
