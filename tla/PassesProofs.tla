--------------------------- MODULE PassesProofs ---------------------------
(***************************************************************************)
(* What is proved of AdminReset for any requests, readers, window,         *)
(* tolerance and number of restores. Whenever resets start: type           *)
(* correctness, and that a restore never takes the run that failed before  *)
(* it for its own. Where a reset starts only once nothing of the last one  *)
(* is left: that there is a way back, that the marker goes only when the   *)
(* reset is done or out of time, and that a restore undoes nothing.  Of    *)
(* the other parts of MCPasses: that the health series has an end, and     *)
(* that a raised recovery throttle is not forgotten.                       *)
(***************************************************************************)
EXTENDS MCPasses, Sequences, TLAPS

ReqType == [pc : ReqStates, pend : Marks \cup {None}, prev : Passwords \cup {None}]
RdType == [pc : RdStates, pend : Marks \cup {None}, next : Marks \cup {None},
           prev : Passwords \cup {None}]

\* The clock, the Secret, the CR and the operator.  A Job without a password has
\* been deleted, and has nothing to start.
ClusterInv ==
  /\ now \in Int /\ faults \in Nat
  /\ password \in Passwords /\ kept \in Passwords \cup {None} /\ rested \in BOOLEAN
  /\ pending \in Marks \cup {None}
  /\ probe \in Passwords /\ hash \in Passwords
  /\ job \in [pw : Passwords \cup {None}, started : BOOLEAN]
  /\ job.pw = None => job.started
  /\ pods \subseteq Runs

\* A request past its reading holds a password, ...
ReqOne(q) ==
  /\ q \in ReqType
  /\ q.pc \in {"previous", "written", "rollback"} => q.prev \in Passwords

\* ... a reader past its decision the marker it is to write, and one about to put a
\* password back has it.
RdOne(q) ==
  /\ q \in RdType
  /\ q.pc = "observed" => q.pend \in Marks
  /\ q.pc \in {"restore", "putback", "deljob", "remark", "stall", "markstalled"} =>
       q.next \in Marks
  /\ q.pc = "putback" => q.prev \in Passwords

ReqInv == req = [r \in Requests |-> req[r]] /\ \A r \in Requests : ReqOne(req[r])
RdInv  == rd = [b \in Readers |-> rd[b]] /\ \A b \in Readers : RdOne(rd[b])
IInv == ClusterInv /\ ReqInv /\ RdInv

LEMMA IInvTypes == IInv => TypeOK
  BY DEF IInv, ClusterInv, ReqInv, RdInv, ReqOne, RdOne, ReqType, RdType, TypeOK

-----------------------------------------------------------------------------
(* The rules of admin_reset.rs.                                              *)

LEMMA MarkTypes ==
  ASSUME NEW t \in Int, NEW n \in Reset .. Stalled
  PROVE  Mark(t, n) \in Marks /\ Mark(t, n).since = t
  BY DEF Mark, Marks

LEMMA RestoreSinceInt ==
  ASSUME NEW t \in Int, NEW c \in Int
  PROVE  RestoreSince(t, c) \in Int /\ RestoreSince(t, c) > c + Skew
  BY ResetAssumption DEF RestoreSince

\* Whatever the rule decides, what it would write is a marker.
LEMMA BackstopTypes ==
  ASSUME NEW p \in Marks, NEW run \in Runs \cup {None}, NEW t \in Int
  PROVE  /\ Backstop(p, run, t).do \in {"forget", "restore", "stall", "wait"}
         /\ Backstop(p, run, t).next \in Marks \cup {None}
         /\ Backstop(p, run, t).do \in {"restore", "stall"} => Backstop(p, run, t).next \in Marks
<1> USE ResetAssumption
<1>1. PICK phase : phase = IF Counts(p, run) THEN run.phase ELSE "none"
  OBVIOUS
<1>2. p.stage \in Reset .. Stalled
  BY DEF Marks
<1>3. CASE phase = "Succeeded"
  BY <1>1, <1>3 DEF Backstop, Does
<1>4. CASE phase = "Failed" /\ p.stage < MaxRestores
  <2>1. run \in Runs
    BY <1>1, <1>4 DEF Counts
  <2>2. RestoreSince(t, run.created) \in Int
    BY <2>1, RestoreSinceInt DEF Runs
  <2>3. p.stage + 1 \in Reset .. Stalled
    BY <1>2, <1>4 DEF Reset, Stalled
  <2>4. Mark(RestoreSince(t, run.created), p.stage + 1) \in Marks
    BY <2>2, <2>3, MarkTypes
  <2>5. Backstop(p, run, t) =
          Does("restore", Mark(RestoreSince(t, run.created), p.stage + 1))
    BY <1>1, <1>4 DEF Backstop
  <2>6. QED
    BY <2>4, <2>5 DEF Does
<1>5. CASE phase = "Failed" /\ p.stage = MaxRestores
  <2>1. Mark(t, Stalled) \in Marks
    BY MarkTypes DEF Reset, Stalled
  <2>2. Backstop(p, run, t) = Does("stall", Mark(t, Stalled))
    BY <1>1, <1>5 DEF Backstop
  <2>3. QED
    BY <2>1, <2>2 DEF Does
<1>6. CASE ~(phase = "Succeeded") /\ ~(phase = "Failed" /\ p.stage < MaxRestores)
           /\ ~(phase = "Failed" /\ p.stage = MaxRestores)
  <2>1. Backstop(p, run, t) = Does(IF t - p.since >= Window THEN "forget" ELSE "wait", None)
    BY <1>1, <1>6 DEF Backstop
  <2>2. QED
    BY <2>1 DEF Does
<1>7. QED
  BY <1>3, <1>4, <1>5, <1>6

\* The run whose failure a restore answers is never its verdict: the restore's
\* marker is dated past that run by more than the tolerance (admin_reset.rs,
\* restore_since), however the two clocks stand.
THEOREM RestoreIgnoresFailedRun ==
  ASSUME NEW p \in Marks, NEW run \in Runs, NEW t \in Int,
         Backstop(p, run, t).do = "restore"
  PROVE  ~Counts(Backstop(p, run, t).next, run)
<1> USE ResetAssumption
<1>1. PICK phase : phase = IF Counts(p, run) THEN run.phase ELSE "none"
  OBVIOUS
<1>2. phase = "Failed" /\ p.stage < MaxRestores
  BY <1>1 DEF Backstop, Does
<1>3. Backstop(p, run, t).next = Mark(RestoreSince(t, run.created), p.stage + 1)
  BY <1>1, <1>2 DEF Backstop, Does
<1>4. /\ Backstop(p, run, t).next.since = RestoreSince(t, run.created)
      /\ RestoreSince(t, run.created) \in Int
      /\ RestoreSince(t, run.created) > run.created + Skew
      /\ run.created \in Int
  BY <1>3, RestoreSinceInt DEF Mark, Runs
<1>5. QED
  BY <1>4 DEF Counts

-----------------------------------------------------------------------------
(* One process moves at a time.                                              *)

LEMMA ReqMoves ==
  ASSUME ReqInv, NEW r \in Requests, NEW q, req' = [req EXCEPT ![r] = q], ReqOne(q)
  PROVE  ReqInv'
<1>1. req' = [s \in Requests |-> req'[s]]
  BY DEF ReqInv
<1>2. ASSUME NEW s \in Requests PROVE ReqOne(req'[s])
  BY <1>2 DEF ReqInv
<1>3. QED
  BY <1>1, <1>2 DEF ReqInv, ReqOne

LEMMA RdMoves ==
  ASSUME RdInv, NEW b \in Readers, NEW q, rd' = [rd EXCEPT ![b] = q], RdOne(q)
  PROVE  RdInv'
<1>1. rd' = [s \in Readers |-> rd'[s]]
  BY DEF RdInv
<1>2. ASSUME NEW s \in Readers PROVE RdOne(rd'[s])
  BY <1>2 DEF RdInv
<1>3. QED
  BY <1>1, <1>2 DEF RdInv, RdOne

LEMMA ReqKept == ReqInv /\ UNCHANGED req => ReqInv'
  BY DEF ReqInv, ReqOne
LEMMA RdKept == RdInv /\ UNCHANGED rd => RdInv'
  BY DEF RdInv, RdOne

LEMMA Resting == RdOne(IdleRd) /\ \A a \in Answers \cup {"idle"} : ReqOne([IdleReq EXCEPT !.pc = a])
<1>1. RdOne(IdleRd)
  BY DEF IdleRd, RdOne, RdType, RdStates
<1>2. ASSUME NEW a \in Answers \cup {"idle"} PROVE ReqOne([IdleReq EXCEPT !.pc = a])
  BY DEF IdleReq, ReqOne, ReqType, ReqStates, Answers
<1>3. QED
  BY <1>1, <1>2

\* A pass that goes to a step with a marker to write.
LEMMA Goes ==
  ASSUME RdInv, NEW b \in Readers, NEW pc \in RdStates \ {"observed", "putback"},
         NEW n \in Marks \cup {None}, Goto(b, pc, n),
         pc \in {"restore", "deljob", "remark", "stall", "markstalled"} => n \in Marks
  PROVE  RdInv'
<1>1. PICK q : q = [IdleRd EXCEPT !.pc = pc, !.next = n]
  OBVIOUS
<1>2. RdOne(q)
  BY <1>1 DEF IdleRd, RdOne, RdType
<1>3. rd' = [rd EXCEPT ![b] = q]
  BY <1>1 DEF Goto
<1>4. QED
  BY <1>2, <1>3, RdMoves

\* A step that changes a pc alone.
LEMMA Steps ==
  ASSUME RdInv, NEW b \in Readers, NEW pc \in RdStates \ {"observed", "putback"},
         rd' = [rd EXCEPT ![b].pc = pc],
         pc \in {"restore", "deljob", "remark", "stall", "markstalled"} => rd[b].next \in Marks
  PROVE  RdInv'
<1>1. PICK q : q = [rd[b] EXCEPT !.pc = pc]
  OBVIOUS
<1>2. RdOne(q)
  BY <1>1 DEF RdInv, RdOne, RdType
<1>3. rd' = [rd EXCEPT ![b] = q]
  BY <1>1
<1>4. QED
  BY <1>2, <1>3, RdMoves

LEMMA InitIInv == Init => IInv
<1> SUFFICES ASSUME Init PROVE IInv
  OBVIOUS
<1> USE ResetAssumption
<1>1. ClusterInv
  BY DEF Init, ClusterInv, Passwords, Runs
<1>2. ReqInv
  BY Resting DEF Init, ReqInv, IdleReq
<1>3. RdInv
  BY Resting DEF Init, RdInv
<1>4. QED
  BY <1>1, <1>2, <1>3 DEF IInv

-----------------------------------------------------------------------------
LEMMA RequestIInv ==
  ASSUME IInv, NEW r \in Requests, RequestStep(r)
  PROVE  IInv'
<1> USE ResetAssumption
<1>0. /\ ClusterInv /\ ReqInv /\ RdInv
      /\ req[r] \in ReqType /\ ReqOne(req[r]) /\ r \in Passwords
  BY DEF IInv, ReqInv, ReqOne, Passwords
<1>1. UNCHANGED rd
  BY DEF RequestStep, ReadCr, Gate, ReadPrevious, WriteSecret, Nudge, NudgeFails, Rollback,
         RollbackFails, RequestFails
<1>2. RdInv'
  BY <1>0, <1>1, RdKept
<1>3. Mark(now, Reset) \in Marks
  BY <1>0, MarkTypes DEF ClusterInv, Reset, Stalled
\* The Secret and the CR.
<1>4. ClusterInv'
  <2>1. CASE ReadCr(r)
    BY <1>0, <2>1 DEF ReadCr, ClusterInv, secret, operator
  <2>2. CASE Gate(r)
    BY <1>0, <2>2 DEF Gate, ClusterInv, secret, operator
  <2>3. CASE ReadPrevious(r)
    BY <1>0, <2>3 DEF ReadPrevious, ClusterInv, secret, operator
  <2>4. CASE WriteSecret(r)
    BY <1>0, <2>4 DEF WriteSecret, Lands, ClusterInv, operator, ReqOne
  <2>5. CASE Nudge(r)
    BY <1>0, <1>3, <2>5 DEF Nudge, ClusterInv, secret, operator
  <2>6. CASE NudgeFails(r)
    BY <1>0, <1>3, <2>6 DEF NudgeFails, ClusterInv, secret, operator
  <2>7. CASE Rollback(r)
    BY <1>0, <2>7 DEF Rollback, ClusterInv, operator, ReqOne
  <2>8. CASE RollbackFails(r)
    BY <1>0, <2>8 DEF RollbackFails, ClusterInv, secret, operator
  <2>9. CASE RequestFails(r)
    <3>1. rested' \in BOOLEAN
      BY <1>0, <2>9, Zenon DEF RequestFails, Lands, secret, ClusterInv
    <3>2. password' \in Passwords /\ kept' \in Passwords \cup {None}
      BY <1>0, <2>9 DEF RequestFails, Lands, secret, ClusterInv, ReqOne
    <3>3. QED
      BY <1>0, <2>9, <3>1, <3>2 DEF RequestFails, ClusterInv, operator
  <2>10. QED
    BY <2>1, <2>2, <2>3, <2>4, <2>5, <2>6, <2>7, <2>8, <2>9 DEF RequestStep
\* The request itself: an answer, or the next of its awaits.
<1>5. ASSUME NEW a \in Answers, Answer(r, a) PROVE ReqInv'
  <2>1. ReqOne([IdleReq EXCEPT !.pc = a])
    BY Resting
  <2>2. QED
    BY <1>0, <1>5, <2>1, ReqMoves DEF Answer
<1>6. ASSUME NEW pc \in {"gated", "written", "rollback"},
             req' = [req EXCEPT ![r].pc = pc], req[r].prev \in Passwords \/ pc = "gated"
      PROVE  ReqInv'
  <2>1. PICK q : q = [req[r] EXCEPT !.pc = pc]
    OBVIOUS
  <2>2. ReqOne(q)
    BY <1>0, <1>6, <2>1 DEF ReqOne, ReqType, ReqStates
  <2>3. req' = [req EXCEPT ![r] = q]
    BY <1>6, <2>1
  <2>4. QED
    BY <1>0, <2>2, <2>3, ReqMoves
<1>7. ReqInv'
  <2>1. CASE ReadCr(r)
    <3>1. PICK q : q = [req[r] EXCEPT !.pc = "read", !.pend = pending]
      OBVIOUS
    <3>2. ReqOne(q)
      BY <1>0, <3>1 DEF ReqOne, ReqType, ReqStates, ClusterInv
    <3>3. req' = [req EXCEPT ![r] = q]
      BY <2>1, <3>1 DEF ReadCr
    <3>4. QED
      BY <1>0, <3>2, <3>3, ReqMoves
  <2>2. CASE Gate(r)
    <3>1. CASE req' = [req EXCEPT ![r].pc = "gated"]
      BY <1>6, <3>1
    <3>2. CASE Answer(r, "Refused")
      BY <1>5, <3>2 DEF Answers
    <3>3. QED
      BY <2>2, <3>1, <3>2 DEF Gate, Answer
  <2>3. CASE ReadPrevious(r)
    <3>1. PICK q : q = [req[r] EXCEPT !.pc = "previous", !.prev = password]
      OBVIOUS
    <3>2. ReqOne(q)
      BY <1>0, <3>1 DEF ReqOne, ReqType, ReqStates, ClusterInv
    <3>3. req' = [req EXCEPT ![r] = q]
      BY <2>3, <3>1 DEF ReadPrevious
    <3>4. QED
      BY <1>0, <3>2, <3>3, ReqMoves
  <2>4. CASE WriteSecret(r)
    BY <1>0, <1>6, <2>4 DEF WriteSecret, Lands, ReqOne
  <2>5. CASE Nudge(r)
    BY <1>5, <2>5 DEF Nudge, Answers
  <2>6. CASE NudgeFails(r)
    BY <1>0, <1>6, <2>6 DEF NudgeFails, ReqOne
  <2>7. CASE Rollback(r)
    BY <1>5, <2>7 DEF Rollback, Answers
  <2>8. CASE RollbackFails(r)
    BY <1>5, <2>8 DEF RollbackFails, Answers
  <2>9. CASE RequestFails(r)
    BY <1>5, <2>9 DEF RequestFails, Answers
  <2>10. QED
    BY <2>1, <2>2, <2>3, <2>4, <2>5, <2>6, <2>7, <2>8, <2>9 DEF RequestStep
<1>8. QED
  BY <1>2, <1>4, <1>7 DEF IInv

LEMMA ReaderIInv ==
  ASSUME IInv, NEW b \in Readers, ReaderStep(b)
  PROVE  IInv'
<1> USE ResetAssumption
<1>0. ClusterInv /\ ReqInv /\ RdInv /\ rd[b] \in RdType /\ RdOne(rd[b])
  BY DEF IInv, RdInv, RdOne
<1>1. UNCHANGED req
  BY DEF ReaderStep, Observe, Decide, ReadNudge, Unmark, DropKept, ReadKept, PutBack, DeleteJob,
         DeleteJobRefused, Remark, MarkStalled, ReaderFails
<1>2. ReqInv'
  BY <1>0, <1>1, ReqKept
<1>3. CASE Observe(b)
  <2>1. ClusterInv'
    BY <1>0, <1>3 DEF Observe, ClusterInv, secret, operator
  <2>2. PICK q : q = [rd[b] EXCEPT !.pc = "observed", !.pend = pending]
    OBVIOUS
  <2>3. RdOne(q)
    BY <1>0, <1>3, <2>2 DEF Observe, RdOne, RdType, RdStates, ClusterInv
  <2>4. rd' = [rd EXCEPT ![b] = q]
    BY <1>3, <2>2 DEF Observe
  <2>5. QED
    BY <1>0, <1>2, <2>1, <2>3, <2>4, RdMoves DEF IInv
<1>4. CASE Decide(b)
  <2>1. ClusterInv'
    BY <1>0, <1>4 DEF Decide, ClusterInv, secret, operator
  <2>2. rd[b].pend \in Marks
    BY <1>0, <1>4 DEF Decide, RdOne
  <2>3. PICK run \in NewestRuns :
          LET step == Backstop(rd[b].pend, run, now)
          IN  Goto(b, IF step.do = "wait" THEN "idle" ELSE step.do, step.next)
    BY <1>4 DEF Decide
  <2>4. run \in Runs \cup {None}
    BY <1>0, <2>3 DEF NewestRuns, ClusterInv
  <2>5. PICK step : step = Backstop(rd[b].pend, run, now)
    OBVIOUS
  <2>6. /\ step.do \in {"forget", "restore", "stall", "wait"}
        /\ step.next \in Marks \cup {None}
        /\ step.do \in {"restore", "stall"} => step.next \in Marks
    BY <1>0, <2>2, <2>4, <2>5, BackstopTypes DEF ClusterInv
  <2>7. PICK pc : pc = IF step.do = "wait" THEN "idle" ELSE step.do
    OBVIOUS
  <2>8. pc \in RdStates \ {"observed", "putback"}
    BY <2>6, <2>7 DEF RdStates
  <2>9. Goto(b, pc, step.next)
    BY <2>3, <2>5, <2>7
  <2>10. pc \in {"restore", "deljob", "remark", "stall", "markstalled"} => step.next \in Marks
    BY <2>6, <2>7
  <2>11. QED
    BY <1>0, <1>2, <2>1, <2>6, <2>8, <2>9, <2>10, Goes DEF IInv
<1>5. CASE ReadNudge(b)
  <2>1. ClusterInv'
    BY <1>0, <1>5 DEF ReadNudge, ClusterInv, secret, operator
  <2>2. CASE rd[b].pc = "forget"
    <3>1. rd' = [rd EXCEPT ![b].pc = "unmark"]
      BY <1>5, <2>2 DEF ReadNudge
    <3>2. QED
      BY <1>0, <1>2, <2>1, <3>1, Steps DEF IInv, RdStates
  <2>3. CASE rd[b].pc = "stall"
    <3>1. rd' = [rd EXCEPT ![b].pc = "markstalled"] /\ rd[b].next \in Marks
      BY <1>0, <1>5, <2>3 DEF ReadNudge, RdOne
    <3>2. QED
      BY <1>0, <1>2, <2>1, <3>1, Steps DEF IInv, RdStates
  <2>4. QED
    BY <1>5, <2>2, <2>3 DEF ReadNudge
<1>6. CASE Unmark(b)
  <2>1. ClusterInv'
    BY <1>0, <1>6 DEF Unmark, ClusterInv, secret, operator
  <2>2. QED
    BY <1>0, <1>2, <1>6, <2>1, Goes DEF Unmark, IInv, RdStates
<1>7. CASE DropKept(b)
  <2>1. ClusterInv'
    BY <1>0, <1>7 DEF DropKept, ClusterInv, operator
  <2>2. QED
    BY <1>0, <1>2, <1>7, <2>1, Goes DEF DropKept, IInv, RdStates
<1>8. CASE ReadKept(b)
  <2>1. ClusterInv'
    BY <1>0, <1>8 DEF ReadKept, ClusterInv, secret, operator
  <2>2. CASE kept = None
    BY <1>0, <1>2, <1>8, <2>1, <2>2, Goes DEF ReadKept, IInv, RdStates
  <2>3. CASE kept # None
    <3>1. PICK q : q = [rd[b] EXCEPT !.pc = "putback", !.prev = kept]
      OBVIOUS
    <3>2. RdOne(q)
      BY <1>0, <1>8, <2>3, <3>1 DEF ReadKept, RdOne, RdType, RdStates, ClusterInv
    <3>3. rd' = [rd EXCEPT ![b] = q]
      BY <1>8, <2>3, <3>1 DEF ReadKept
    <3>4. QED
      BY <1>0, <1>2, <2>1, <3>2, <3>3, RdMoves DEF IInv
  <2>4. QED
    BY <2>2, <2>3
<1>9. CASE PutBack(b)
  <2>1. ClusterInv'
    BY <1>0, <1>9 DEF PutBack, ClusterInv, operator, RdOne
  <2>2. PICK pc \in {"deljob", "remark"} : rd' = [rd EXCEPT ![b].pc = pc]
    BY <1>9 DEF PutBack
  <2>3. rd[b].next \in Marks
    BY <1>0, <1>9 DEF PutBack, RdOne
  <2>4. QED
    BY <1>0, <1>2, <2>1, <2>2, <2>3, Steps DEF IInv, RdStates
<1>10. CASE DeleteJob(b)
  <2>1. ClusterInv'
    BY <1>0, <1>10 DEF DeleteJob, ClusterInv, secret
  <2>2. rd' = [rd EXCEPT ![b].pc = "remark"] /\ rd[b].next \in Marks
    BY <1>0, <1>10 DEF DeleteJob, RdOne
  <2>3. QED
    BY <1>0, <1>2, <2>1, <2>2, Steps DEF IInv, RdStates
<1>11. CASE DeleteJobRefused(b)
  <2>1. ClusterInv'
    BY <1>0, <1>11 DEF DeleteJobRefused, ClusterInv, secret, operator
  <2>2. Mark(now, Stalled) \in Marks
    BY <1>0, MarkTypes DEF ClusterInv, Reset, Stalled
  <2>3. QED
    BY <1>0, <1>2, <1>11, <2>1, <2>2, Goes DEF DeleteJobRefused, IInv, RdStates
<1>12. CASE Remark(b)
  <2>1. ClusterInv'
    BY <1>0, <1>12 DEF Remark, ClusterInv, secret, operator, RdOne
  <2>2. QED
    BY <1>0, <1>2, <1>12, <2>1, Goes DEF Remark, IInv, RdStates
<1>13. CASE MarkStalled(b)
  <2>1. ClusterInv'
    BY <1>0, <1>13 DEF MarkStalled, ClusterInv, secret, operator, RdOne
  <2>2. QED
    BY <1>0, <1>2, <1>13, <2>1, Goes DEF MarkStalled, IInv, RdStates
<1>14. CASE ReaderFails(b)
  <2>1. ClusterInv'
    BY <1>0, <1>14 DEF ReaderFails, ClusterInv, secret, operator
  <2>2. QED
    BY <1>0, <1>2, <1>14, <2>1, Goes DEF ReaderFails, IInv, RdStates
<1>15. QED
  BY <1>3, <1>4, <1>5, <1>6, <1>7, <1>8, <1>9, <1>10, <1>11, <1>12, <1>13, <1>14 DEF ReaderStep

LEMMA EnvironmentIInv ==
  ASSUME IInv, Environment
  PROVE  IInv'
<1> USE ResetAssumption
<1>0. ClusterInv /\ ReqInv /\ RdInv
  BY DEF IInv
<1>1. CASE OperatorReconcile
  <2>1. ClusterInv'
    BY <1>0, <1>1 DEF OperatorReconcile, ClusterInv, secret, Passwords
  <2>2. QED
    BY <1>0, <1>1, <2>1, ReqKept, RdKept DEF OperatorReconcile, IInv
<1>2. CASE JobStarts
  <2>0. job.pw \in Passwords
    BY <1>0, <1>2 DEF JobStarts, ClusterInv
  <2>1. [pw |-> job.pw, created |-> now, phase |-> "Running"] \in Runs
    BY <1>0, <2>0 DEF ClusterInv, Runs
  <2>2. ClusterInv'
    BY <1>0, <1>2, <2>1 DEF JobStarts, ClusterInv, secret
  <2>3. QED
    BY <1>0, <1>2, <2>2, ReqKept, RdKept DEF JobStarts, IInv
<1>3. CASE JobEnds
  <2>1. PICK run \in pods : JobEnds!(run)
    BY <1>3 DEF JobEnds
  <2>2. run \in Runs /\ [run EXCEPT !.phase = "Succeeded"] \in Runs
        /\ [run EXCEPT !.phase = "Failed"] \in Runs
    BY <1>0, <2>1 DEF ClusterInv, Runs
  <2>3. ClusterInv'
    BY <1>0, <2>1, <2>2 DEF ClusterInv, secret, Runs
  <2>4. QED
    BY <1>0, <2>1, <2>3, ReqKept, RdKept DEF IInv
<1>4. CASE PodCollected
  <2>1. ClusterInv'
    BY <1>0, <1>4 DEF PodCollected, ClusterInv, secret
  <2>2. QED
    BY <1>0, <1>4, <2>1, ReqKept, RdKept DEF PodCollected, IInv
<1>5. CASE Tick
  <2>1. ClusterInv'
    BY <1>0, <1>5 DEF Tick, ClusterInv, secret, operator
  <2>2. QED
    BY <1>0, <1>5, <2>1, ReqKept, RdKept DEF Tick, IInv
<1>6. CASE Crash
  <2>1. ClusterInv'
    BY <1>0, <1>6 DEF Crash, ClusterInv, secret, operator
  <2>2. ASSUME NEW r \in Requests PROVE ReqOne(req'[r])
    <3>1. ReqOne([IdleReq EXCEPT !.pc = "Error"])
      BY Resting DEF Answers
    <3>2. QED
      BY <1>0, <1>6, <2>2, <3>1 DEF Crash, ReqInv
  <2>3. ReqInv'
    BY <1>6, <2>2 DEF Crash, ReqInv, ReqOne
  <2>4. RdInv'
    BY <1>6, Resting DEF Crash, RdInv, RdOne
  <2>5. QED
    BY <2>1, <2>3, <2>4 DEF IInv
<1>7. QED
  BY <1>1, <1>2, <1>3, <1>4, <1>5, <1>6 DEF Environment

LEMMA StepIInv == IInv /\ [Next]_vars => IInv'
<1>1. ASSUME IInv, UNCHANGED vars PROVE IInv'
  BY <1>1, ReqKept, RdKept DEF vars, secret, operator, IInv, ClusterInv
<1>2. QED
  BY <1>1, RequestIInv, ReaderIInv, EnvironmentIInv DEF Next

\* Whenever resets start, whatever fails and whoever reads, the Secret always holds
\* a password, the CR a well-formed marker within the bound on restores, and every
\* request and reader what its next write needs.
THEOREM TypeCorrect == Spec => []TypeOK
<1>1. Init => IInv
  BY InitIInv
<1>2. IInv /\ [Next]_vars => IInv'
  BY StepIInv
<1>3. IInv => TypeOK
  BY IInvTypes
<1>4. QED
  BY <1>1, <1>2, <1>3, PTL DEF Spec
-----------------------------------------------------------------------------
(* Resets that write to a deployment at rest (rested).  Then every write of   *)
(* the Secret begins an episode: request e replaces the password d at the    *)
(* instant s, and until the next write every password around is one of the   *)
(* two, whatever other requests have read by then.                           *)

\* The request has not touched the Secret.
Unwritten(q) == req[q].pc \in {"idle", "read", "gated", "previous"}

\* The password of such a request is nowhere yet.
Unused ==
  \A q \in Requests : Unwritten(q) => q # password /\ \A run \in pods : run.pw # q

\* Nothing is under way but requests that have only read.
Calm ==
  /\ OperatorQuiet
  /\ kept = None /\ pending = None
  /\ \A b \in Readers : rd[b].pc = "idle"
  /\ \A q \in Requests : req[q].pc \notin {"written", "rollback"}

\* The Job of e has failed, and no run of e is left or to come.
Lost(d, e) ==
  /\ hash = d
  /\ \A run \in pods : run.pw = e => run.phase = "Failed"
  /\ job.pw = e => job.started
  /\ password = e => job.pw = e

\* The Secret, and what the operator has made of it.
SecretIn(d, e) ==
  /\ password \in {d, e} /\ kept \in {d, None} /\ hash \in {d, e}
  /\ job.pw \in {d, e, None}
  /\ password = d /\ kept = d => Lost(d, e)
  /\ password = e /\ job.pw # e => job.pw = d /\ job.started /\ hash = d
  /\ job.pw = e /\ ~job.started => hash = d

\* A run that a marker of this episode may take as its verdict.
Recent(run, s) == run.created + Skew >= s

\* Only runs of this episode are still to end, d runs again only once it is back in
\* the Secret, and e runs once.
RunsIn(d, e, s) ==
  /\ \A run \in pods :
       /\ ~Recent(run, s) => run.phase # "Running" /\ run.pw # e
       /\ Recent(run, s) => run.pw \in {d, e}
       /\ Recent(run, s) /\ run.pw = d => password = d
       /\ Recent(run, s) => password = d \/ job.pw = e
       /\ run.pw = e => (hash = e => run.phase = "Succeeded")
       /\ run.pw = e /\ password = e => (run.phase = "Succeeded" => hash = e)
       /\ run.pw = e => ~(job.pw = e /\ ~job.started)
  /\ \A x, y \in pods : x.pw = e /\ y.pw = e => x = y

\* The marker, and the request that wrote it.
RequestIn(d, e, s) ==
  /\ pending # None => pending.since >= s
  /\ pending # None /\ password = e => pending.stage = Reset
  /\ \A q \in Requests :
       /\ Unwritten(q) => q \notin {d, e}
       /\ req[q].pc \in {"written", "rollback"} => q = e /\ req[q].prev = d
       /\ req[q].pc = "written" =>
            /\ pending = None /\ password = e
            /\ \A b \in Readers : rd[b].pc = "idle"

\* What a reader goes on with.
ReaderIn(b, d, e, s) ==
  /\ rd[b].pc = "observed" =>
       /\ rd[b].pend.since >= s
       /\ password = e => rd[b].pend.stage = Reset
       /\ password = e /\ pending # None => rd[b].pend = pending
  /\ rd[b].pc \in {"restore", "putback", "deljob", "remark", "stall", "markstalled"} =>
       rd[b].next.since >= s
  /\ rd[b].pc \in {"forget", "unmark"} /\ password = e /\ kept # None /\ pending # None =>
       hash = e \/ now - pending.since >= Window
  /\ rd[b].pc \in {"restore", "putback"} => password = d \/ Lost(d, e)
  /\ rd[b].pc = "putback" => rd[b].prev = d
  /\ rd[b].pc \in {"deljob", "remark", "stall", "markstalled"} => password = d

Episode(d, e, s) ==
  /\ d # e /\ s <= now
  /\ SecretIn(d, e) /\ RunsIn(d, e, s) /\ RequestIn(d, e, s)
  /\ \A b \in Readers : ReaderIn(b, d, e, s)

QuietInv ==
  /\ Unused
  /\ Calm \/ \E d \in Passwords, e \in Requests, s \in Int : Episode(d, e, s)

LEMMA CalmSteps ==
  ASSUME IInv, Calm, [Next]_vars, \A r \in Requests : ~(RequestStep(r) /\ Lands(r))
  PROVE  Calm' /\ UNCHANGED password
<1> USE ResetAssumption
<1>0. ClusterInv /\ ReqInv /\ RdInv
  BY DEF IInv
<1>1. ASSUME NEW r \in Requests, RequestStep(r) PROVE Calm' /\ UNCHANGED password
  <2>1. UNCHANGED <<now, pending, operator, rd>>
    BY <1>1 DEF Calm, RequestStep, ReadCr, Gate, ReadPrevious, WriteSecret, Nudge, NudgeFails,
           Rollback, RollbackFails, RequestFails
  <2>2. UNCHANGED secret
    BY <1>1 DEF Calm, RequestStep, ReadCr, Gate, ReadPrevious, WriteSecret, Nudge, NudgeFails,
           Rollback, RollbackFails, RequestFails
  <2>3. ASSUME NEW q \in Requests PROVE req'[q].pc \notin {"written", "rollback"}
    <3>0. req[q].pc \notin {"written", "rollback"} /\ req[q] \in ReqType /\ req[r] \in ReqType
      BY <1>0 DEF Calm, ReqInv, ReqOne
    <3>1. CASE ReadCr(r)
      BY <1>0, <3>0, <3>1 DEF ReadCr, ReqInv, ReqType
    <3>2. CASE Gate(r)
      BY <1>0, <3>0, <3>2 DEF Gate, IdleReq, ReqInv, ReqType
    <3>3. CASE ReadPrevious(r)
      BY <1>0, <3>0, <3>3 DEF ReadPrevious, ReqInv, ReqType
    <3>4. CASE RequestFails(r)
      BY <1>0, <3>0, <3>4 DEF RequestFails, Answer, IdleReq, ReqInv
    <3>5. QED
      BY <1>1, <3>1, <3>2, <3>3, <3>4 DEF Calm, RequestStep, WriteSecret, Nudge, NudgeFails,
         Rollback, RollbackFails
  <2>4. QED
    BY <2>1, <2>2, <2>3, <1>0 DEF Calm, OperatorQuiet, operator, secret
<1>2. ASSUME NEW b \in Readers, ReaderStep(b) PROVE FALSE
  BY <1>2 DEF Calm, ReaderStep, Observe, Decide, ReadNudge, Unmark, DropKept, ReadKept, PutBack,
     DeleteJob, DeleteJobRefused, Remark, MarkStalled, ReaderFails
<1>3. CASE Environment
  <2>1. CASE OperatorReconcile
    BY <1>0, <2>1 DEF Calm, OperatorQuiet, OperatorReconcile, secret
  <2>2. CASE JobStarts
    BY <2>2 DEF Calm, OperatorQuiet, JobStarts
  <2>3. CASE JobEnds
    BY <2>3 DEF Calm, OperatorQuiet, JobEnds
  <2>4. CASE PodCollected
    BY <2>4 DEF Calm, OperatorQuiet, PodCollected, secret
  <2>5. CASE Tick
    BY <1>0, <2>5 DEF Calm, OperatorQuiet, Tick, secret, operator, ClusterInv, Runs
  <2>6. CASE Crash
    BY <1>0, <2>6 DEF Calm, OperatorQuiet, Crash, secret, operator, IdleReq, IdleRd
  <2>7. QED
    BY <1>3, <2>1, <2>2, <2>3, <2>4, <2>5, <2>6 DEF Environment
<1>4. CASE UNCHANGED vars
  BY <1>4 DEF vars, secret, operator, Calm, OperatorQuiet
<1>5. QED
  BY <1>1, <1>2, <1>3, <1>4 DEF Next

\* A write of the Secret to a deployment at rest begins an episode.
LEMMA Begins ==
  ASSUME IInv, QuietInv, NEW r \in Requests, Lands(r), AtRest(r),
         UNCHANGED <<now, pending, operator, rd>>,
         req' = [req EXCEPT ![r].pc = "written"] \/ Answer(r, "Error")
  PROVE  \E d \in Passwords, e \in Requests, s \in Int : Episode(d, e, s)'
<1> USE ResetAssumption
<1>0. /\ ClusterInv /\ ReqInv /\ RdInv /\ Calm /\ Unused /\ req[r].prev = password
      /\ req[r].pc = "previous" /\ password' = r /\ kept' = req[r].prev
  BY DEF IInv, QuietInv, Lands, AtRest, Free, Calm
<1>1. PICK d, s : d = password /\ s = now
  OBVIOUS
<1>2. d \in Passwords /\ s \in Int /\ d # r /\ r \in Passwords /\ None \notin {d, r}
  BY <1>0, <1>1 DEF ClusterInv, Unused, Unwritten, Passwords
<1>3. SecretIn(d, r)'
  BY <1>0, <1>1, <1>2 DEF SecretIn, Calm, OperatorQuiet, operator
<1>4. RunsIn(d, r, s)'
  BY <1>0, <1>1, <1>2 DEF RunsIn, Recent, Calm, OperatorQuiet, operator, Unused, Unwritten,
     ClusterInv, Runs
<1>5. ASSUME NEW q \in Requests
      PROVE  /\ Unwritten(q)' => q \notin {d, r}
             /\ req'[q].pc \in {"written", "rollback"} => q = r /\ req'[q].prev = d
  <2>1. CASE q = r
    BY <1>0, <1>1, <1>2, <2>1 DEF Unwritten, Answer, Answers, IdleReq, ReqInv, ReqOne, ReqType
  <2>2. CASE q # r
    <3>1. req'[q] = req[q]
      BY <1>0, <2>2 DEF Answer, ReqInv
    <3>2. QED
      BY <1>0, <1>1, <2>2, <3>1 DEF Unwritten, Unused, Calm
  <2>3. QED
    BY <2>1, <2>2
<1>6. RequestIn(d, r, s)'
  BY <1>0, <1>1, <1>5 DEF RequestIn, Calm
<1>7. ASSUME NEW b \in Readers PROVE ReaderIn(b, d, r, s)'
  BY <1>0, <1>7 DEF ReaderIn, Calm
<1>8. Episode(d, r, s)'
  BY <1>0, <1>1, <1>2, <1>3, <1>4, <1>6, <1>7 DEF Episode, ClusterInv
<1>9. QED
  BY <1>2, <1>8

\* The other steps of a request.
LEMMA RequestEpisode ==
  ASSUME IInv, NEW d \in Passwords, NEW e \in Requests, NEW s \in Int, Episode(d, e, s),
         NEW r \in Requests, RequestStep(r), ~Lands(r)
  PROVE  Episode(d, e, s)'
<1> USE ResetAssumption
<1>0. /\ ClusterInv /\ ReqInv /\ RdInv /\ d # e /\ s <= now /\ None \notin {d, e}
      /\ SecretIn(d, e) /\ RunsIn(d, e, s) /\ RequestIn(d, e, s)
      /\ \A b \in Readers : ReaderIn(b, d, e, s)
      /\ req[r] \in ReqType
  BY DEF IInv, Episode, Passwords, ReqInv, ReqOne
<1>1. UNCHANGED <<now, operator, rd>>
  BY DEF RequestStep, ReadCr, Gate, ReadPrevious, WriteSecret, Nudge, NudgeFails, Rollback,
         RollbackFails, RequestFails
\* A step that neither the Secret nor the CR sees, by a request that has not come to a
\* write, or is past it.
<1>2. ASSUME UNCHANGED <<secret, pending>>,
             \A q \in Requests : Unwritten(q)' => Unwritten(q),
             \A q \in Requests : req'[q].pc \in {"written", "rollback"} => req'[q] = req[q]
      PROVE  Episode(d, e, s)'
  <2>1. SecretIn(d, e)' /\ RunsIn(d, e, s)'
    BY <1>0, <1>1, <1>2 DEF SecretIn, Lost, RunsIn, Recent, secret, operator
  <2>2. RequestIn(d, e, s)'
    BY <1>0, <1>1, <1>2 DEF RequestIn, secret
  <2>3. ASSUME NEW b \in Readers PROVE ReaderIn(b, d, e, s)'
    BY <1>0, <1>1, <1>2 DEF ReaderIn, Lost, secret, operator
  <2>4. QED
    BY <1>0, <1>1, <2>1, <2>2, <2>3 DEF Episode
<1>3. ASSUME NEW a \in Answers, Answer(r, a), UNCHANGED <<secret, pending>> PROVE Episode(d, e, s)'
  <2>1. ASSUME NEW q \in Requests
        PROVE  /\ Unwritten(q)' => Unwritten(q)
               /\ req'[q].pc \in {"written", "rollback"} => req'[q] = req[q]
    BY <1>0, <1>3 DEF Answer, Answers, IdleReq, Unwritten, ReqInv
  <2>2. QED
    BY <1>2, <1>3, <2>1
<1>4. ASSUME req[r].pc \in {"idle", "read", "gated"},
             req'[r].pc \in {"read", "gated", "previous"},
             \A q \in Requests : q # r => req'[q] = req[q], UNCHANGED <<secret, pending>>
      PROVE  Episode(d, e, s)'
  BY <1>2, <1>4 DEF Unwritten
<1>5. CASE ReadCr(r)
  BY <1>0, <1>4, <1>5 DEF ReadCr, ReqInv, ReqType
<1>6. CASE Gate(r)
  <2>1. CASE req' = [req EXCEPT ![r].pc = "gated"]
    BY <1>0, <1>4, <1>6, <2>1 DEF Gate, ReqInv, ReqType
  <2>2. CASE Answer(r, "Refused")
    BY <1>3, <1>6, <2>2 DEF Gate, Answers
  <2>3. QED
    BY <1>6, <2>1, <2>2 DEF Gate, Answer
<1>7. CASE ReadPrevious(r)
  BY <1>0, <1>4, <1>7 DEF ReadPrevious, ReqInv, ReqType
<1>8. CASE WriteSecret(r)
  BY <1>8 DEF WriteSecret
<1>9. CASE Nudge(r)
  <2>0. r = e /\ pending = None /\ password = e /\ (\A b \in Readers : rd[b].pc = "idle")
    BY <1>0, <1>9 DEF Nudge, RequestIn
  <2>1. SecretIn(d, e)' /\ RunsIn(d, e, s)'
    BY <1>0, <1>1, <1>9 DEF Nudge, SecretIn, Lost, RunsIn, Recent, secret, operator
  <2>2. RequestIn(d, e, s)'
    BY <1>0, <1>1, <1>9, <2>0 DEF Nudge, Mark, Answer, Answers, IdleReq, RequestIn, Unwritten,
       secret, ReqInv, ClusterInv
  <2>3. ASSUME NEW b \in Readers PROVE ReaderIn(b, d, e, s)'
    BY <1>1, <2>0 DEF ReaderIn
  <2>4. QED
    BY <1>0, <1>1, <2>1, <2>2, <2>3 DEF Episode
<1>10. CASE NudgeFails(r)
  <2>0. r = e /\ pending = None /\ password = e /\ (\A b \in Readers : rd[b].pc = "idle")
    BY <1>0, <1>10 DEF NudgeFails, RequestIn
  <2>1. SecretIn(d, e)' /\ RunsIn(d, e, s)'
    BY <1>0, <1>1, <1>10 DEF NudgeFails, SecretIn, Lost, RunsIn, Recent, secret, operator
  <2>2. RequestIn(d, e, s)'
    BY <1>0, <1>1, <1>10, <2>0 DEF NudgeFails, Mark, RequestIn, Unwritten,
       secret, ReqInv, ClusterInv, ReqType
  <2>3. ASSUME NEW b \in Readers PROVE ReaderIn(b, d, e, s)'
    BY <1>1, <2>0 DEF ReaderIn
  <2>4. QED
    BY <1>0, <1>1, <2>1, <2>2, <2>3 DEF Episode
<1>11. CASE Rollback(r)
  <2>0. r = e /\ password' = d /\ kept' = None /\ req[r].prev = d
    BY <1>0, <1>11 DEF Rollback, RequestIn
  <2>1. SecretIn(d, e)' /\ RunsIn(d, e, s)'
    BY <1>0, <1>1, <1>11, <2>0 DEF Rollback, SecretIn, RunsIn, Recent, operator
  <2>2. RequestIn(d, e, s)'
    BY <1>0, <1>1, <1>11, <2>0 DEF Rollback, Answer, Answers, IdleReq, RequestIn, Unwritten, ReqInv
  <2>3. ASSUME NEW b \in Readers PROVE ReaderIn(b, d, e, s)'
    BY <1>0, <1>1, <1>11, <2>0 DEF Rollback, ReaderIn
  <2>4. QED
    BY <1>0, <1>1, <2>1, <2>2, <2>3 DEF Episode
<1>12. CASE RollbackFails(r)
  BY <1>3, <1>12 DEF RollbackFails, Answers
<1>13. CASE RequestFails(r)
  BY <1>3, <1>13 DEF RequestFails, Answers, secret
<1>14. QED
  BY <1>5, <1>6, <1>7, <1>8, <1>9, <1>10, <1>11, <1>12, <1>13 DEF RequestStep

\* What the rule makes of a run that the marker of this episode may count.
LEMMA DecidesWell ==
  ASSUME ClusterInv, NEW d \in Passwords, NEW e \in Requests, NEW s \in Int,
         d # e, s <= now, SecretIn(d, e), RunsIn(d, e, s),
         NEW p \in Marks, p.since >= s, password = e => p.stage = Reset,
         NEW run \in NewestRuns, NEW step, step = Backstop(p, run, now)
  PROVE  /\ step.do = "forget" /\ password = e => hash = e \/ now - p.since >= Window
         /\ step.do = "restore" => step.next.since >= s /\ (password = d \/ Lost(d, e))
         /\ step.do = "stall" => step.next.since >= s /\ password = d
<1> USE ResetAssumption
<1>0. run \in Runs \cup {None} /\ (run # None => run \in pods)
  BY DEF NewestRuns, ClusterInv
<1>1. PICK phase : phase = IF Counts(p, run) THEN run.phase ELSE "none"
  OBVIOUS
<1>2. phase # "none" => run \in pods /\ run \in Runs /\ Recent(run, s)
  BY <1>0, <1>1 DEF Counts, Recent, Runs, Marks
<1>3. CASE phase = "Succeeded"
  <2>1. step.do = "forget"
    BY <1>1, <1>3 DEF Backstop, Does
  <2>2. password = e => hash = e
    BY <1>1, <1>2, <1>3 DEF RunsIn, Counts
  <2>3. QED
    BY <2>1, <2>2
<1>4. CASE phase = "Failed"
  <2>1. password = d \/ Lost(d, e)
    BY <1>1, <1>2, <1>4 DEF RunsIn, Counts, SecretIn, Lost
  <2>2. CASE p.stage < MaxRestores
    <3>1. step = Does("restore", Mark(RestoreSince(now, run.created), p.stage + 1))
      BY <1>1, <1>4, <2>2 DEF Backstop
    <3>2. RestoreSince(now, run.created) >= s
      BY <1>2, <1>4 DEF RestoreSince, Recent, ClusterInv, Runs
    <3>3. QED
      BY <2>1, <3>1, <3>2 DEF Does, Mark
  <2>3. CASE p.stage = MaxRestores
    <3>1. step = Does("stall", Mark(now, Stalled))
      BY <1>1, <1>4, <2>3 DEF Backstop
    <3>2. password = d
      BY <2>3 DEF Reset, SecretIn
    <3>3. QED
      BY <3>1, <3>2 DEF Does, Mark, ClusterInv
  <2>4. CASE ~(p.stage < MaxRestores) /\ p.stage # MaxRestores
    <3>1. step = Does(IF now - p.since >= Window THEN "forget" ELSE "wait", None)
      BY <1>1, <1>4, <2>4 DEF Backstop
    <3>2. QED
      BY <3>1 DEF Does
  <2>5. QED
    BY <2>2, <2>3, <2>4
<1>5. CASE phase \notin {"Succeeded", "Failed"}
  <2>1. step = Does(IF now - p.since >= Window THEN "forget" ELSE "wait", None)
    BY <1>1, <1>5 DEF Backstop
  <2>2. QED
    BY <2>1 DEF Does
<1>6. QED
  BY <1>3, <1>4, <1>5

LEMMA ReaderEpisode ==
  ASSUME IInv, NEW d \in Passwords, NEW e \in Requests, NEW s \in Int, Episode(d, e, s),
         NEW b \in Readers, ReaderStep(b)
  PROVE  Episode(d, e, s)'
<1> USE ResetAssumption
<1>0. /\ ClusterInv /\ ReqInv /\ RdInv /\ d # e /\ s <= now /\ None \notin {d, e}
      /\ SecretIn(d, e) /\ RunsIn(d, e, s) /\ RequestIn(d, e, s)
      /\ \A c \in Readers : ReaderIn(c, d, e, s)
      /\ rd[b] \in RdType /\ RdOne(rd[b])
  BY DEF IInv, Episode, Passwords, RdInv, RdOne
<1>1. UNCHANGED <<now, req>> /\ \A c \in Readers : c # b => rd'[c] = rd[c]
  BY <1>0
  DEF ReaderStep, Observe, Decide, ReadNudge, Unmark, DropKept, ReadKept, PutBack, DeleteJob,
         DeleteJobRefused, Remark, MarkStalled, ReaderFails, Goto, RdInv
\* A reader moves only when no request is about to mark.
<1>2. \A q \in Requests : req[q].pc # "written"
  BY <1>0
  DEF RequestIn, ReaderStep, Observe, Decide, ReadNudge, Unmark, DropKept, ReadKept, PutBack,
         DeleteJob, DeleteJobRefused, Remark, MarkStalled, ReaderFails
\* A step that neither the Secret, the CR nor the operator sees.
<1>3. ASSUME UNCHANGED <<secret, pending, operator>>, ReaderIn(b, d, e, s)' PROVE Episode(d, e, s)'
  <2>1. SecretIn(d, e)' /\ RunsIn(d, e, s)'
    BY <1>0, <1>1, <1>3 DEF SecretIn, Lost, RunsIn, Recent, secret, operator
  <2>2. RequestIn(d, e, s)'
    BY <1>0, <1>1, <1>2, <1>3 DEF RequestIn, Unwritten, secret
  <2>3. ASSUME NEW c \in Readers, c # b PROVE ReaderIn(c, d, e, s)'
    BY <1>0, <1>1, <1>3, <2>3 DEF ReaderIn, Lost, secret, operator
  <2>4. QED
    BY <1>0, <1>1, <1>3, <2>1, <2>2, <2>3 DEF Episode
<1>4. CASE Observe(b)
  <2>1. rd'[b].pc = "observed" /\ rd'[b].pend = pending /\ pending # None
    BY <1>0, <1>4 DEF Observe, RdInv, RdType
  <2>2. ReaderIn(b, d, e, s)'
    BY <1>0, <1>1, <1>4, <2>1 DEF Observe, ReaderIn, RequestIn, secret, operator
  <2>3. QED
    BY <1>3, <1>4, <2>2 DEF Observe
<1>5. CASE Decide(b)
  <2>1. PICK run \in NewestRuns :
          LET step == Backstop(rd[b].pend, run, now)
          IN  Goto(b, IF step.do = "wait" THEN "idle" ELSE step.do, step.next)
    BY <1>5 DEF Decide
  <2>2. PICK p, step : p = rd[b].pend /\ step = Backstop(p, run, now)
    OBVIOUS
  <2>3. p \in Marks /\ p.since >= s /\ (password = e => p.stage = Reset)
        /\ (password = e /\ pending # None => p = pending)
    BY <1>0, <1>5, <2>2 DEF Decide, ReaderIn, RdOne
  <2>4. run \in Runs \cup {None}
    BY <1>0, <2>1 DEF NewestRuns, ClusterInv
  <2>5. /\ step.do = "forget" /\ password = e => hash = e \/ now - p.since >= Window
        /\ step.do = "restore" => step.next.since >= s /\ (password = d \/ Lost(d, e))
        /\ step.do = "stall" => step.next.since >= s /\ password = d
        /\ step.do \in {"forget", "restore", "stall", "wait"}
    BY <1>0, <2>1, <2>2, <2>3, <2>4, DecidesWell, BackstopTypes DEF ClusterInv
  <2>6. /\ rd'[b].pc = IF step.do = "wait" THEN "idle" ELSE step.do
        /\ rd'[b].next = step.next
    BY <1>0, <2>1, <2>2 DEF Goto, IdleRd, RdInv
  <2>7. ReaderIn(b, d, e, s)'
    BY <1>1, <1>5, <2>3, <2>5, <2>6 DEF Decide, ReaderIn, Lost, secret, operator
  <2>8. QED
    BY <1>3, <1>5, <2>7 DEF Decide
<1>6. CASE ReadNudge(b)
  <2>1. /\ rd'[b].pc = IF rd[b].pc = "forget" THEN "unmark" ELSE "markstalled"
        /\ rd'[b].next = rd[b].next /\ rd[b].pc \in {"forget", "stall"}
    BY <1>0, <1>6 DEF ReadNudge, RdInv, RdType
  <2>2. ReaderIn(b, d, e, s)'
    BY <1>0, <1>1, <1>6, <2>1 DEF ReadNudge, ReaderIn, secret, operator
  <2>3. QED
    BY <1>3, <1>6, <2>2 DEF ReadNudge
<1>7. CASE Unmark(b)
  <2>1. SecretIn(d, e)' /\ RunsIn(d, e, s)'
    BY <1>0, <1>1, <1>7 DEF Unmark, SecretIn, Lost, RunsIn, Recent, secret, operator
  <2>2. RequestIn(d, e, s)'
    BY <1>0, <1>1, <1>2, <1>7 DEF Unmark, RequestIn, Unwritten, secret
  <2>3. ASSUME NEW c \in Readers PROVE ReaderIn(c, d, e, s)'
    <3>1. CASE c = b
      BY <1>0, <1>7, <3>1 DEF Unmark, Goto, IdleRd, ReaderIn, RdInv
    <3>2. CASE c # b
      BY <1>0, <1>1, <1>7, <3>2 DEF Unmark, ReaderIn, Lost, secret, operator
    <3>3. QED
      BY <3>1, <3>2
  <2>4. QED
    BY <1>0, <1>1, <2>1, <2>2, <2>3 DEF Episode
<1>8. CASE DropKept(b)
  <2>1. SecretIn(d, e)' /\ RunsIn(d, e, s)'
    BY <1>0, <1>1, <1>8 DEF DropKept, SecretIn, RunsIn, Recent, operator
  <2>2. RequestIn(d, e, s)'
    BY <1>0, <1>1, <1>2, <1>8 DEF DropKept, RequestIn, Unwritten
  <2>3. ASSUME NEW c \in Readers PROVE ReaderIn(c, d, e, s)'
    <3>1. CASE c = b
      BY <1>0, <1>8, <3>1 DEF DropKept, Goto, IdleRd, ReaderIn, RdInv
    <3>2. CASE c # b
      BY <1>0, <1>1, <1>8, <3>2 DEF DropKept, ReaderIn, Lost, operator
    <3>3. QED
      BY <3>1, <3>2
  <2>4. QED
    BY <1>0, <1>1, <2>1, <2>2, <2>3 DEF Episode
<1>9. CASE ReadKept(b)
  <2>1. CASE kept = None
    <3>1. rd'[b].pc = "forget"
      BY <1>0, <1>9, <2>1 DEF ReadKept, Goto, IdleRd, RdInv
    <3>2. ReaderIn(b, d, e, s)'
      BY <1>9, <2>1, <3>1 DEF ReadKept, ReaderIn, secret
    <3>3. QED
      BY <1>3, <1>9, <3>2 DEF ReadKept
  <2>2. CASE kept # None
    <3>0. kept = d
      BY <1>0, <2>2 DEF SecretIn
    <3>1. rd'[b] = [rd[b] EXCEPT !.pc = "putback", !.prev = d]
      BY <1>0, <1>9, <2>2, <3>0 DEF ReadKept, RdInv
    <3>2. ReaderIn(b, d, e, s)'
      BY <1>0, <1>9, <3>1 DEF ReadKept, ReaderIn, RdType, Lost, secret, operator
    <3>3. QED
      BY <1>3, <1>9, <3>2 DEF ReadKept
  <2>3. QED
    BY <2>1, <2>2
<1>10. CASE PutBack(b)
  <2>0. password' = d /\ UNCHANGED <<kept, pending, operator>> /\ (password = d \/ Lost(d, e))
    BY <1>0, <1>10 DEF PutBack, ReaderIn
  <2>1. SecretIn(d, e)' /\ RunsIn(d, e, s)'
    BY <1>0, <1>1, <2>0 DEF SecretIn, Lost, RunsIn, Recent, operator
  <2>2. RequestIn(d, e, s)'
    BY <1>0, <1>1, <1>2, <2>0 DEF RequestIn, Unwritten
  <2>3. ASSUME NEW c \in Readers PROVE ReaderIn(c, d, e, s)'
    <3>1. CASE c = b
      <4>1. rd'[b].pc \in {"deljob", "remark"} /\ rd'[b].next = rd[b].next /\ rd[b].pc = "putback"
        BY <1>0, <1>10 DEF PutBack, RdInv, RdType
      <4>2. QED
        BY <1>0, <2>0, <3>1, <4>1 DEF ReaderIn
    <3>2. CASE c # b
      BY <1>0, <1>1, <2>0, <3>2 DEF ReaderIn, operator
    <3>3. QED
      BY <3>1, <3>2
  <2>4. QED
    BY <1>0, <1>1, <2>1, <2>2, <2>3 DEF Episode
<1>11. CASE DeleteJob(b)
  <2>0. /\ password = d /\ UNCHANGED <<secret, pending, hash, pods>>
        /\ job' = [pw |-> None, started |-> TRUE]
    BY <1>0, <1>11 DEF DeleteJob, ReaderIn
  <2>1. SecretIn(d, e)' /\ RunsIn(d, e, s)'
    BY <1>0, <1>1, <2>0 DEF SecretIn, Lost, RunsIn, Recent, secret
  <2>2. RequestIn(d, e, s)'
    BY <1>0, <1>1, <1>2, <2>0 DEF RequestIn, Unwritten, secret
  <2>3. ASSUME NEW c \in Readers PROVE ReaderIn(c, d, e, s)'
    <3>1. CASE c = b
      <4>1. rd'[b].pc = "remark" /\ rd'[b].next = rd[b].next /\ rd[b].pc = "deljob"
        BY <1>0, <1>11 DEF DeleteJob, RdInv, RdType
      <4>2. QED
        BY <1>0, <2>0, <3>1, <4>1 DEF ReaderIn, secret
    <3>2. CASE c # b
      BY <1>0, <1>1, <2>0, <3>2 DEF ReaderIn, secret
    <3>3. QED
      BY <3>1, <3>2
  <2>4. QED
    BY <1>0, <1>1, <2>1, <2>2, <2>3 DEF Episode
<1>12. CASE DeleteJobRefused(b)
  <2>1. rd'[b].pc = "stall" /\ rd'[b].next.since = now
    BY <1>0, <1>12 DEF DeleteJobRefused, Goto, IdleRd, Mark, RdInv
  <2>2. ReaderIn(b, d, e, s)'
    BY <1>0, <1>12, <2>1 DEF DeleteJobRefused, ReaderIn, secret
  <2>3. QED
    BY <1>3, <1>12, <2>2 DEF DeleteJobRefused
<1>13. ASSUME rd[b].pc \in {"remark", "markstalled"}, pending' = rd[b].next,
              rd'[b].pc = "idle", UNCHANGED <<secret, operator>>
       PROVE  Episode(d, e, s)'
  <2>0. password = d /\ rd[b].next.since >= s
    BY <1>0, <1>13 DEF ReaderIn
  <2>1. SecretIn(d, e)' /\ RunsIn(d, e, s)'
    BY <1>0, <1>1, <1>13 DEF SecretIn, Lost, RunsIn, Recent, secret, operator
  <2>2. RequestIn(d, e, s)'
    BY <1>0, <1>1, <1>2, <1>13, <2>0 DEF RequestIn, Unwritten, secret
  <2>3. ASSUME NEW c \in Readers PROVE ReaderIn(c, d, e, s)'
    <3>1. CASE c = b
      BY <1>13, <3>1 DEF ReaderIn
    <3>2. CASE c # b
      BY <1>0, <1>1, <1>13, <2>0, <3>2 DEF ReaderIn, Lost, secret, operator
    <3>3. QED
      BY <3>1, <3>2
  <2>4. QED
    BY <1>0, <1>1, <2>1, <2>2, <2>3 DEF Episode
<1>14. CASE Remark(b)
  BY <1>0, <1>13, <1>14 DEF Remark, Goto, IdleRd, RdInv
<1>15. CASE MarkStalled(b)
  BY <1>0, <1>13, <1>15 DEF MarkStalled, Goto, IdleRd, RdInv
<1>16. CASE ReaderFails(b)
  <2>1. rd'[b].pc = "idle"
    BY <1>0, <1>16 DEF ReaderFails, Goto, IdleRd, RdInv
  <2>2. QED
    BY <1>3, <1>16, <2>1 DEF ReaderFails, ReaderIn
<1>17. QED
  BY <1>4, <1>5, <1>6, <1>7, <1>8, <1>9, <1>10, <1>11, <1>12, <1>14, <1>15, <1>16 DEF ReaderStep

LEMMA EnvironmentEpisode ==
  ASSUME IInv, NEW d \in Passwords, NEW e \in Requests, NEW s \in Int, Episode(d, e, s),
         Environment
  PROVE  Episode(d, e, s)'
<1> USE ResetAssumption
<1>0. /\ ClusterInv /\ ReqInv /\ RdInv /\ d # e /\ s <= now /\ None \notin {d, e}
      /\ SecretIn(d, e) /\ RunsIn(d, e, s) /\ RequestIn(d, e, s)
      /\ \A c \in Readers : ReaderIn(c, d, e, s)
  BY DEF IInv, Episode, Passwords
\* The operator and the Job move neither the Secret, the CR nor any process.
<1>1. ASSUME UNCHANGED <<now, secret, pending, req, rd>>, SecretIn(d, e)', RunsIn(d, e, s)',
             Lost(d, e) => Lost(d, e)', password = e /\ hash = e => hash' = e
      PROVE  Episode(d, e, s)'
  <2>1. RequestIn(d, e, s)'
    BY <1>0, <1>1 DEF RequestIn, Unwritten, secret
  <2>2. ASSUME NEW c \in Readers PROVE ReaderIn(c, d, e, s)'
    BY <1>0, <1>1 DEF ReaderIn, secret, SecretIn
  <2>3. QED
    BY <1>0, <1>1, <2>1, <2>2 DEF Episode
<1>2. CASE OperatorReconcile
  <2>1. SecretIn(d, e)' /\ (Lost(d, e) => Lost(d, e)')
    BY <1>0, <1>2 DEF OperatorReconcile, SecretIn, Lost, secret
  <2>2. RunsIn(d, e, s)'
    BY <1>0, <1>2 DEF OperatorReconcile, RunsIn, Recent, SecretIn, secret
  <2>3. QED
    BY <1>1, <1>2, <2>1, <2>2 DEF OperatorReconcile
<1>3. CASE JobStarts
  <2>0. PICK new : new = [pw |-> job.pw, created |-> now, phase |-> "Running"]
    OBVIOUS
  <2>1. /\ pods' = pods \cup {new} /\ job' = [job EXCEPT !.started = TRUE] /\ ~job.started
        /\ job.pw \in {d, e} /\ Recent(new, s) /\ UNCHANGED <<hash, password, kept>>
    BY <1>0, <1>3, <2>0 DEF JobStarts, ClusterInv, SecretIn, Recent, secret
  <2>2. job'.pw = job.pw /\ job'.started /\ new.pw = job.pw /\ new.phase = "Running"
    BY <1>0, <2>0, <2>1 DEF ClusterInv
  <2>3. SecretIn(d, e)' /\ (Lost(d, e) => Lost(d, e)')
    BY <1>0, <2>1, <2>2 DEF SecretIn, Lost
  <2>4. RunsIn(d, e, s)'
    BY <1>0, <2>1, <2>2 DEF RunsIn, Recent, SecretIn
  <2>5. QED
    BY <1>1, <1>3, <2>1, <2>3, <2>4 DEF JobStarts
<1>4. CASE JobEnds
  <2>1. PICK run \in pods : JobEnds!(run)
    BY <1>4 DEF JobEnds
  <2>2. PICK phase \in {"Succeeded", "Failed"} :
          /\ pods' = (pods \ {run}) \cup {[run EXCEPT !.phase = phase]}
          /\ hash' = IF phase = "Succeeded" THEN run.pw ELSE hash
    BY <2>1
  <2>3. PICK new : new = [run EXCEPT !.phase = phase]
    OBVIOUS
  <2>4. /\ run.phase = "Running" /\ UNCHANGED <<job, password, kept>>
        /\ new.pw = run.pw /\ new.created = run.created /\ new.phase = phase
        /\ pods' = (pods \ {run}) \cup {new}
        /\ Recent(run, s) /\ run.pw \in {d, e} /\ (run.pw = d => password = d)
    BY <1>0, <2>1, <2>2, <2>3 DEF ClusterInv, Runs, RunsIn, Recent, secret
  <2>5. SecretIn(d, e)' /\ (Lost(d, e) => Lost(d, e)')
    BY <1>0, <2>2, <2>4 DEF SecretIn, Lost, RunsIn
  <2>6. RunsIn(d, e, s)'
    <3>1. ASSUME NEW x \in pods, NEW y \in pods, x.pw = e, y.pw = e PROVE x = y
      BY <1>0, <3>1 DEF RunsIn
    <3>2. QED
      BY <1>0, <2>2, <2>4, <3>1 DEF RunsIn, Recent, SecretIn
  <2>7. password = e /\ hash = e => hash' = e
    BY <1>0, <2>2, <2>4
  <2>8. QED
    BY <1>1, <2>1, <2>5, <2>6, <2>7
<1>5. CASE PodCollected
  <2>1. pods' \subseteq pods /\ UNCHANGED <<job, hash, password, kept>>
    BY <1>5 DEF PodCollected, secret
  <2>2. SecretIn(d, e)' /\ (Lost(d, e) => Lost(d, e)')
    BY <1>0, <2>1 DEF SecretIn, Lost
  <2>3. RunsIn(d, e, s)'
    BY <1>0, <2>1 DEF RunsIn, Recent
  <2>4. QED
    BY <1>1, <1>5, <2>1, <2>2, <2>3 DEF PodCollected
<1>6. CASE Tick
  <2>1. SecretIn(d, e)' /\ RunsIn(d, e, s)' /\ s <= now'
    BY <1>0, <1>6 DEF Tick, SecretIn, Lost, RunsIn, Recent, secret, operator, ClusterInv
  <2>2. RequestIn(d, e, s)'
    BY <1>0, <1>6 DEF Tick, RequestIn, Unwritten, secret
  <2>3. ASSUME NEW c \in Readers PROVE ReaderIn(c, d, e, s)'
    <3>1. pending # None => pending.since \in Int
      BY <1>0 DEF ClusterInv, Marks
    <3>2. QED
      BY <1>0, <1>6, <3>1 DEF Tick, ReaderIn, Lost, secret, operator, ClusterInv
  <2>4. QED
    BY <1>0, <2>1, <2>2, <2>3 DEF Episode
<1>7. CASE Crash
  <2>1. SecretIn(d, e)' /\ RunsIn(d, e, s)'
    BY <1>0, <1>7 DEF Crash, SecretIn, Lost, RunsIn, Recent, secret, operator
  <2>2. \A c \in Readers : rd'[c].pc = "idle"
    BY <1>7 DEF Crash, IdleRd
  <2>3. ASSUME NEW q \in Requests
        PROVE  /\ Unwritten(q)' => Unwritten(q)
               /\ req'[q].pc \notin {"written", "rollback"}
    BY <1>0, <1>7 DEF Crash, Unwritten, InFlight, Answers, IdleReq
  <2>4. RequestIn(d, e, s)'
    BY <1>0, <1>7, <2>3 DEF Crash, RequestIn, secret
  <2>5. QED
    BY <1>0, <1>7, <2>1, <2>2, <2>4 DEF Crash, Episode, ReaderIn
<1>8. QED
  BY <1>2, <1>3, <1>4, <1>5, <1>6, <1>7 DEF Environment

LEMMA InitQuiet == Init => QuietInv
<1> USE ResetAssumption
<1> SUFFICES ASSUME Init PROVE QuietInv
  OBVIOUS
<1>1. Calm
  BY DEF Init, Calm, OperatorQuiet, IdleReq, IdleRd
<1>2. Unused
  BY DEF Init, Unused, Passwords
<1>3. QED
  BY <1>1, <1>2 DEF QuietInv

\* Every step leaves a deployment calm or in an episode.
LEMMA QuietGoesOn ==
  ASSUME IInv, QuietInv, [Next]_vars, rested'
  PROVE  \/ Calm' /\ UNCHANGED password
         \/ \E d \in Passwords, e \in Requests, s \in Int : Episode(d, e, s)'
<1>1. CASE \E r \in Requests : RequestStep(r) /\ Lands(r)
  <2>1. PICK r \in Requests : RequestStep(r) /\ Lands(r)
    BY <1>1
  <2>2. WriteSecret(r) \/ RequestFails(r)
    BY <2>1 DEF Lands, RequestStep, ReadCr, Gate, ReadPrevious, Nudge, NudgeFails, Rollback,
       RollbackFails
  <2>3. /\ UNCHANGED <<now, pending, operator, rd>> /\ AtRest(r)
        /\ req' = [req EXCEPT ![r].pc = "written"] \/ Answer(r, "Error")
    BY <2>1, <2>2 DEF WriteSecret, RequestFails, Lands
  <2>4. QED
    BY <2>1, <2>3, Begins
<1>2. CASE ~\E r \in Requests : RequestStep(r) /\ Lands(r)
  <2>1. CASE Calm
    BY <1>2, <2>1, CalmSteps
  <2>2. ASSUME NEW d \in Passwords, NEW e \in Requests, NEW s \in Int, Episode(d, e, s)
        PROVE  Episode(d, e, s)'
    <3>1. CASE UNCHANGED vars
      BY <2>2, <3>1 DEF vars, secret, operator, Episode, SecretIn, Lost, RunsIn, Recent, RequestIn,
         Unwritten, ReaderIn
    <3>2. QED
      BY <1>2, <2>2, <3>1, RequestEpisode, ReaderEpisode, EnvironmentEpisode DEF Next
  <2>3. QED
    BY <2>1, <2>2 DEF QuietInv
<1>3. QED
  BY <1>1, <1>2

\* What a step does to the requests.
LEMMA RequestsMove ==
  ASSUME IInv, [Next]_vars, NEW q \in Requests
  PROVE  \/ UNCHANGED req[q]
         \/ /\ ReadCr(q) /\ req'[q] = [req[q] EXCEPT !.pc = "read", !.pend = pending]
            /\ \A p \in Requests : p # q => req'[p] = req[p]
         \/ /\ Gate(q) /\ req[q].pend = None /\ req'[q] = [req[q] EXCEPT !.pc = "gated"]
         \/ /\ ReadPrevious(q)
            /\ req'[q] = [req[q] EXCEPT !.pc = "previous", !.prev = password]
         \/ InFlight(q) /\ req'[q].pc \in {"written", "rollback"} \cup Answers
<1>0. ReqInv /\ req[q] \in ReqType
  BY DEF IInv, ReqInv, ReqOne
<1>1. ASSUME NEW r \in Requests, RequestStep(r), r # q PROVE UNCHANGED req[q]
  BY <1>0, <1>1
  DEF RequestStep, ReadCr, Gate, ReadPrevious, WriteSecret, Nudge, NudgeFails, Rollback,
     RollbackFails, RequestFails, Answer, ReqInv
<1>2. ASSUME NEW b \in Readers, ReaderStep(b) PROVE UNCHANGED req
  BY <1>2 DEF ReaderStep, Observe, Decide, ReadNudge, Unmark, DropKept, ReadKept, PutBack,
     DeleteJob, DeleteJobRefused, Remark, MarkStalled, ReaderFails
<1>3. CASE Environment
  <2>1. CASE Crash
    BY <1>0, <2>1 DEF Crash, Answers, IdleReq, ReqInv
  <2>2. QED
    BY <1>3, <2>1 DEF Environment, OperatorReconcile, JobStarts, JobEnds, PodCollected, Tick
<1>4. CASE RequestStep(q)
  <2>1. CASE ReadCr(q)
    BY <1>0, <2>1 DEF ReadCr, ReqInv
  <2>2. CASE Gate(q)
    BY <1>0, <2>2 DEF Gate, ReqInv, IdleReq, InFlight, Answers
  <2>3. CASE ReadPrevious(q)
    BY <1>0, <2>3 DEF ReadPrevious, ReqInv
  <2>4. CASE WriteSecret(q)
    BY <1>0, <2>4 DEF WriteSecret, Lands, ReqInv, ReqType, InFlight, Answers
  <2>5. CASE NudgeFails(q)
    BY <1>0, <2>5 DEF NudgeFails, ReqInv, ReqType, InFlight, Answers
  <2>6. CASE \E a \in Answers : InFlight(q) /\ Answer(q, a)
    BY <1>0, <2>6 DEF Answer, IdleReq, ReqInv
  <2>7. QED
    BY <1>4, <2>1, <2>2, <2>3, <2>4, <2>5, <2>6 DEF RequestStep, Nudge, Rollback, RollbackFails,
       RequestFails, InFlight, Answers
<1>5. QED
  BY <1>1, <1>2, <1>3, <1>4 DEF Next, vars

LEMMA RunsMove ==
  ASSUME IInv, [Next]_vars, NEW run \in pods', ~\E x \in pods : x.pw = run.pw
  PROVE  run.pw = job.pw /\ ~job.started
<1>0. pods \subseteq Runs
  BY DEF IInv, ClusterInv
<1>1. pods' = pods \/ JobStarts \/ JobEnds \/ PodCollected
  BY DEF Next, vars, operator, RequestStep, ReadCr, Gate, ReadPrevious, WriteSecret, Nudge,
     NudgeFails, Rollback, RollbackFails, RequestFails, ReaderStep, Observe, Decide, ReadNudge,
     Unmark, DropKept, ReadKept, PutBack, DeleteJob, DeleteJobRefused, Remark, MarkStalled,
     ReaderFails, Environment, OperatorReconcile, Tick, Crash
<1>2. CASE JobEnds
  BY <1>0, <1>2 DEF JobEnds, Runs
<1>3. QED
  BY <1>1, <1>2 DEF JobStarts, PodCollected

LEMMA QuietStep ==
  ASSUME IInv, QuietInv, [Next]_vars, rested'
  PROVE  QuietInv'
<1> USE ResetAssumption
<1>0. /\ ClusterInv /\ ReqInv /\ Unused
      /\ \A q \in Requests : req[q] \in ReqType
  BY DEF IInv, QuietInv, ReqInv, ReqOne
<1>1. \/ Calm' /\ UNCHANGED password
      \/ \E d \in Passwords, e \in Requests, s \in Int : Episode(d, e, s)'
  BY QuietGoesOn
<1>2. Unused'
  <2>1. ASSUME NEW q \in Requests, Unwritten(q)' PROVE Unwritten(q)
    BY <1>0, <2>1, RequestsMove DEF Unwritten, ReadCr, Gate, ReadPrevious, Answers
  <2>2. ASSUME NEW q \in Requests, Unwritten(q)' PROVE q # password'
    <3>1. CASE UNCHANGED password
      BY <1>0, <2>1, <2>2, <3>1 DEF Unused
    <3>2. CASE \E d \in Passwords, e \in Requests, s \in Int : Episode(d, e, s)'
      BY <2>2, <3>2 DEF Episode, SecretIn, RequestIn
    <3>3. QED
      BY <1>1, <3>1, <3>2
  <2>3. ASSUME NEW q \in Requests, Unwritten(q)', NEW run \in pods' PROVE run.pw # q
    <3>1. CASE \E x \in pods : x.pw = run.pw
      BY <1>0, <2>1, <2>3, <3>1 DEF Unused
    <3>2. CASE ~\E x \in pods : x.pw = run.pw
      <4>1. run.pw = job.pw /\ ~job.started
        BY <2>3, <3>2, RunsMove
      <4>2. PICK d, e, s : Episode(d, e, s)
        BY <4>1 DEF QuietInv, Calm, OperatorQuiet
      <4>3. job.pw \in {d, e, None} /\ q \notin {d, e} /\ q # None
        BY <2>1, <2>3, <4>2 DEF Episode, SecretIn, RequestIn, Passwords
      <4>4. QED
        BY <4>1, <4>3
    <3>3. QED
      BY <3>1, <3>2
  <2>4. QED
    BY <2>2, <2>3 DEF Unused
<1>3. QED
  BY <1>1, <1>2 DEF QuietInv

\* A write that finds the deployment not at rest is never forgotten.
LEMMA RestedBefore == [Next]_vars /\ rested' => rested
  BY DEF Next, vars, secret, operator, RequestStep, ReadCr, Gate, ReadPrevious, Lands, WriteSecret,
     Nudge, NudgeFails, Rollback, RollbackFails, RequestFails, ReaderStep, Observe, Decide,
     ReadNudge, Unmark, DropKept, ReadKept, PutBack, DeleteJob, DeleteJobRefused, Remark,
     MarkStalled, ReaderFails, Environment, OperatorReconcile, JobStarts, JobEnds, PodCollected,
     Tick, Crash

LEMMA QuietStays == Spec => [](IInv /\ (rested => QuietInv))
<1>1. Init => IInv /\ QuietInv
  BY InitIInv, InitQuiet
<1>2. IInv /\ (rested => QuietInv) /\ [Next]_vars => (IInv /\ (rested => QuietInv))'
  BY StepIInv, QuietStep, RestedBefore
<1>3. QED
  BY <1>1, <1>2, PTL DEF Spec

\* While the previous password is kept, the cluster has it or the current one: a reset
\* that does not go through can always be taken back (admin_reset.rs), until one writes to a
\* deployment where something of another is left.
THEOREM AlwaysAWayBack == Spec => []WayBack
<1>1. (rested => QuietInv) => WayBack
  BY DEF QuietInv, Calm, Episode, SecretIn, Lost, WayBack
<1>2. QED
  BY <1>1, QuietStays, PTL

\* The marker goes only once the cluster has the password in the Secret, or the window
\* has passed (ADR-064), although the reader that removes it decided awaits before.
THEOREM ForgottenWhenDone == Spec => ForgetOnlyWhenDone
<1> USE ResetAssumption
<1>1. ASSUME IInv, QuietInv, [Next]_vars, pending # None, kept # None, pending' = None
      PROVE  hash = password \/ now - pending.since >= Window
  <2>1. PICK d, e, s : Episode(d, e, s)
    BY <1>1 DEF QuietInv, Calm
  <2>2. PICK b \in Readers : Unmark(b)
    <3>0. Mark(now, Reset) # None
      BY <1>1, MarkTypes, NoneAssumption DEF IInv, ClusterInv, Reset, Stalled
    <3>1. ASSUME NEW r \in Requests, RequestStep(r) PROVE FALSE
      BY <1>1, <3>0, <3>1
      DEF RequestStep, ReadCr, Gate, ReadPrevious, WriteSecret, Nudge, NudgeFails,
         Rollback, RollbackFails, RequestFails
    <3>2. ASSUME NEW b \in Readers, ReaderStep(b) PROVE Unmark(b)
      <4>1. rd[b].pc \in {"remark", "markstalled"} => rd[b].next # None
        BY <1>1, NoneAssumption DEF IInv, RdInv, RdOne
      <4>2. QED
        BY <1>1, <3>2, <4>1 DEF ReaderStep, Observe, Decide, ReadNudge, DropKept, ReadKept, PutBack,
           DeleteJob, DeleteJobRefused, Remark, MarkStalled, ReaderFails
    <3>3. QED
      BY <1>1, <3>1, <3>2 DEF Next, vars, Environment, OperatorReconcile, JobStarts, JobEnds,
         PodCollected, Tick, Crash
  <2>3. rd[b].pc = "unmark"
    BY <2>2 DEF Unmark
  <2>4. QED
    BY <1>1, <2>1, <2>3 DEF Episode, SecretIn, Lost, ReaderIn
<1>2. IInv /\ (rested => QuietInv) /\ [Next]_vars =>
        [rested /\ pending # None /\ kept # None /\ pending' = None =>
           hash = password \/ now - pending.since >= Window]_vars
  BY <1>1
<1>3. QED
  BY <1>2, QuietStays, PTL DEF Spec, ForgetOnlyWhenDone

\* No reader puts the previous password back over one that the cluster has accepted,
\* however long ago it decided to.
THEOREM NeverUndone == Spec => RestoreNeverUndoes
<1>1. ASSUME QuietInv, NEW b \in Readers, PutBack(b), password' # password
      PROVE  hash # password
  <2>1. PICK d, e, s : Episode(d, e, s)
    BY <1>1 DEF QuietInv, Calm, PutBack
  <2>2. password' = d /\ Lost(d, e)
    BY <1>1, <2>1 DEF PutBack, Episode, ReaderIn
  <2>3. QED
    BY <1>1, <2>1, <2>2 DEF Lost
<1>2. (rested => QuietInv) =>
        [rested /\ (\E b \in Readers : PutBack(b)) /\ password' # password => hash # password]_vars
  BY <1>1
<1>3. QED
  BY <1>2, QuietStays, PTL DEF Spec, RestoreNeverUndoes

-----------------------------------------------------------------------------
(* The health series (Metrics).                                              *)

\* While no best-effort call has failed, the index is one that policy and template have
\* shaped by the time a pass has something to record.
SeriesInv ==
  ~amiss => /\ index \in {"none", "shaped"}
            /\ metPc # "idle" \/ series # <<>> => index = "shaped"

LEMMA NextSeriesInv ==
  ASSUME SeriesInv, M!Next PROVE SeriesInv'
<1>1. CASE M!EnsureIndex
  BY <1>1 DEF SeriesInv, M!EnsureIndex
<1>2. CASE M!EnsureFails \/ M!CollectSample \/ M!PassEnds \/ M!Release
  BY <1>2 DEF SeriesInv, M!EnsureFails, M!CollectSample, M!PassEnds, M!Release, M!storage
<1>3. CASE M!RecordSample
  BY <1>3 DEF SeriesInv, M!RecordSample
<1>4. CASE M!Expire
  BY <1>4 DEF SeriesInv, M!Expire, M!storage
<1>5. CASE M!ReadStats \/ M!ReadNewest \/ M!Date \/ M!Tick
  BY <1>5 DEF SeriesInv, M!ReadStats, M!ReadNewest, M!Date, M!Tick, M!storage
<1>6. CASE \E n \in Readers : M!Operate(n) \/ M!Leave(n) \/ M!Return(n) \/
                             M!FallSilent(n) \/ M!AnswerAgain(n)
  BY <1>6 DEF SeriesInv, M!Operate, M!Leave, M!Return, M!FallSilent, M!AnswerAgain, M!storage
<1>7. QED
  BY <1>1, <1>2, <1>3, <1>4, <1>5, <1>6 DEF M!Next

\* A step of the modules together is one of the series or leaves it alone.
LEMMA MetricsSteps ==
  ASSUME [AllNext]_allVars PROVE part' = part /\ (M!Next \/ UNCHANGED metVars)
<1>1. CASE UNCHANGED allVars
  BY <1>1 DEF allVars
<1>2. CASE ResNext
  BY <1>2 DEF ResNext, Res
<1>3. CASE RemNext
  BY <1>3 DEF RemNext, Rem
<1>4. CASE MetNext
  BY <1>4 DEF MetNext, Met, M!Next
<1>5. QED
  BY <1>1, <1>2, <1>3, <1>4 DEF AllNext

\* ensure_metrics_index: samples are in an index that the policy takes away.
THEOREM SeriesHasAnEnd == AllSpec => []SeriesEnds
<1>1. AllInit => (part = "metrics" => SeriesInv)
  BY DEF AllInit, M!Init, SeriesInv
<1>2. (part = "metrics" => SeriesInv) /\ [AllNext]_allVars => (part = "metrics" => SeriesInv)'
  <2> SUFFICES ASSUME part = "metrics" => SeriesInv, [AllNext]_allVars, part' = "metrics"
               PROVE  SeriesInv'
    BY Zenon
  <2>1. part' = part /\ (M!Next \/ UNCHANGED metVars)
    BY MetricsSteps
  <2>2. CASE UNCHANGED metVars
    BY <2>1, <2>2 DEF metVars, SeriesInv
  <2>3. QED
    BY <2>1, <2>2, NextSeriesInv
<1>3. (part = "metrics" => SeriesInv) => SeriesEnds
  BY DEF SeriesInv, SeriesEnds, M!SeriesEnds
<1>4. QED
  BY <1>1, <1>2, <1>3, PTL DEF AllSpec

-----------------------------------------------------------------------------
(* Wedged recoveries (Remediation).                                          *)

RemReads == [pc : {"idle", "decide", "restore", "forget", "diagnose"}, last : D!Entries,
             rows : {None, "wedged", "unsettled", "settled"}, alone : BOOLEAN]

RemTypes ==
  /\ raised \in BOOLEAN /\ lost \in BOOLEAN /\ log \in D!Entries
  /\ read \in [Readers -> RemReads]
  /\ task \in [D!Stages -> Nat]

\* A read that took the override away, and is about to remove an entry, knows it is gone
\* unless a task has ended since: whoever raised it again is about to write the log.
Handed(b) ==
  read[b].pc = "forget" /\ read[b].alone /\ D!Busy = 0 => ~raised

RaiseInv == RemTypes /\ D!RaiseIsTracked /\ \A b \in Readers : Handed(b)

LEMMA InitRaiseInv == D!Init => RaiseInv
<1> SUFFICES ASSUME D!Init PROVE RaiseInv
  OBVIOUS
<1>1. D!Idle \in RemReads /\ D!Idle.pc = "idle"
  BY DEF D!Idle, RemReads, D!Entries
<1>2. RemTypes
  BY <1>1 DEF D!Init, RemTypes, D!Entries
<1>3. QED
  BY <1>1, <1>2 DEF D!Init, RaiseInv, D!RaiseIsTracked, Handed

\* What is said of a read that goes on alone.
LEMMA AtReads ==
  ASSUME RemTypes, NEW b \in Readers, NEW pc \in {"idle", "decide", "restore", "diagnose"}
  PROVE  D!At(pc) \in RemReads /\ D!At(pc).pc = pc
BY DEF D!At, D!Idle, RemReads, D!Entries

\* A step of a read that leaves log, override and tasks alone, or arms.
LEMMA ReadsOn ==
  ASSUME RaiseInv, NEW b \in Readers,
         D!Begin(b) \/ D!Dark(b) \/ D!Decide(b) \/ D!Diagnose(b) \/ D!NoDiagnosis(b)
  PROVE  RaiseInv'
<1>1. UNCHANGED raised
  BY DEF D!Begin, D!Dark, D!Decide, D!Diagnose, D!NoDiagnosis
<1>2. CASE \E pc \in {"idle", "diagnose"} : D!Arm(b, pc)
  <2>1. PICK pc \in {"idle", "diagnose"} : D!Arm(b, pc)
    BY <1>2
  <2>2. D!At(pc) \in RemReads
    BY AtReads DEF RaiseInv
  <2>3. read' = [read EXCEPT ![b] = D!At(pc)] /\ lost' = FALSE /\ log' = "fresh"
    BY <2>1 DEF D!Arm
  <2>4. task' \in [D!Stages -> Nat] /\ D!Busy' > 0
    BY <2>1 DEF D!Arm, RaiseInv, RemTypes, D!Stages, D!Busy
  <2>5. RemTypes'
    BY <1>1, <2>2, <2>3, <2>4 DEF RaiseInv, RemTypes, D!Entries
  <2>6. QED
    BY <2>4, <2>5 DEF RaiseInv, D!RaiseIsTracked, Handed
<1>3. CASE /\ UNCHANGED <<log, task, lost>>
           /\ \E me \in RemReads : me.pc # "forget" /\ read' = [read EXCEPT ![b] = me]
  <2>1. PICK me \in RemReads : me.pc # "forget" /\ read' = [read EXCEPT ![b] = me]
    BY <1>3
  <2>2. RemTypes'
    BY <1>1, <1>3, <2>1 DEF RaiseInv, RemTypes
  <2>3. D!Busy' = D!Busy
    BY <1>3 DEF D!Busy
  <2>4. QED
    BY <1>1, <1>3, <2>1, <2>2, <2>3 DEF RaiseInv, RemTypes, D!RaiseIsTracked, Handed
<1>4. CASE D!Begin(b)
  <2>1. [D!At("decide") EXCEPT !.last = log, !.rows = D!Rows] \in RemReads
        /\ [D!At("decide") EXCEPT !.last = log, !.rows = D!Rows].pc = "decide"
    BY DEF D!At, D!Idle, RemReads, D!Entries, D!Rows, RaiseInv, RemTypes
  <2>2. D!At("diagnose") \in RemReads /\ D!At("diagnose").pc = "diagnose"
    BY AtReads DEF RaiseInv
  <2>3. QED
    BY <1>3, <1>4, <2>1, <2>2, Zenon DEF D!Begin, D!Step
<1>5. CASE D!Dark(b) \/ D!NoDiagnosis(b)
  <2>1. PICK pc \in {"idle", "diagnose"} : D!Step(b, pc) /\ UNCHANGED <<log, task, lost>>
    BY <1>5 DEF D!Dark, D!NoDiagnosis
  <2>2. D!At(pc) \in RemReads /\ D!At(pc).pc = pc
    BY AtReads DEF RaiseInv
  <2>3. QED
    BY <1>3, <2>1, <2>2 DEF D!Step
<1>6. CASE D!Decide(b)
  <2>1. ASSUME NEW pc \in {"restore", "diagnose"}
        PROVE  D!At(pc) \in RemReads /\ D!At(pc).pc = pc
    BY AtReads DEF RaiseInv
  <2>2. ASSUME ~D!Arm(b, "diagnose")
        PROVE  /\ UNCHANGED <<log, task, lost>>
               /\ \E pc \in {"restore", "diagnose"} : D!Step(b, pc)
    BY <1>6, <2>2, Zenon DEF D!Decide
  <2>3. QED
    BY <1>2, <1>3, <2>1, <2>2 DEF D!Step
<1>7. CASE D!Diagnose(b)
  <2>1. D!At("idle") \in RemReads /\ D!At("idle").pc = "idle"
    BY AtReads DEF RaiseInv
  <2>2. QED
    BY <1>2, <1>3, <1>7, <2>1 DEF D!Diagnose, D!Step
<1>8. QED
  BY <1>4, <1>5, <1>6, <1>7

\* The hand-back, of which the entry goes last.
LEMMA HandsBackOn ==
  ASSUME RaiseInv, NEW b \in Readers, D!Restore(b) \/ D!RestoreFails(b) \/ D!Forget(b)
  PROVE  RaiseInv'
<1>1. D!At("diagnose") \in RemReads /\ D!At("diagnose").pc = "diagnose"
  BY AtReads DEF RaiseInv
<1>2. CASE D!Restore(b)
  <2>1. [D!At("forget") EXCEPT !.alone = TRUE] \in RemReads
    BY DEF D!At, D!Idle, RemReads, D!Entries
  <2>2. read' = [read EXCEPT ![b] = [D!At("forget") EXCEPT !.alone = TRUE]]
        /\ raised' = FALSE /\ lost' = FALSE /\ UNCHANGED <<log, task>>
    BY <1>2 DEF D!Restore
  <2>3. QED
    BY <2>1, <2>2 DEF RaiseInv, RemTypes, D!RaiseIsTracked, Handed
<1>3. CASE D!RestoreFails(b)
  <2>1. read' = [read EXCEPT ![b] = D!At("diagnose")] /\ raised' \in {raised, FALSE}
        /\ lost' = (lost /\ raised') /\ UNCHANGED <<log, task>>
    BY <1>3 DEF D!RestoreFails, D!Step
  <2>2. D!Busy' = D!Busy
    BY <2>1 DEF D!Busy
  <2>3. RemTypes'
    BY <1>1, <2>1 DEF RaiseInv, RemTypes
  <2>4. QED
    BY <1>1, <2>1, <2>2, <2>3 DEF RaiseInv, RemTypes, D!RaiseIsTracked, Handed
<1>4. CASE D!Forget(b)
  <2>1. read' = [read EXCEPT ![b] = D!At("diagnose")] /\ log' = None /\ UNCHANGED <<raised, task>>
        /\ lost' = (raised /\ (lost \/ ~(read[b].alone \/ D!Busy > 0)))
    BY <1>4 DEF D!Forget, D!Step
  <2>2. D!Busy' = D!Busy /\ D!Busy \in Nat
    BY <2>1 DEF D!Busy, RaiseInv, RemTypes, D!Stages
  <2>3. RemTypes'
    BY <1>1, <2>1 DEF RaiseInv, RemTypes, D!Entries
  <2>4. ASSUME raised, D!Busy = 0 PROVE lost'
    <3>1. ~read[b].alone /\ ~(D!Busy > 0)
      BY <1>4, <2>4 DEF D!Forget, RaiseInv, Handed
    <3>2. QED
      BY <2>1, <2>4, <3>1, Zenon
  <2>5. QED
    BY <1>1, <2>1, <2>2, <2>3, <2>4 DEF RaiseInv, RemTypes, D!RaiseIsTracked, Handed
<1>5. QED
  BY <1>2, <1>3, <1>4

\* The task, from its raise to the entry it ends with.
LEMMA TasksOn ==
  ASSUME RaiseInv, D!Raise \/ D!RaiseFails \/ D!Bounce \/ D!BounceFails \/ D!Finish
  PROVE  RaiseInv'
<1>1. CASE D!Finish
  <2>0. ASSUME NEW m \in RemReads
        PROVE  [m EXCEPT !.alone = FALSE] \in RemReads /\ ~[m EXCEPT !.alone = FALSE].alone
    BY DEF RemReads
  <2>1. read' \in [Readers -> RemReads] /\ \A q \in Readers : ~read'[q].alone
    BY <1>1, <2>0 DEF D!Finish, RaiseInv, RemTypes
  <2>2. task' \in [D!Stages -> Nat]
    BY <1>1 DEF D!Finish, RaiseInv, RemTypes, D!Stages
  <2>3. log' = "fresh" /\ lost' = FALSE /\ UNCHANGED raised
    BY <1>1 DEF D!Finish
  <2>4. None # "fresh"
    BY RaiseAssumption DEF D!RemediationAssumption
  <2>5. QED
    BY <2>1, <2>2, <2>3, <2>4 DEF RaiseInv, RemTypes, D!RaiseIsTracked, Handed, D!Entries
<1>2. CASE D!Raise \/ D!RaiseFails \/ D!Bounce \/ D!BounceFails
  <2>1. PICK from \in D!Stages, to \in D!Stages : from # to /\ D!Move(from, to)
    BY <1>2 DEF D!Raise, D!RaiseFails, D!Bounce, D!BounceFails, D!Stages
  <2>2. task' \in [D!Stages -> Nat] /\ D!Busy' = D!Busy /\ D!Busy > 0
    BY <2>1 DEF D!Move, RaiseInv, RemTypes, D!Stages, D!Busy
  <2>3. raised' \in BOOLEAN /\ UNCHANGED <<log, read, lost>>
    BY <1>2 DEF D!Raise, D!RaiseFails, D!Bounce, D!BounceFails, RaiseInv, RemTypes
  <2>4. RemTypes'
    BY <2>2, <2>3 DEF RaiseInv, RemTypes
  <2>5. D!RaiseIsTracked' /\ \A b \in Readers : Handed(b)'
    BY <2>2, <2>3 DEF D!RaiseIsTracked, Handed
  <2>6. QED
    BY <2>4, <2>5 DEF RaiseInv
<1>3. QED
  BY <1>1, <1>2

LEMMA NextRaiseInv ==
  ASSUME RaiseInv, D!Next PROVE RaiseInv'
<1>1. CASE D!Restart
  <2>1. D!Idle \in RemReads /\ D!Idle.pc = "idle"
    BY DEF D!Idle, RemReads, D!Entries
  <2>2. QED
    BY <1>1, <2>1 DEF D!Restart, RaiseInv, RemTypes, D!RaiseIsTracked, Handed, D!Entries
<1>2. CASE D!CooldownEnds
  <2>1. None # "old"
    BY RaiseAssumption DEF D!RemediationAssumption
  <2>2. ASSUME NEW m \in RemReads, NEW age \in D!Entries
        PROVE  /\ [m EXCEPT !.last = age] \in RemReads
               /\ [m EXCEPT !.last = age].pc = m.pc /\ [m EXCEPT !.last = age].alone = m.alone
    BY DEF RemReads
  <2>3. \A q \in Readers : \E age \in D!Entries : read'[q] = [read[q] EXCEPT !.last = age]
    BY <1>2 DEF D!CooldownEnds, D!Entries
  <2>4. /\ read' = [q \in Readers |-> read'[q]] /\ log' = "old"
        /\ UNCHANGED <<raised, task, lost>>
    BY <1>2 DEF D!CooldownEnds
  <2>5. ASSUME NEW q \in Readers
        PROVE  read'[q] \in RemReads /\ UNCHANGED <<read[q].pc, read[q].alone>>
    <3>1. read[q] \in RemReads
      BY DEF RaiseInv, RemTypes
    <3>2. PICK age \in D!Entries : read'[q] = [read[q] EXCEPT !.last = age]
      BY <2>3
    <3>3. QED
      BY <2>2, <3>1, <3>2
  <2>6. RemTypes'
    BY <2>4, <2>5 DEF RaiseInv, RemTypes, D!Entries
  <2>7. D!Busy' = D!Busy
    BY <2>4 DEF D!Busy
  <2>8. QED
    BY <2>1, <2>4, <2>5, <2>6, <2>7 DEF RaiseInv, D!RaiseIsTracked, Handed
<1>3. CASE D!FactsChange \/ \E r \in Recs : D!Recovers(r)
  BY <1>3 DEF D!FactsChange, D!Recovers, RaiseInv, RemTypes, D!RaiseIsTracked, Handed, D!Busy
<1>4. CASE D!Raise \/ D!RaiseFails \/ D!Bounce \/ D!BounceFails \/ D!Finish
  BY <1>4, TasksOn
<1>5. ASSUME NEW b \in Readers,
             D!Reading(b) \/ D!Dark(b) \/ D!RestoreFails(b) \/ D!NoDiagnosis(b)
      PROVE  RaiseInv'
  BY <1>5, ReadsOn, HandsBackOn DEF D!Reading
<1>6. QED
  BY <1>1, <1>2, <1>3, <1>4, <1>5, Zenon DEF D!Next

\* A step of the modules together is one of the remediation or leaves it alone.
LEMMA RemediationSteps ==
  ASSUME [AllNext]_allVars PROVE part' = part /\ (D!Next \/ UNCHANGED remVars)
<1>1. CASE UNCHANGED allVars
  BY <1>1 DEF allVars
<1>2. CASE ResNext
  BY <1>2 DEF ResNext, Res
<1>3. CASE MetNext
  BY <1>3 DEF MetNext, Met
<1>4. CASE RemNext
  BY <1>4 DEF RemNext, Rem, D!Next, D!Reading
<1>5. QED
  BY <1>1, <1>2, <1>3, <1>4 DEF AllNext

\* remediate_wedged_recovery and its hand-back: a raised throttle has an entry, or a task
\* that will write one, but for a restart and a task that raised and ended between the two
\* halves of a hand-back, however old the entry that a read hands back for.
THEOREM RaiseNotForgotten == AllSpec => []RaiseIsTracked
<1>1. AllInit => (part = "remediation" => RaiseInv)
  BY InitRaiseInv DEF AllInit
<1>2. (part = "remediation" => RaiseInv) /\ [AllNext]_allVars =>
        (part = "remediation" => RaiseInv)'
  <2> SUFFICES ASSUME part = "remediation" => RaiseInv, [AllNext]_allVars,
                      part' = "remediation"
               PROVE  RaiseInv'
    BY Zenon
  <2>1. part' = part /\ (D!Next \/ UNCHANGED remVars)
    BY RemediationSteps
  <2>2. CASE UNCHANGED remVars
    BY <2>1, <2>2 DEF remVars, RaiseInv, RemTypes, D!RaiseIsTracked, Handed, D!Busy
  <2>3. QED
    BY <2>1, <2>2, NextRaiseInv
<1>3. (part = "remediation" => RaiseInv) => RaiseIsTracked
  BY DEF RaiseInv, RaiseIsTracked
<1>4. QED
  BY <1>1, <1>2, <1>3, PTL DEF AllSpec
=============================================================================
