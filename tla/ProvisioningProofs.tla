------------------------- MODULE ProvisioningProofs -------------------------
(***************************************************************************)
(* What is proved of Provisioning for any sets of purposes, monitors,      *)
(* users and appliers, whatever runs at once and whatever goes wrong: type *)
(* correctness, and that no monitor is installed before a profile.  And    *)
(* that a deployment reported complete is, in every state that is reached  *)
(* in an orderly way.                                                      *)
(***************************************************************************)
EXTENDS Provisioning, TLAPS

ReqType == [pc : {"idle", "begin", "mark", "spawn", "enable", "disable", "done"},
            saves : BOOLEAN, rec : Records \cup {None}, item : Monitors \cup {None}]
TaskType == [pc : {"off", "read", "wait", "giveup", "apply"}, round : 0 .. Budgets + 1,
             want : Wants \cup {None}, rec : Records \cup {None}, todo : SUBSET Items]

\* A record that counts a profile as done was written after one was applied.
Backed(rec) == rec.done \cap Purposes # {} => installed.profile # None

\* The CR and the cluster.
CRInv ==
  /\ wanted \in Wants \cup {None}
  /\ record \in Records \cup {None} /\ (record # None => Backed(record))
  /\ installed \in [profile : Purposes \cup {None}, monitors : SUBSET Monitors]
  /\ settled \in BOOLEAN /\ troubles \in 0 .. MaxTrouble

\* What the steps of a request find: a CR there is, and a record it may write.
ReqOne(q) ==
  /\ q \in ReqType
  /\ q.pc \in {"begin", "mark", "spawn", "enable", "disable"} => wanted \in Wants
  /\ q.pc = "mark" => q.rec \in Records /\ Backed(q.rec)
  /\ q.pc \in {"enable", "disable"} => q.item \in Monitors

\* What the steps of an applier find: an attempt within the schedule, and a plan
\* whose profile is done or still to do.
TaskOne(k) ==
  /\ k \in TaskType
  /\ k.pc # "off" => wanted \in Wants
  /\ k.pc \in {"wait", "giveup", "apply"} =>
       /\ k.want \in Wants /\ k.rec \in Records /\ Backed(k.rec) /\ k.round <= Budgets
  /\ k.pc \in {"wait", "apply"} => k.rec.attempts < Budgets
  /\ k.pc = "apply" /\ k.todo # {} => k.want.purpose \in k.rec.done \cup k.todo

ReqInv  == req = [r \in Starters |-> req[r]] /\ \A r \in Starters : ReqOne(req[r])
TaskInv == task = [t \in Appliers |-> task[t]] /\ \A t \in Appliers : TaskOne(task[t])
Assumed == ProvisioningAssumption /\ NoneAssumption
IInv == Assumed /\ CRInv /\ ReqInv /\ TaskInv

\* The two histories have their types by the shape of the steps.
HistoryTyped == orderly \in BOOLEAN /\ doubled \in BOOLEAN

LEMMA IInvTypes == IInv /\ HistoryTyped => TypeOK
  BY DEF HistoryTyped, IInv, CRInv, ReqInv, TaskInv, ReqOne, TaskOne, ReqType, TaskType, TypeOK

-----------------------------------------------------------------------------
\* A CR stays, and so does having a profile: what was found then holds still.
Keeps ==
  /\ wanted \in Wants => wanted' \in Wants
  /\ installed.profile # None => installed'.profile # None

LEMMA ReqKept ==
  ASSUME ReqInv, Keeps, UNCHANGED req
  PROVE  ReqInv'
  BY DEF ReqInv, Keeps, ReqOne, Backed

LEMMA TaskKept ==
  ASSUME TaskInv, Keeps, UNCHANGED task
  PROVE  TaskInv'
  BY DEF TaskInv, Keeps, TaskOne, Backed

LEMMA ReqMoves ==
  ASSUME ReqInv, Keeps, NEW r \in Starters, NEW q,
         req' = [req EXCEPT ![r] = q], ReqOne(q)'
  PROVE  ReqInv'
<1>1. req' = [s \in Starters |-> req'[s]]
  BY DEF ReqInv
<1>2. ASSUME NEW s \in Starters PROVE ReqOne(req[s])'
  BY <1>2 DEF ReqInv, Keeps, ReqOne, Backed
<1>3. QED
  BY <1>1, <1>2 DEF ReqInv

LEMMA TaskMoves ==
  ASSUME TaskInv, Keeps, NEW t \in Appliers, NEW k,
         task' = [task EXCEPT ![t] = k], TaskOne(k)'
  PROVE  TaskInv'
<1>1. task' = [s \in Appliers |-> task'[s]]
  BY DEF TaskInv
<1>2. ASSUME NEW s \in Appliers PROVE TaskOne(task[s])'
  BY <1>2 DEF TaskInv, Keeps, TaskOne, Backed
<1>3. QED
  BY <1>1, <1>2 DEF TaskInv

\* Every record the code derives from a backed one is a backed record.
LEMMA RecordOps ==
  ASSUME Assumed, NEW rec \in Records, Backed(rec)
  PROVE  /\ Restart(rec) \in Records /\ Backed(Restart(rec))
         /\ rec.attempts < Budgets =>
              MarkFailed(rec) \in Records /\ Backed(MarkFailed(rec))
         /\ [rec EXCEPT !.exhausted = TRUE] \in Records
         /\ Backed([rec EXCEPT !.exhausted = TRUE])
<1> USE DEF Assumed, ProvisioningAssumption
<1>1. Restart(rec) \in Records /\ Restart(rec).done = rec.done
  <2>1. 0 \in 0 .. Budgets
    OBVIOUS
  <2>2. rec \in [done : SUBSET Items, attempts : 0 .. Budgets, exhausted : BOOLEAN]
    BY DEF Records
  <2>3. QED
    BY <2>1, <2>2, Zenon DEF Records, Restart
<1>2. rec.attempts < Budgets => MarkFailed(rec) \in Records
  BY DEF Records, MarkFailed
<1>3. MarkFailed(rec).done = rec.done
  BY DEF Records, MarkFailed
<1>4. /\ [rec EXCEPT !.exhausted = TRUE] \in Records
      /\ [rec EXCEPT !.exhausted = TRUE].done = rec.done
  BY DEF Records
<1>5. QED
  BY <1>1, <1>2, <1>3, <1>4 DEF Backed

LEMMA ParseOps ==
  ASSUME Assumed, CRInv
  PROVE  Parse(record) \in Records /\ Backed(Parse(record))
  BY DEF Assumed, ProvisioningAssumption, CRInv, Parse, Fresh, Records, Backed

\* A write of a backed record, landed or not, keeps the CR's part.
LEMMA WriteKeeps ==
  ASSUME Assumed, CRInv, NEW rec, rec = None \/ (rec \in Records /\ Backed(rec)), Write(rec),
         UNCHANGED <<wanted, installed, settled>>
  PROVE  CRInv' /\ Keeps
<1>1. CASE Writes(rec)
  BY <1>1 DEF Writes, CRInv, Backed, Keeps
<1>2. CASE WriteFails
  BY <1>2 DEF Assumed, ProvisioningAssumption, WriteFails, Goes, CRInv, Backed, Keeps
<1>3. QED
  BY <1>1, <1>2 DEF Write

LEMMA BlankTypes ==
  ASSUME Assumed
  PROVE
  /\ OffTask \in TaskType /\ OffTask.pc = "off"
  /\ \A n \in 0 .. Budgets + 1 : Reading(n) \in TaskType /\ Reading(n).pc = "read"
  BY DEF Assumed, ProvisioningAssumption, OffTask, Reading, Blank, TaskType

\* A blank applier asks nothing but a CR.
LEMMA BlankOne ==
  ASSUME Assumed
  PROVE
  /\ TaskOne(OffTask)'
  /\ \A n \in 0 .. Budgets + 1 : wanted' \in Wants => TaskOne(Reading(n))'
  BY BlankTypes DEF TaskOne

LEMMA InitIInv == Assumed /\ Init => IInv
<1> SUFFICES ASSUME Assumed, Init PROVE IInv
  OBVIOUS
<1>1. CRInv
  <2>1. settled \in BOOLEAN
    BY DEF Init
  <2>2. troubles \in 0 .. MaxTrouble
    BY DEF Assumed, ProvisioningAssumption, Init
  <2>3. QED
    BY <2>1, <2>2 DEF Init, CRInv
<1>2. ReqInv
  BY DEF Init, Waiting, At, ReqInv, ReqOne, ReqType
<1>3. TaskInv
  BY BlankTypes DEF Init, TaskInv, TaskOne
<1>4. QED
  BY <1>1, <1>2, <1>3 DEF IInv

-----------------------------------------------------------------------------
LEMMA NextIInv == IInv /\ [Next]_vars => IInv'
<1> SUFFICES ASSUME IInv, [Next]_vars PROVE IInv'
  OBVIOUS
<1>a. Assumed
  BY DEF IInv
<1> USE <1>a DEF Assumed, ProvisioningAssumption
<1>0. CRInv /\ ReqInv /\ TaskInv
  BY DEF IInv
<1>1. ASSUME NEW r \in Users, Save(r) PROVE IInv'
  <2>1. CRInv' /\ Keeps
    BY <1>0, <1>1 DEF Save, CRInv, Keeps, Backed, Wants
  <2>2. ReqInv'
    <3>1. PICK saves \in BOOLEAN : req' = [req EXCEPT ![r] = At("begin", saves, None, None)]
      BY <1>1 DEF Save, Starts
    <3>2. wanted' \in Wants
      BY <1>0, <1>1 DEF Save, CRInv, Wants
    <3>3. ReqOne(At("begin", saves, None, None))'
      BY <3>2 DEF At, ReqOne, ReqType
    <3>4. QED
      BY <1>0, <2>1, <3>1, <3>3, ReqMoves DEF Starters
  <2>3. TaskInv'
    BY <1>0, <1>1, <2>1, TaskKept DEF Save
  <2>9. QED
    BY <2>1, <2>2, <2>3 DEF IInv
<1>2. ASSUME NEW r \in Users, Retry(r) PROVE IInv'
  <2>1. CRInv' /\ Keeps
    BY <1>0, <1>2 DEF Retry, CRInv, Keeps, Backed
  <2>2. ReqInv'
    <3>1. PICK saves \in BOOLEAN : req' = [req EXCEPT ![r] = At("begin", saves, None, None)]
      BY <1>2 DEF Retry, Starts
    <3>2. wanted' \in Wants
      BY <1>0, <1>2 DEF Retry, CRInv
    <3>3. ReqOne(At("begin", saves, None, None))'
      BY <3>2 DEF At, ReqOne, ReqType
    <3>4. QED
      BY <1>0, <2>1, <3>1, <3>3, ReqMoves DEF Starters
  <2>3. TaskInv'
    BY <1>0, <1>2, <2>1, TaskKept DEF Retry
  <2>9. QED
    BY <2>1, <2>2, <2>3 DEF IInv
<1>3. CASE Rearm
  <2>1. CRInv' /\ Keeps
    BY <1>0, <1>3 DEF Rearm, CRInv, Keeps, Backed
  <2>2. ReqInv'
    <3>1. PICK saves \in BOOLEAN :
            req' = [req EXCEPT ![Sampler] = At("begin", saves, None, None)]
      BY <1>3 DEF Rearm, Starts
    <3>2. wanted' \in Wants
      BY <1>0, <1>3 DEF Rearm, CRInv
    <3>3. ReqOne(At("begin", saves, None, None))'
      BY <3>2 DEF At, ReqOne, ReqType
    <3>4. QED
      BY <1>0, <2>1, <3>1, <3>3, ReqMoves DEF Starters
  <2>3. TaskInv'
    BY <1>0, <1>3, <2>1, TaskKept DEF Rearm
  <2>9. QED
    BY <2>1, <2>2, <2>3 DEF IInv
<1>4. ASSUME NEW r \in Users, Toggle(r) PROVE IInv'
  <2>1. CRInv' /\ Keeps
    BY <1>0, <1>4 DEF Toggle, CRInv, Keeps, Backed
  <2>2. ReqInv'
    <3>1. PICK m \in Monitors, pc \in {"enable", "disable"}, saves \in BOOLEAN :
            req' = [req EXCEPT ![r] = At(pc, saves, None, m)]
      BY <1>4 DEF Toggle
    <3>2. wanted' \in Wants
      BY <1>0, <1>4 DEF Toggle, CRInv
    <3>3. ReqOne(At(pc, saves, None, m))'
      BY <3>2 DEF At, ReqOne, ReqType
    <3>4. QED
      BY <1>0, <2>1, <3>1, <3>3, ReqMoves DEF Starters
  <2>3. TaskInv'
    BY <1>0, <1>4, <2>1, TaskKept DEF Toggle
  <2>9. QED
    BY <2>1, <2>2, <2>3 DEF IInv
<1>5. ASSUME NEW r \in Starters, Ends(r), ReqInv, Keeps PROVE ReqInv'
  <2>1. PICK pc \in {"idle", "done"}, saves \in BOOLEAN :
          req' = [req EXCEPT ![r] = At(pc, saves, None, None)]
    BY <1>5 DEF Ends
  <2>2. ReqOne(At(pc, saves, None, None))'
    BY DEF At, ReqOne, ReqType
  <2>3. QED
    BY <1>5, <2>1, <2>2, ReqMoves
<1>6. ASSUME NEW r \in Starters, ToggleMarks(r) PROVE IInv'
  <2>0. wanted \in Wants /\ req[r].item \in Monitors
    BY <1>0, <1>6 DEF ToggleMarks, ReqInv, ReqOne
  <2>1. CRInv' /\ Keeps
    BY <1>0, <1>6, <2>0 DEF ToggleMarks, CRInv, Keeps, Backed, Wants
  <2>2. ReqInv'
    BY <1>0, <1>5, <1>6, <2>1 DEF ToggleMarks
  <2>3. TaskInv'
    BY <1>0, <1>6, <2>1, TaskKept DEF ToggleMarks
  <2>9. QED
    BY <2>1, <2>2, <2>3 DEF IInv
<1>7. ASSUME NEW r \in Starters, Begin(r) PROVE IInv'
  <2>1. CRInv' /\ Keeps
    BY <1>0, <1>7 DEF Begin, CRInv, Keeps, Backed
  <2>2. ReqInv'
    <3>1. PICK rec : rec = Restart(Parse(record))
      OBVIOUS
    <3>2. PICK q : q = [req[r] EXCEPT !.pc = "mark", !.rec = rec]
      OBVIOUS
    <3>3. rec \in Records /\ Backed(rec) /\ Backed(rec)'
      BY <1>0, <1>7, <3>1, ParseOps, RecordOps DEF Begin, Backed
    <3>4. req[r] \in ReqType /\ wanted' \in Wants
      BY <1>0, <1>7 DEF Begin, ReqInv, ReqOne
    <3>5. q \in ReqType /\ q.pc = "mark" /\ q.rec = rec
      BY <3>2, <3>3, <3>4 DEF ReqType
    <3>6. ReqOne(q)'
      BY <3>3, <3>4, <3>5 DEF ReqOne
    <3>7. req' = [req EXCEPT ![r] = q]
      BY <1>7, <3>1, <3>2 DEF Begin
    <3>8. QED
      BY <1>0, <2>1, <3>6, <3>7, ReqMoves
  <2>3. TaskInv'
    BY <1>0, <1>7, <2>1, TaskKept DEF Begin
  <2>9. QED
    BY <2>1, <2>2, <2>3 DEF IInv
<1>8. ASSUME NEW r \in Starters, req[r].pc = "mark", Keeps,
             req' = [req EXCEPT ![r].pc = "spawn"]
      PROVE  ReqInv'
  <2>0. PICK q : q = [req[r] EXCEPT !.pc = "spawn"]
    OBVIOUS
  <2>1. req[r] \in ReqType /\ wanted' \in Wants
    BY <1>0, <1>8 DEF ReqInv, ReqOne, Keeps
  <2>2. q \in ReqType /\ q.pc = "spawn"
    BY <2>0, <2>1 DEF ReqType
  <2>3. req' = [req EXCEPT ![r] = q]
    BY <1>8, <2>0
  <2>4. ReqOne(q)'
    BY <2>1, <2>2 DEF ReqOne
  <2>5. QED
    BY <1>0, <1>8, <2>3, <2>4, ReqMoves
<1>9. ASSUME NEW r \in Starters, MarkRecord(r) \/ MarkFails(r) PROVE IInv'
  <2>0. /\ req[r].pc = "mark" /\ Write(req[r].rec)
        /\ UNCHANGED <<wanted, installed, settled, task>>
        /\ req[r].rec \in Records /\ Backed(req[r].rec)
    BY <1>0, <1>9 DEF MarkRecord, MarkFails, Write, ReqInv, ReqOne
  <2>1. CRInv' /\ Keeps
    BY <1>0, <2>0, WriteKeeps
  <2>2. ReqInv'
    BY <1>0, <1>5, <1>8, <1>9, <2>0, <2>1 DEF MarkRecord, MarkFails
  <2>3. TaskInv'
    BY <1>0, <2>0, <2>1, TaskKept
  <2>9. QED
    BY <2>1, <2>2, <2>3 DEF IInv
<1>10. ASSUME NEW r \in Starters, Spawn(r) PROVE IInv'
  <2>1. CRInv' /\ Keeps
    BY <1>0, <1>10 DEF Spawn, CRInv, Keeps, Backed
  <2>2. ReqInv'
    BY <1>0, <1>5, <1>10, <2>1 DEF Spawn
  <2>3. TaskInv'
    <3>1. PICK t \in Appliers : task' = [task EXCEPT ![t] = Reading(0)]
      BY <1>10 DEF Spawn
    <3>2. TaskOne(Reading(0))'
      BY <1>0, <1>10, BlankOne DEF Spawn, ReqInv, ReqOne
    <3>3. QED
      BY <1>0, <2>1, <3>1, <3>2, TaskMoves
  <2>9. QED
    BY <2>1, <2>2, <2>3 DEF IInv
<1>11. ASSUME NEW t \in Appliers, ReadDeferred(t) PROVE IInv'
  <2>1. CRInv' /\ Keeps
    BY <1>0, <1>11 DEF ReadDeferred, CRInv, Keeps, Backed
  <2>2. ReqInv'
    BY <1>0, <1>11, <2>1, ReqKept DEF ReadDeferred
  <2>3. TaskInv'
    <3>1. PICK rec : rec = Parse(record)
      OBVIOUS
    <3>2. PICK k : k = [task[t] EXCEPT !.want = wanted, !.rec = rec,
                          !.pc = IF rec.attempts < Budgets THEN "wait" ELSE "giveup"]
      OBVIOUS
    <3>3. rec \in Records /\ Backed(rec) /\ Backed(rec)'
      BY <1>0, <1>11, <3>1, ParseOps DEF ReadDeferred, Backed
    <3>4. task[t] \in TaskType /\ task[t].round <= Budgets /\ wanted \in Wants /\ wanted' \in Wants
      BY <1>0, <1>11 DEF ReadDeferred, TaskInv, TaskOne
    <3>5. /\ k \in TaskType /\ k.want = wanted /\ k.rec = rec /\ k.round = task[t].round
          /\ (k.pc = "wait" /\ rec.attempts < Budgets) \/ k.pc = "giveup"
      BY <3>2, <3>3, <3>4 DEF TaskType
    <3>6. TaskOne(k)'
      BY <3>3, <3>4, <3>5 DEF TaskOne
    <3>7. task' = [task EXCEPT ![t] = k]
      BY <1>11, <3>1, <3>2 DEF ReadDeferred, Move
    <3>8. QED
      BY <1>0, <2>1, <3>6, <3>7, TaskMoves
  <2>9. QED
    BY <2>1, <2>2, <2>3 DEF IInv
<1>12. ASSUME NEW t \in Appliers, RunsOut(t) PROVE IInv'
  <2>1. CRInv' /\ Keeps
    BY <1>0, <1>12 DEF RunsOut, CRInv, Keeps, Backed
  <2>2. ReqInv'
    BY <1>0, <1>12, <2>1, ReqKept DEF RunsOut
  <2>3. TaskInv'
    BY <1>0, <1>12, <2>1, BlankOne, TaskMoves DEF RunsOut, Move
  <2>9. QED
    BY <2>1, <2>2, <2>3 DEF IInv
<1>13. ASSUME NEW t \in Appliers, GiveUp(t) PROVE IInv'
  <2>0. task[t].rec \in Records /\ Backed(task[t].rec)
    BY <1>0, <1>13 DEF GiveUp, TaskInv, TaskOne
  <2>1. CRInv' /\ Keeps
    BY <1>0, <1>13, <2>0, RecordOps, WriteKeeps DEF GiveUp
  <2>2. ReqInv'
    BY <1>0, <1>13, <2>1, ReqKept DEF GiveUp
  <2>3. TaskInv'
    BY <1>0, <1>13, <2>1, BlankOne, TaskMoves DEF GiveUp, Move
  <2>9. QED
    BY <2>1, <2>2, <2>3 DEF IInv
\* The end of an attempt that failed: the record counts it, the applier goes round.
<1>14. ASSUME NEW t \in Appliers, task[t].pc \in {"wait", "apply"},
              Write(MarkFailed(task[t].rec)), Move(t, Again(t)),
              UNCHANGED <<wanted, installed, settled, req>>
       PROVE  IInv'
  <2>0. /\ task[t].rec \in Records /\ Backed(task[t].rec) /\ task[t].rec.attempts < Budgets
        /\ task[t].round \in 0 .. Budgets /\ wanted' \in Wants
    BY <1>0, <1>14 DEF TaskInv, TaskOne, TaskType
  <2>1. CRInv' /\ Keeps
    BY <1>0, <1>14, <2>0, RecordOps, WriteKeeps
  <2>2. ReqInv'
    BY <1>0, <1>14, <2>1, ReqKept
  <2>3. TaskInv'
    <3>1. PICK n \in 0 .. Budgets + 1 : n = task[t].round + 1
      BY <2>0
    <3>2. TaskOne(Reading(n))'
      BY <2>0, BlankOne
    <3>3. task' = [task EXCEPT ![t] = Reading(n)]
      BY <1>14, <3>1 DEF Move, Again
    <3>4. QED
      BY <1>0, <2>1, <3>2, <3>3, TaskMoves
  <2>9. QED
    BY <2>1, <2>2, <2>3 DEF IInv
<1>15. ASSUME NEW t \in Appliers, TimesOut(t) PROVE IInv'
  BY <1>14, <1>15 DEF TimesOut
<1>16. ASSUME NEW t \in Appliers, Settles(t) PROVE IInv'
  <2>1. CRInv' /\ Keeps
    BY <1>0, <1>16 DEF Settles, CRInv, Keeps, Backed
  <2>2. ReqInv'
    BY <1>0, <1>16, <2>1, ReqKept DEF Settles
  <2>3. TaskInv'
    <3>1. PICK k : k = [task[t] EXCEPT !.pc = "apply",
                                       !.todo = Pending(task[t].rec, task[t].want)]
      OBVIOUS
    <3>2. TaskOne(task[t]) /\ task[t].pc = "wait"
      BY <1>0, <1>16 DEF Settles, TaskInv
    <3>3. /\ Pending(task[t].rec, task[t].want) \in SUBSET Items
          /\ task[t].want.purpose \in task[t].rec.done \cup Pending(task[t].rec, task[t].want)
      BY <3>2 DEF TaskOne, Pending, Wants, Items
    <3>4. /\ k \in TaskType /\ k.pc = "apply" /\ k.want = task[t].want /\ k.rec = task[t].rec
          /\ k.round = task[t].round /\ k.todo = Pending(task[t].rec, task[t].want)
      BY <3>1, <3>2, <3>3 DEF TaskOne, TaskType
    <3>5. TaskOne(k)'
      BY <1>16, <3>2, <3>3, <3>4 DEF Settles, TaskOne, Backed
    <3>6. task' = [task EXCEPT ![t] = k]
      BY <1>16, <3>1 DEF Settles, Move
    <3>7. QED
      BY <1>0, <2>1, <3>5, <3>6, TaskMoves
  <2>9. QED
    BY <2>1, <2>2, <2>3 DEF IInv
<1>17. ASSUME NEW t \in Appliers, ApplyProfile(t) PROVE IInv'
  <2>0. TaskOne(task[t]) /\ task[t].pc = "apply"
    BY <1>0, <1>17 DEF ApplyProfile, TaskInv
  <2>4. PICK p \in task[t].todo \cap Purposes : MarkDone(t, p) /\ installed'.profile = p
    BY <1>17 DEF ApplyProfile
  <2>5. installed'.profile # None
    BY <2>4 DEF Items
  <2>1. CRInv' /\ Keeps
    BY <1>0, <1>17, <2>5 DEF ApplyProfile, CRInv, Keeps, Backed
  <2>2. ReqInv'
    BY <1>0, <1>17, <2>1, ReqKept DEF ApplyProfile
  <2>3. TaskInv'
    <3>1. PICK rec : rec = WithDone(task[t].rec, p)
      OBVIOUS
    <3>2. PICK k : k = [task[t] EXCEPT !.todo = @ \ {p}, !.rec = rec]
      OBVIOUS
    <3>3. rec \in Records /\ rec.done = task[t].rec.done \cup {p}
          /\ rec.attempts = task[t].rec.attempts
      BY <2>0, <2>4, <3>1 DEF TaskOne, WithDone, Records, Items
    <3>4. Backed(rec)'
      BY <2>5 DEF Backed
    <3>5. /\ k \in TaskType /\ k.pc = "apply" /\ k.want = task[t].want /\ k.rec = rec
          /\ k.round = task[t].round /\ k.todo = task[t].todo \ {p}
      BY <2>0, <3>2, <3>3 DEF TaskOne, TaskType
    <3>6. wanted' \in Wants
      BY <2>0, <2>1 DEF TaskOne, Keeps
    <3>7. k.todo # {} => k.want.purpose \in k.rec.done \cup k.todo
      BY <2>0, <2>4, <3>3, <3>5 DEF TaskOne
    <3>8. TaskOne(k)'
      BY <2>0, <3>3, <3>4, <3>5, <3>6, <3>7 DEF TaskOne
    <3>9. task' = [task EXCEPT ![t] = k]
      BY <2>4, <3>1, <3>2 DEF MarkDone, Move
    <3>10. QED
      BY <1>0, <2>1, <3>8, <3>9, TaskMoves
  <2>9. QED
    BY <2>1, <2>2, <2>3 DEF IInv
<1>18. ASSUME NEW t \in Appliers, ApplyMonitor(t) PROVE IInv'
  <2>0. TaskOne(task[t]) /\ task[t].pc = "apply"
    BY <1>0, <1>18 DEF ApplyMonitor, TaskInv
  <2>4. PICK m \in task[t].todo \cap Monitors : MarkDone(t, m)
    BY <1>18 DEF ApplyMonitor
  <2>5. installed'.profile = installed.profile
    BY <1>0, <1>18 DEF ApplyMonitor, CRInv
  <2>1. CRInv' /\ Keeps
    BY <1>0, <1>18, <2>5 DEF ApplyMonitor, CRInv, Keeps, Backed
  <2>2. ReqInv'
    BY <1>0, <1>18, <2>1, ReqKept DEF ApplyMonitor
  <2>3. TaskInv'
    <3>1. PICK rec : rec = WithDone(task[t].rec, m)
      OBVIOUS
    <3>2. PICK k : k = [task[t] EXCEPT !.todo = @ \ {m}, !.rec = rec]
      OBVIOUS
    <3>3. rec \in Records /\ rec.done = task[t].rec.done \cup {m}
          /\ rec.attempts = task[t].rec.attempts
      BY <2>0, <2>4, <3>1 DEF TaskOne, WithDone, Records, Items
    <3>4. Backed(rec)'
      BY <2>0, <2>4, <2>5, <3>3 DEF TaskOne, Backed
    <3>5. /\ k \in TaskType /\ k.pc = "apply" /\ k.want = task[t].want /\ k.rec = rec
          /\ k.round = task[t].round /\ k.todo = task[t].todo \ {m}
      BY <2>0, <3>2, <3>3 DEF TaskOne, TaskType
    <3>6. wanted' \in Wants
      BY <2>0, <2>1 DEF TaskOne, Keeps
    <3>7. k.todo # {} => k.want.purpose \in k.rec.done \cup k.todo
      BY <2>0, <2>4, <3>3, <3>5 DEF TaskOne
    <3>8. TaskOne(k)'
      BY <2>0, <3>3, <3>4, <3>5, <3>6, <3>7 DEF TaskOne
    <3>9. task' = [task EXCEPT ![t] = k]
      BY <2>4, <3>1, <3>2 DEF MarkDone, Move
    <3>10. QED
      BY <1>0, <2>1, <3>8, <3>9, TaskMoves
  <2>9. QED
    BY <2>1, <2>2, <2>3 DEF IInv
<1>19. ASSUME NEW t \in Appliers, ItemFails(t) PROVE IInv'
  <2>0. TaskOne(task[t]) /\ task[t].pc = "apply"
    BY <1>0, <1>19 DEF ItemFails, TaskInv
  <2>1. CRInv' /\ Keeps
    BY <1>0, <1>19 DEF ItemFails, Goes, CRInv, Keeps, Backed
  <2>2. ReqInv'
    BY <1>0, <1>19, <2>1, ReqKept DEF ItemFails
  <2>3. TaskInv'
    <3>1. PICK todo : /\ todo = {} \/ task[t].todo \cap Purposes = {}
                      /\ todo \subseteq task[t].todo
                      /\ task' = [task EXCEPT ![t] = [task[t] EXCEPT !.todo = todo]]
      <4>1. CASE task[t].todo \cap Purposes # {}
        BY <1>19, <4>1 DEF ItemFails, Move
      <4>2. CASE task[t].todo \cap Purposes = {}
        BY <1>19, <4>2 DEF ItemFails, Move
      <4>3. QED
        BY <4>1, <4>2
    <3>2. PICK k : k = [task[t] EXCEPT !.todo = todo]
      OBVIOUS
    <3>3. /\ k \in TaskType /\ k.pc = "apply" /\ k.want = task[t].want /\ k.rec = task[t].rec
          /\ k.round = task[t].round /\ k.todo = todo
      BY <2>0, <3>1, <3>2 DEF TaskOne, TaskType
    <3>4. Backed(k.rec)'
      BY <1>19, <2>0, <3>3 DEF ItemFails, TaskOne, Backed
    <3>5. k.todo # {} => k.want.purpose \in k.rec.done \cup k.todo
      BY <2>0, <3>1, <3>3 DEF TaskOne, Wants
    <3>6. wanted' \in Wants
      BY <2>0, <2>1 DEF TaskOne, Keeps
    <3>7. TaskOne(k)'
      BY <2>0, <3>3, <3>4, <3>5, <3>6 DEF TaskOne
    <3>8. QED
      BY <1>0, <2>1, <3>1, <3>2, <3>7, TaskMoves
  <2>9. QED
    BY <2>1, <2>2, <2>3 DEF IInv
<1>20. ASSUME NEW t \in Appliers, PassEnds(t) PROVE IInv'
  <2>1. CASE Pending(task[t].rec, task[t].want) # {}
    BY <1>14, <1>20, <2>1 DEF PassEnds
  <2>2. CASE Pending(task[t].rec, task[t].want) = {}
    <3>1. CRInv' /\ Keeps
      BY <1>0, <1>20, <2>2, WriteKeeps DEF PassEnds
    <3>2. ReqInv'
      BY <1>0, <1>20, <3>1, ReqKept DEF PassEnds
    <3>3. TaskInv'
      BY <1>0, <1>20, <2>2, <3>1, BlankOne, TaskMoves DEF PassEnds, Move
    <3>4. QED
      BY <3>1, <3>2, <3>3 DEF IInv
  <2>3. QED
    BY <2>1, <2>2
<1>21. CASE Moves
  <2>1. CRInv' /\ Keeps
    <3>1. settled' \in BOOLEAN
      BY <1>21 DEF Moves
    <3>2. QED
      BY <1>0, <1>21, <3>1 DEF Moves, CRInv, Keeps, Backed
  <2>2. ReqInv'
    BY <1>0, <1>21, <2>1, ReqKept DEF Moves
  <2>3. TaskInv'
    BY <1>0, <1>21, <2>1, TaskKept DEF Moves
  <2>9. QED
    BY <2>1, <2>2, <2>3 DEF IInv
<1>22. CASE Crash
  <2>1. CRInv' /\ Keeps
    BY <1>0, <1>22 DEF Crash, Goes, CRInv, Keeps, Backed
  <2>2. ReqInv'
    <3>1. ASSUME NEW r \in Starters PROVE ReqOne(req[r])'
      <4>1. PICK pc \in {"idle", "done"} : req'[r] = At(pc, FALSE, None, None)
        BY <1>22, <3>1 DEF Crash, Waiting
      <4>2. ReqOne(At(pc, FALSE, None, None))'
        BY DEF At, ReqOne, ReqType
      <4>3. QED
        BY <4>1, <4>2 DEF ReqOne
    <3>2. req' = [r \in Starters |-> req'[r]]
      BY <1>22 DEF Crash
    <3>3. QED
      BY <3>1, <3>2 DEF ReqInv
  <2>3. TaskInv'
    BY <1>22, BlankOne DEF Crash, TaskInv
  <2>9. QED
    BY <2>1, <2>2, <2>3 DEF IInv
<1>23. ASSUME NEW t \in Appliers, ReadFails(t) PROVE IInv'
  <2>1. CRInv' /\ Keeps
    BY <1>0, <1>23 DEF ReadFails, Goes, CRInv, Keeps, Backed
  <2>2. ReqInv'
    BY <1>0, <1>23, <2>1, ReqKept DEF ReadFails
  <2>3. TaskInv'
    BY <1>0, <1>23, <2>1, BlankOne, TaskMoves DEF ReadFails, Move
  <2>9. QED
    BY <2>1, <2>2, <2>3 DEF IInv
<1>24. CASE UNCHANGED vars
  BY <1>0, <1>24 DEF vars, IInv, CRInv, ReqInv, TaskInv, ReqOne, TaskOne, Backed
<1>25. QED
  BY <1>1, <1>2, <1>3, <1>4, <1>6, <1>7, <1>9, <1>10, <1>11, <1>12, <1>13, <1>15, <1>16,
     <1>17, <1>18, <1>19, <1>20, <1>21, <1>22, <1>23, <1>24
  DEF Next, UserStarts, RequestGoesOn, Applier

-----------------------------------------------------------------------------
\* Each step leaves the histories or says what becomes of them, and nothing that
\* went out of order comes back into it.
LEMMA NextHistory ==
  ASSUME HistoryTyped, [Next]_vars
  PROVE  HistoryTyped' /\ (orderly' => orderly) /\ (doubled => doubled')
<1>1. ASSUME NEW wrong, Goes(wrong) PROVE orderly' \in BOOLEAN /\ (orderly' => orderly)
  BY <1>1, Zenon DEF Goes
<1>2. ASSUME InTurn PROVE orderly' \in BOOLEAN /\ (orderly' => orderly)
  BY <1>2, Zenon DEF InTurn
<1>3. ASSUME NEW rec, Write(rec)
      PROVE  HistoryTyped' /\ (orderly' => orderly) /\ (doubled => doubled')
  <2>1. CASE Writes(rec)
    <3>1. doubled' \in BOOLEAN /\ (doubled => doubled') /\ orderly' = orderly
      BY <2>1, Zenon DEF Writes
    <3>2. QED
      BY <3>1 DEF HistoryTyped
  <2>2. CASE WriteFails
    BY <1>1, <2>2 DEF WriteFails, HistoryTyped
  <2>3. QED
    BY <1>3, <2>1, <2>2 DEF Write
<1>4. CASE UNCHANGED <<orderly, doubled>>
  BY <1>4 DEF HistoryTyped
<1>5. ASSUME doubled' = doubled, orderly' \in BOOLEAN, orderly' => orderly
      PROVE  HistoryTyped' /\ (orderly' => orderly) /\ (doubled => doubled')
  BY <1>5 DEF HistoryTyped
<1>6. ASSUME orderly' = FALSE, doubled' = doubled
      PROVE  HistoryTyped' /\ (orderly' => orderly) /\ (doubled => doubled')
  BY <1>6 DEF HistoryTyped
<1>7. ASSUME NEW r \in Users, UserStarts(r)
      PROVE  HistoryTyped' /\ (orderly' => orderly) /\ (doubled => doubled')
  BY <1>2, <1>5, <1>6, <1>7 DEF UserStarts, Save, Retry, Toggle
<1>8. ASSUME NEW r \in Starters, RequestGoesOn(r)
      PROVE  HistoryTyped' /\ (orderly' => orderly) /\ (doubled => doubled')
  BY <1>3, <1>4, <1>8 DEF RequestGoesOn, ToggleMarks, Begin, MarkRecord, MarkFails, Spawn, Write
<1>9. ASSUME NEW t \in Appliers, Applier(t) \/ ItemFails(t) \/ ReadFails(t)
      PROVE  HistoryTyped' /\ (orderly' => orderly) /\ (doubled => doubled')
  <2>1. CASE GiveUp(t) \/ TimesOut(t) \/ PassEnds(t)
    BY <1>3, <2>1 DEF GiveUp, TimesOut, PassEnds
  <2>2. CASE ItemFails(t) \/ ReadFails(t)
    BY <1>1, <1>5, <2>2 DEF ItemFails, ReadFails
  <2>3. QED
    BY <1>4, <1>9, <2>1, <2>2
    DEF Applier, ReadDeferred, RunsOut, Settles, ApplyProfile, ApplyMonitor
<1>10. CASE Rearm
  BY <1>2, <1>5, <1>10 DEF Rearm
<1>11. CASE Crash
  BY <1>1, <1>5, <1>11 DEF Crash
<1>12. CASE Moves \/ UNCHANGED vars
  BY <1>4, <1>12 DEF Moves, vars
<1>13. QED
  BY <1>7, <1>8, <1>9, <1>10, <1>11, <1>12, Zenon DEF Next

\* Whatever runs at once and whatever goes wrong, the CR, the record and every
\* process stay of their types; in particular an applier's rounds stay within the
\* schedule of SETTLE_BUDGETS, and the attempts a record counts do too.
THEOREM TypeCorrect ==
  ASSUME Assumed
  PROVE  Spec => []TypeOK
<1>1. Init => IInv /\ HistoryTyped
  BY InitIInv DEF Init, HistoryTyped
<1>2. IInv /\ HistoryTyped /\ [Next]_vars => (IInv /\ HistoryTyped)'
  BY NextIInv, NextHistory
<1>3. IInv /\ HistoryTyped => TypeOK
  BY IInvTypes
<1>4. QED
  BY <1>1, <1>2, <1>3, PTL DEF Spec

\* An applier that comes to a monitor has its plan's profile done, by its record.
LEMMA MonitorNeedsProfile ==
  ASSUME IInv, NEW t \in Appliers, ApplyMonitor(t)
  PROVE  installed.profile # None
<1>1. TaskOne(task[t]) /\ task[t].pc = "apply" /\ task[t].todo # {}
      /\ task[t].todo \cap Purposes = {}
  BY DEF ApplyMonitor, IInv, TaskInv
<1>2. task[t].want.purpose \in task[t].rec.done \cap Purposes
  BY <1>1 DEF TaskOne, Wants
<1>3. QED
  BY <1>1, <1>2 DEF TaskOne, Backed

\* No step of an applier installs a monitor on a cluster that never got a profile,
\* though the record an applier trusts may be another's, stale or overwritten.
THEOREM ProfileComesFirst ==
  ASSUME Assumed
  PROVE  Spec => MonitorsAfterProfile
<1>1. Init => IInv
  BY InitIInv
<1>2. IInv /\ [Next]_vars => IInv'
  BY NextIInv
<1>3. IInv /\ [Next]_vars =>
        [(\E t \in Appliers : ApplyMonitor(t)) => installed.profile # None]_vars
  BY MonitorNeedsProfile
<1>4. QED
  BY <1>1, <1>2, <1>3, PTL DEF Spec, MonitorsAfterProfile

-----------------------------------------------------------------------------
(* What a deployment reports as complete, as long as what came was orderly: then  *)
(* there is nobody, one request or one applier, and what a record counts as done   *)
(* is on the cluster.                                                              *)

Busy(r) == req[r].pc \notin {"idle", "done"}
On(t) == task[t].pc # "off"
NoRequest == \A r \in Starters : ~Busy(r)
NoApplier == \A t \in Appliers : ~On(t)

\* What a record counts as done is on the cluster.
Faithful(rec) ==
  /\ Search \notin rec.done /\ rec.done \cap Monitors \subseteq installed.monitors
  /\ \A p \in rec.done \cap Purposes : installed.profile = p \/ doubled

\* An applier has applied the profile in this pass: the record on the CR does not
\* have it yet and may still count another, or monitors that search took away.
Afresh(k) ==
  /\ k.pc = "apply" /\ installed.profile = wanted.purpose
  /\ wanted.purpose \in k.rec.done /\ wanted.purpose \notin record.done
  /\ wanted.purpose = Search => k.todo = {}
  /\ wanted.purpose # Search =>
       Search \notin k.rec.done /\ k.rec.done \cap Monitors \subseteq installed.monitors

Applied ==
  /\ installed.profile = wanted.purpose \/ doubled
  /\ wanted.monitors \subseteq installed.monitors

\* Search carries no monitors, and what is on the CR does not ask for search.
Base ==
  /\ wanted # None => (wanted.purpose = Search => wanted.monitors = {})
  /\ record # None => Search \notin record.done

Resting ==
  /\ NoRequest /\ NoApplier /\ Base
  /\ record # None => Faithful(record)
  /\ record = None => (wanted # None => Applied)

Requesting(r) ==
  /\ Busy(r) /\ \A s \in Starters \ {r} : ~Busy(s)
  /\ NoApplier /\ Base
  /\ record # None => Faithful(record)
  /\ req[r].pc \in {"begin", "mark", "spawn"}
  /\ req[r].pc = "mark" => req[r].rec.done = Parse(record).done
  /\ req[r].pc = "spawn" => record # None

\* An applier works on what is on the CR.
Task(k) ==
  /\ k.pc \in {"wait", "giveup"} => k.want = wanted /\ k.rec = record
  /\ k.pc = "apply" => k.want = wanted /\ k.todo \subseteq Pending(k.rec, wanted)
  /\ \/ /\ Faithful(record)
        /\ k.pc = "apply" => Faithful(k.rec) /\ record.done \cap Purposes \subseteq k.rec.done
     \/ Afresh(k)

Applying(t) ==
  /\ NoRequest /\ On(t) /\ \A k \in Appliers \ {t} : ~On(k)
  /\ Base /\ record # None
  /\ Task(task[t])

\* One at a time: nobody, one request, or one applier.
SerialInv ==
  Resting \/ (\E r \in Starters : Requesting(r)) \/ (\E t \in Appliers : Applying(t))

OrderlyInv == orderly => SerialInv

LEMMA InitSerial == Init => SerialInv
  BY DEF Init, Waiting, At, OffTask, Blank, SerialInv, Resting, NoRequest, NoApplier, Busy, On,
         Base

\* A request starts when nothing is running.
LEMMA StartsRequesting ==
  ASSUME AtRest, IInv, SerialInv, NEW r \in Starters, NEW saves, Starts(r, saves),
         UNCHANGED <<record, installed, task, doubled>>,
         wanted' # None => (wanted'.purpose = Search => wanted'.monitors = {})
  PROVE  SerialInv'
<1>1. Resting
  BY DEF AtRest, SerialInv, Requesting, Applying, Busy, On
<1>2. req' = [req EXCEPT ![r] = At("begin", saves, None, None)] /\ req = [s \in Starters |-> req[s]]
  BY DEF Starts, IInv, ReqInv
<1>3. req'[r].pc = "begin" /\ \A s \in Starters \ {r} : req'[s] = req[s]
  BY <1>2 DEF At
<1>4. Requesting(r)'
  BY <1>1, <1>3
  DEF Resting, Requesting, NoRequest, NoApplier, Busy, On, Base, Faithful
<1>5. QED
  BY <1>4 DEF SerialInv

LEMMA RequestStaysSerial ==
  ASSUME orderly', IInv, SerialInv, NEW r \in Starters, RequestGoesOn(r)
  PROVE  SerialInv'
<1>1. Requesting(r)
  BY DEF RequestGoesOn, ToggleMarks, Begin, MarkRecord, MarkFails, Spawn, SerialInv, Resting,
         Applying, Requesting, NoRequest, Busy
<1>2. req = [s \in Starters |-> req[s]] /\ task = [t \in Appliers |-> task[t]]
      /\ req[r] \in ReqType /\ CRInv /\ (req[r].pc = "mark" => req[r].rec \in Records)
  BY DEF IInv, ReqInv, ReqOne, TaskInv
<1>3. CASE Begin(r)
  <2>1. /\ req'[r].pc = "mark" /\ req'[r].rec = Restart(Parse(record))
        /\ \A s \in Starters \ {r} : req'[s] = req[s]
    BY <1>2, <1>3 DEF Begin, ReqType
  <2>2. Restart(Parse(record)).done = Parse(record).done
    BY <1>2, ParseOps DEF IInv, Restart, Records
  <2>3. req'[r].rec.done = Parse(record)'.done /\ UNCHANGED <<wanted, record, installed, task, doubled>>
    BY <1>3, <2>1, <2>2 DEF Begin, Parse
  <2>4. Requesting(r)'
    BY <1>1, <2>1, <2>3 DEF Requesting, NoApplier, Busy, On, Base, Faithful
  <2>5. QED
    BY <2>4 DEF SerialInv
<1>4. CASE MarkRecord(r)
  <2>1. req'[r].pc = "spawn" /\ \A s \in Starters \ {r} : req'[s] = req[s]
    BY <1>2, <1>4 DEF MarkRecord, ReqType
  <2>2. record' = req[r].rec /\ record'.done = Parse(record).done /\ record' # None
    BY <1>1, <1>2, <1>4 DEF IInv, Assumed, NoneAssumption, MarkRecord, Writes, Requesting
  <2>6. doubled => doubled'
    BY <1>4, Zenon DEF MarkRecord, Writes
  <2>3. Search \notin Parse(record).done /\ Faithful(Parse(record))
    BY <1>1 DEF Requesting, Base, Parse, Fresh, Faithful
  <2>4. Requesting(r)'
    BY <1>1, <1>4, <2>1, <2>2, <2>3, <2>6
    DEF MarkRecord, Requesting, NoApplier, Busy, On, Base, Faithful
  <2>5. QED
    BY <2>4 DEF SerialInv
<1>5. CASE Spawn(r)
  <2>1. PICK t \in Appliers : task' = [task EXCEPT ![t] = Reading(0)]
    BY <1>5 DEF Spawn
  <2>2. task'[t] = Reading(0) /\ \A k \in Appliers \ {t} : task'[k] = task[k]
    BY <1>2, <2>1
  <2>3. req'[r].pc \in {"idle", "done"} /\ \A s \in Starters \ {r} : req'[s] = req[s]
    BY <1>2, <1>5 DEF Spawn, Ends, At
  <2>4. Applying(t)'
    BY <1>1, <1>5, <2>2, <2>3
    DEF Spawn, Requesting, Applying, NoRequest, NoApplier, Busy, On, Base, Faithful, Task,
        Reading, Blank
  <2>5. QED
    BY <2>4 DEF SerialInv
<1>6. ~ToggleMarks(r) /\ ~MarkFails(r)
  BY <1>1 DEF ToggleMarks, Requesting, MarkFails, WriteFails, Goes
<1>7. QED
  BY <1>3, <1>4, <1>5, <1>6 DEF RequestGoesOn

\* The one applier moves, and stays on what is on the CR.
LEMMA TaskMovesSerial ==
  ASSUME IInv, NEW t \in Appliers, Applying(t), NEW k, task' = [task EXCEPT ![t] = k],
         UNCHANGED <<wanted, req>>, k.pc # "off",
         record' # None, Search \notin record'.done, Task(k)'
  PROVE  SerialInv'
<1>1. task'[t] = k /\ \A j \in Appliers \ {t} : task'[j] = task[j]
  BY DEF IInv, TaskInv
<1>2. Applying(t)'
  BY <1>1 DEF Applying, NoRequest, Busy, On, Base, Task, Afresh, Faithful, Pending
<1>3. QED
  BY <1>2 DEF SerialInv

\* It ends, and leaves a faithful record or nothing owed.
LEMMA TaskEndsSerial ==
  ASSUME IInv, NEW t \in Appliers, Applying(t), task' = [task EXCEPT ![t] = OffTask],
         UNCHANGED <<wanted, req>>,
         record' # None => Faithful(record)',
         record' = None => Applied'
  PROVE  SerialInv'
<1>1. task'[t] = OffTask /\ \A j \in Appliers \ {t} : task'[j] = task[j]
  BY DEF IInv, TaskInv
<1>2. Resting'
  BY <1>1
  DEF Applying, Resting, NoRequest, NoApplier, Busy, On, Base, OffTask, Blank, Faithful, Applied
<1>3. QED
  BY <1>2 DEF SerialInv

LEMMA ApplierStaysSerial ==
  ASSUME orderly', IInv, SerialInv, NEW t \in Appliers, Applier(t) \/ ItemFails(t) \/ ReadFails(t)
  PROVE  SerialInv'
<1>a. Assumed
  BY DEF IInv
<1> USE <1>a DEF Assumed, ProvisioningAssumption
<1>1. Applying(t)
  BY DEF Applier, ItemFails, ReadFails, ReadDeferred, RunsOut, GiveUp, TimesOut, Settles,
         ApplyProfile, ApplyMonitor, PassEnds, SerialInv, Resting, Requesting, Applying,
         NoApplier, On
<1>2. CRInv /\ TaskOne(task[t]) /\ task[t] \in TaskType /\ record \in Records
  BY <1>1 DEF IInv, TaskInv, TaskOne, Applying, CRInv
\* Nothing but items fails: every write lands.
<1>3. ASSUME NEW rec, Write(rec)
      PROVE  /\ record' = rec /\ (doubled => doubled')
             /\ \A p, q \in Parse(rec).done \cap Purposes : p = q \/ doubled'
  <2>1. Writes(rec)
    BY <1>3 DEF Write, WriteFails, Goes
  <2>2. QED
    BY <2>1, Zenon DEF Writes
<1>4. CASE ReadDeferred(t)
  <2>1. PICK k : /\ task' = [task EXCEPT ![t] = k]
                 /\ k = [task[t] EXCEPT !.want = wanted, !.rec = record,
                          !.pc = IF record.attempts < Budgets THEN "wait" ELSE "giveup"]
    BY <1>1, <1>4 DEF ReadDeferred, Move, Applying, Parse
  <2>2. k.pc \in {"wait", "giveup"} /\ k.want = wanted /\ k.rec = record
    BY <1>2, <2>1 DEF TaskType
  <2>3. Faithful(record) /\ Search \notin record.done
    BY <1>1, <1>4 DEF Applying, Task, ReadDeferred, Afresh, Base
  <2>4. Task(k)'
    BY <1>4, <2>2, <2>3 DEF Task, ReadDeferred, Faithful
  <2>5. QED
    BY <1>1, <1>4, <2>1, <2>2, <2>3, <2>4, TaskMovesSerial DEF ReadDeferred, Applying
<1>5. CASE RunsOut(t)
  BY <1>1, <1>5, TaskEndsSerial DEF RunsOut, Move, Applying, Task, Afresh, Faithful
<1>6. CASE GiveUp(t)
  <2>1. Faithful(record) /\ task[t].rec = record
    BY <1>1, <1>6 DEF GiveUp, Applying, Task, Afresh
  <2>2. record' = [record EXCEPT !.exhausted = TRUE] /\ (doubled => doubled')
    BY <1>3, <1>6, <2>1 DEF GiveUp
  <2>3. record' \in Records /\ record'.done = record.done
    BY <1>2, <2>2 DEF Records
  <2>4. Faithful(record)' /\ record' # None
    BY <1>6, <2>1, <2>2, <2>3 DEF NoneAssumption, Faithful, GiveUp
  <2>5. QED
    BY <1>1, <1>6, <2>4, TaskEndsSerial DEF GiveUp, Move
\* A failed attempt: the record is the applier's, but for the count.  If that counts
\* the profile just applied and another, two were counted.
<1>7. ASSUME Write(MarkFailed(task[t].rec)), Move(t, Again(t)), task[t].rec \in Records,
             task[t].rec.attempts < Budgets, Search \notin task[t].rec.done,
             task[t].rec.done \cap Monitors \subseteq installed.monitors,
             \/ \A p \in task[t].rec.done \cap Purposes : installed.profile = p \/ doubled
             \/ installed.profile \in task[t].rec.done \cap Purposes,
             UNCHANGED <<wanted, installed, settled, req>>
      PROVE  SerialInv'
  <2>1. record' = MarkFailed(task[t].rec)
    BY <1>3, <1>7
  <2>2. record' \in Records /\ record'.done = task[t].rec.done
    BY <1>7, <2>1 DEF MarkFailed, Records
  <2>9. record' # None /\ Parse(record') = record'
    BY <2>2 DEF NoneAssumption, Parse
  <2>10. /\ doubled => doubled'
         /\ \A p, q \in task[t].rec.done \cap Purposes : p = q \/ doubled'
    BY <1>3, <1>7, <2>1, <2>2, <2>9
  <2>11. \A p \in task[t].rec.done \cap Purposes : installed.profile = p \/ doubled'
    BY <1>7, <2>10
  <2>3. Faithful(record)' /\ record' # None /\ Search \notin record'.done
    BY <1>7, <2>2, <2>9, <2>11 DEF Faithful
  <2>4. Again(t).pc = "read"
    BY DEF Again, Reading, Blank
  <2>5. task' = [task EXCEPT ![t] = Again(t)] /\ UNCHANGED <<wanted, req>>
    BY <1>7 DEF Move
  <2>6. PICK k : k = Again(t)
    OBVIOUS
  <2>7. Task(k)'
    BY <2>3, <2>4, <2>6 DEF Task
  <2>8. QED
    BY <1>1, <2>3, <2>4, <2>5, <2>6, <2>7, TaskMovesSerial
<1>8. CASE TimesOut(t)
  <2>1. Faithful(record) /\ task[t].rec = record /\ task[t].rec.attempts < Budgets
    BY <1>1, <1>2, <1>8 DEF TimesOut, Applying, Task, Afresh, TaskOne
  <2>2. QED
    BY <1>2, <1>7, <1>8, <2>1 DEF TimesOut, Faithful
<1>9. CASE Settles(t)
  <2>0. PICK todo : todo = Pending(task[t].rec, task[t].want)
    OBVIOUS
  <2>1. PICK k : /\ task' = [task EXCEPT ![t] = k]
                 /\ k = [task[t] EXCEPT !.pc = "apply", !.todo = todo]
    BY <1>9, <2>0 DEF Settles, Move
  <2>2. /\ k.pc = "apply" /\ k.want = task[t].want /\ k.rec = task[t].rec /\ k.todo = todo
    BY <1>2, <2>1 DEF TaskType
  <2>3. Faithful(record) /\ task[t].rec = record /\ task[t].want = wanted
        /\ Search \notin record.done
    BY <1>1, <1>9 DEF Applying, Task, Settles, Afresh, Base
  <2>4. Task(k)'
    BY <1>9, <2>0, <2>2, <2>3 DEF Task, Settles, Faithful, Pending
  <2>5. QED
    BY <1>1, <1>9, <2>1, <2>2, <2>3, <2>4, TaskMovesSerial DEF Settles, Applying
\* In the pass itself.
<1>10. task[t].pc = "apply" => /\ wanted \in Wants /\ task[t].want = wanted
                               /\ task[t].rec \in Records /\ task[t].rec.attempts < Budgets
                               /\ task[t].todo \subseteq Pending(task[t].rec, wanted)
                               /\ wanted.purpose = Search => wanted.monitors = {}
                               /\ Search \notin record.done /\ record # None
  BY <1>1, <1>2 DEF NoneAssumption, TaskOne, Applying, Task, Base
<1>11. CASE ApplyProfile(t)
  <2>0. PICK p \in task[t].todo \cap Purposes :
          /\ MarkDone(t, p)
          /\ installed' = [profile  |-> p,
                           monitors |-> IF p = Search THEN {} ELSE installed.monitors]
    BY <1>11 DEF ApplyProfile
  <2>1. p = wanted.purpose /\ p \notin task[t].rec.done /\ task[t].pc = "apply"
    BY <1>10, <1>11, <2>0 DEF ApplyProfile, Pending, Wants
  <2>2. /\ Faithful(task[t].rec) /\ p \notin record.done
        /\ UNCHANGED <<wanted, record, req, doubled>>
    BY <1>1, <1>10, <1>11, <2>1
    DEF ApplyProfile, Applying, Task, Afresh, Pending, Wants
  <2>3. PICK rec : rec = WithDone(task[t].rec, p)
    OBVIOUS
  <2>4. PICK k : /\ task' = [task EXCEPT ![t] = k]
                 /\ k = [task[t] EXCEPT !.todo = @ \ {p}, !.rec = rec]
    BY <2>0, <2>3 DEF MarkDone, Move
  <2>5. rec.done = task[t].rec.done \cup {p}
    BY <1>10, <2>1, <2>3 DEF WithDone, Records
  <2>6. k.pc = "apply" /\ k.want = wanted /\ k.rec = rec /\ k.todo = task[t].todo \ {p}
    BY <1>2, <1>10, <2>1, <2>4 DEF TaskType
  <2>7. k.todo \subseteq Pending(k.rec, wanted)
    BY <1>10, <2>1, <2>5, <2>6 DEF Pending
  <2>8. CASE p = Search
    <3>1. k.todo = {}
      BY <1>10, <2>1, <2>6, <2>8 DEF Pending
    <3>2. Afresh(k)'
      BY <2>0, <2>1, <2>2, <2>5, <2>6, <2>8, <3>1 DEF Afresh
    <3>3. Task(k)'
      BY <2>2, <2>6, <2>7, <3>2 DEF Task, Pending
    <3>4. QED
      BY <1>1, <1>10, <2>1, <2>2, <2>4, <2>6, <3>3, TaskMovesSerial
  <2>9. CASE p # Search
    <3>1. installed'.profile = p /\ installed'.monitors = installed.monitors
      BY <2>0, <2>9
    <3>2. rec.done \cap Monitors = task[t].rec.done \cap Monitors
      BY <2>1, <2>5, <1>10 DEF Wants
    <3>3. Search \notin rec.done /\ rec.done \cap Monitors \subseteq installed'.monitors
      BY <2>2, <2>5, <2>9, <3>1, <3>2 DEF Faithful
    <3>4. Afresh(k)'
      BY <2>1, <2>2, <2>5, <2>6, <2>9, <3>1, <3>3 DEF Afresh
    <3>5. Task(k)'
      BY <2>2, <2>6, <2>7, <3>4 DEF Task, Pending
    <3>6. QED
      BY <1>1, <1>10, <2>1, <2>2, <2>4, <2>6, <3>5, TaskMovesSerial
  <2>10. QED
    BY <2>8, <2>9
<1>12. CASE ApplyMonitor(t)
  <2>0. PICK m \in task[t].todo \cap Monitors :
          /\ MarkDone(t, m)
          /\ installed' = [installed EXCEPT !.monitors = @ \cup {m}]
    BY <1>12 DEF ApplyMonitor
  <2>1. m \in wanted.monitors /\ task[t].pc = "apply"
    BY <1>10, <1>12, <2>0 DEF ApplyMonitor, Pending, Wants
  <2>2. UNCHANGED <<wanted, record, req, doubled>>
    BY <1>12 DEF ApplyMonitor
  <2>3. PICK rec : rec = WithDone(task[t].rec, m)
    OBVIOUS
  <2>4. PICK k : /\ task' = [task EXCEPT ![t] = k]
                 /\ k = [task[t] EXCEPT !.todo = @ \ {m}, !.rec = rec]
    BY <2>0, <2>3 DEF MarkDone, Move
  <2>5. rec.done = task[t].rec.done \cup {m}
    BY <1>10, <2>1, <2>3 DEF WithDone, Records
  <2>6. k.pc = "apply" /\ k.want = wanted /\ k.rec = rec /\ k.todo = task[t].todo \ {m}
    BY <1>2, <1>10, <2>1, <2>4 DEF TaskType
  <2>7. k.todo \subseteq Pending(k.rec, wanted)
    BY <1>10, <2>1, <2>5, <2>6 DEF Pending
  <2>8. installed'.profile = installed.profile
        /\ installed'.monitors = installed.monitors \cup {m}
    BY <1>2, <2>0 DEF CRInv
  <2>9. m \notin Purposes /\ m # Search
    BY <2>0
  <2>10. ASSUME Afresh(task[t]) PROVE Task(k)'
    <3>1. wanted.purpose # Search
      BY <2>0, <2>10 DEF Afresh
    <3>2. Afresh(k)'
      BY <2>2, <2>5, <2>6, <2>8, <2>9, <2>10, <3>1 DEF Afresh
    <3>3. QED
      BY <2>2, <2>6, <2>7, <3>2 DEF Task, Pending
  <2>11. ASSUME Faithful(record), Faithful(task[t].rec),
                record.done \cap Purposes \subseteq task[t].rec.done
         PROVE  Task(k)'
    <3>1. Faithful(rec)' /\ Faithful(record)'
      BY <2>2, <2>5, <2>8, <2>9, <2>11 DEF Faithful
    <3>2. QED
      BY <2>2, <2>5, <2>6, <2>7, <2>11, <3>1 DEF Task, Pending
  <2>12. Task(k)'
    BY <1>1, <2>1, <2>10, <2>11 DEF Applying, Task
  <2>13. QED
    BY <1>1, <1>10, <2>1, <2>2, <2>4, <2>6, <2>12, TaskMovesSerial
<1>13. CASE ItemFails(t)
  <2>1. PICK todo : /\ todo \subseteq task[t].todo
                    /\ task' = [task EXCEPT ![t] = [task[t] EXCEPT !.todo = todo]]
    <3>1. CASE task[t].todo \cap Purposes # {}
      BY <1>13, <3>1 DEF ItemFails, Move
    <3>2. CASE task[t].todo \cap Purposes = {}
      BY <1>13, <3>2 DEF ItemFails, Move
    <3>3. QED
      BY <3>1, <3>2
  <2>2. PICK k : k = [task[t] EXCEPT !.todo = todo]
    OBVIOUS
  <2>3. /\ k.pc = "apply" /\ k.want = task[t].want /\ k.rec = task[t].rec /\ k.todo = todo
        /\ task[t].pc = "apply"
    BY <1>2, <1>13, <2>2 DEF TaskType, ItemFails
  <2>4. Task(k)'
    BY <1>1, <1>13, <2>1, <2>3 DEF Applying, Task, ItemFails, Faithful, Afresh, Pending
  <2>5. QED
    BY <1>1, <1>10, <1>13, <2>1, <2>2, <2>3, <2>4, TaskMovesSerial DEF ItemFails
<1>14. CASE PassEnds(t)
  <2>0. task[t].pc = "apply"
    BY <1>14 DEF PassEnds
  <2>1. CASE Pending(task[t].rec, task[t].want) # {}
    <3>1. wanted.purpose # Search \/ ~Afresh(task[t])
      BY <1>10, <2>0, <2>1 DEF Afresh, Pending
    <3>2. /\ Search \notin task[t].rec.done
          /\ task[t].rec.done \cap Monitors \subseteq installed.monitors
          /\ \/ \A p \in task[t].rec.done \cap Purposes : installed.profile = p \/ doubled
             \/ installed.profile \in task[t].rec.done \cap Purposes
      BY <1>1, <1>10, <2>0, <3>1 DEF Applying, Task, Afresh, Faithful, Wants
    <3>3. QED
      BY <1>7, <1>10, <1>14, <2>0, <2>1, <3>2 DEF PassEnds
  <2>2. CASE Pending(task[t].rec, task[t].want) = {}
    <3>1. record' = None /\ task' = [task EXCEPT ![t] = OffTask]
          /\ UNCHANGED <<wanted, req, installed>>
      BY <1>3, <1>14, <2>2 DEF PassEnds, Move
    <3>2. wanted.purpose \in task[t].rec.done /\ wanted.monitors \subseteq task[t].rec.done
      BY <1>10, <2>0, <2>2 DEF Pending
    <3>3. Applied
      <4>1. CASE Afresh(task[t])
        BY <1>10, <2>0, <3>2, <4>1 DEF Afresh, Applied, Wants
      <4>2. CASE Faithful(task[t].rec)
        BY <1>10, <2>0, <3>2, <4>2 DEF Faithful, Applied, Wants
      <4>3. QED
        BY <1>1, <2>0, <4>1, <4>2 DEF Applying, Task
    <3>4. Applied'
      BY <1>3, <1>14, <2>2, <3>1, <3>3 DEF Applied, PassEnds
    <3>5. QED
      BY <1>1, <3>1, <3>4, TaskEndsSerial
  <2>3. QED
    BY <2>1, <2>2
<1>15. ~ReadFails(t)
  BY DEF ReadFails, Goes
<1>16. QED
  BY <1>4, <1>5, <1>6, <1>8, <1>9, <1>11, <1>12, <1>13, <1>14, <1>15 DEF Applier

LEMMA NextSerial ==
  ASSUME IInv, HistoryTyped, OrderlyInv, [Next]_vars
  PROVE  OrderlyInv'
<1> SUFFICES ASSUME orderly' PROVE SerialInv'
  BY DEF OrderlyInv
<1>1. SerialInv /\ Base
  BY NextHistory DEF OrderlyInv, SerialInv, Resting, Requesting, Applying
<1>2. ASSUME InTurn PROVE AtRest
  BY <1>2 DEF InTurn
<1>3. ASSUME NEW r \in Users, UserStarts(r) PROVE SerialInv'
  <2>1. CASE Save(r)
    <3>1. InTurn /\ (wanted'.purpose = Search => wanted'.monitors = {})
      BY <2>1 DEF Save
    <3>2. QED
      BY <1>1, <1>2, <2>1, <3>1, StartsRequesting DEF Save, Starters
  <2>2. CASE Retry(r)
    BY <1>1, <1>2, <2>2, StartsRequesting DEF Retry, Starters, Base
  <2>3. QED
    BY <1>3, <2>1, <2>2 DEF UserStarts, Toggle
<1>4. CASE Rearm
  BY <1>1, <1>2, <1>4, StartsRequesting DEF Rearm, Starters, Base
<1>5. ~Crash
  BY DEF Crash, Goes
<1>6. CASE UNCHANGED <<wanted, record, installed, req, task, doubled>>
  BY <1>1, <1>6
  DEF SerialInv, Resting, Requesting, Applying, NoRequest, NoApplier, Busy, On, Base, Faithful,
      Applied, Task, Afresh, Parse, Pending
<1>7. QED
  BY <1>1, <1>3, <1>4, <1>5, <1>6, RequestStaysSerial, ApplierStaysSerial DEF Next, Moves, vars

LEMMA SerialComplete ==
  ASSUME IInv, SerialInv, wanted # None, Reported = "complete", NoRequest
  PROVE  Applied
<1>a. Assumed
  BY DEF IInv
<1> USE <1>a DEF Assumed, ProvisioningAssumption
<1>1. CASE record = None
  BY <1>1 DEF SerialInv, Resting, Requesting, Applying, NoRequest
<1>2. CASE record # None
  <2>1. wanted \in Wants /\ record \in Records /\ CRInv
    BY <1>2 DEF IInv, CRInv
  <2>2. Pending(record, wanted) = {}
    BY <1>2 DEF Reported
  <2>3. wanted.purpose \in record.done /\ wanted.monitors \subseteq record.done
    BY <2>2 DEF Pending
  <2>5. Faithful(record)
    BY <1>2, <2>3 DEF SerialInv, Resting, Requesting, Applying, NoRequest, Task, Afresh
  <2>6. QED
    BY <2>1, <2>3, <2>5 DEF Faithful, Applied, Wants
<1>3. QED
  BY <1>1, <1>2

\* A deployment reported complete, with no request under way, has every monitor it
\* selected, however its requests, retries, re-arms and failed items followed each
\* other; and the profile of its purpose, unless a record on the way counted two
\* (which PurposeIsOwed shows to happen).  Of the steps nothing is left out: the
\* claim is about the states no overlap, toggle, failed call or restart has led to.
THEOREM CompleteMeansApplied ==
  ASSUME Assumed
  PROVE  Spec => []CompleteIsApplied
<1>1. Init => IInv /\ HistoryTyped /\ OrderlyInv
  BY InitIInv, InitSerial DEF Init, HistoryTyped, OrderlyInv
<1>2. IInv /\ HistoryTyped /\ OrderlyInv /\ [Next]_vars => (IInv /\ HistoryTyped /\ OrderlyInv)'
  BY NextIInv, NextHistory, NextSerial
<1>3. IInv /\ OrderlyInv => CompleteIsApplied
  BY SerialComplete DEF OrderlyInv, CompleteIsApplied, Applied, NoRequest, Busy
<1>4. QED
  BY <1>1, <1>2, <1>3, PTL DEF Spec
=============================================================================
