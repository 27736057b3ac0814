-------------------------- MODULE DashboardsProofs --------------------------
(***************************************************************************)
(* What is proved of what writes to Dashboards: of DashboardsHold for any  *)
(* number of samplers and saves, and of OtelStack for any inventory, any   *)
(* number of requests, and any kinds of trouble.                           *)
(***************************************************************************)
EXTENDS OtelStack, MCDashboardsHold, TLAPS

(* DashboardsHold.                                                          *)

\* A writer whose version is still current has read what the CR says, and a clear
\* was decided on a CR that was not at zero; deciding nothing is no write.
FreshWriter(p) ==
  poll[p].fresh =>
    /\ exists /\ held
    /\ poll[p].pc = "read" => poll[p].stored = replicas
    /\ poll[p].pc = "patch" =>
         poll[p].step # "nothing" /\ (poll[p].step = "clear" => replicas # 0)
FreshWriters == \A p \in H!Pollers : FreshWriter(p)

\* What a save carries is itself no orphan zero.
SavesCarryHold == \A s \in Saves : save[s].replicas = 0 => save[s].held

HoldInv == H!TypeOK /\ H!NoOrphanZero /\ FreshWriters /\ SavesCarryHold

\* Off and Idle are records of a poller.
PollerType == [pc : {"off", "idle", "reread", "read", "patch"}, stored : {0, 1}, fresh : BOOLEAN,
             due : BOOLEAN, step : {"nothing", "clear", "release", "enforce"}]

LEMMA RestingTypes ==
  /\ H!Off \in PollerType /\ ~H!Off.fresh /\ H!Off.pc = "off"
  /\ H!Idle \in PollerType /\ ~H!Idle.fresh
<1>1. H!Off \in PollerType /\ ~H!Off.fresh /\ H!Off.pc = "off"
  BY DEF H!Off, PollerType
<1>2. H!Idle \in PollerType /\ ~H!Idle.fresh
  BY <1>1 DEF H!Idle, PollerType
<1>3. QED
  BY <1>1, <1>2

\* A write of the CR leaves no writer fresh, and is of the right type.
LEMMA WriteForgets ==
  ASSUME H!TypeOK, NEW h \in BOOLEAN, NEW n \in {0, 1}, H!WriteCR(h, n), n = 0 => h
  PROVE  /\ held' \in BOOLEAN /\ replicas' \in {0, 1} /\ H!NoOrphanZero'
         /\ poll' \in [H!Pollers -> PollerType] /\ FreshWriters'
<1>1. ASSUME NEW p \in H!Pollers
      PROVE  poll'[p] \in PollerType /\ ~poll'[p].fresh
  <2>1. poll[p] \in PollerType
    BY DEF H!TypeOK, PollerType
  <2>2. poll'[p] = [poll[p] EXCEPT !.fresh = FALSE]
    BY DEF H!WriteCR, H!Written
  <2>3. QED
    BY <2>1, <2>2 DEF PollerType
<1>2. poll' \in [H!Pollers -> PollerType]
  BY <1>1 DEF H!WriteCR
<1>3. QED
  BY <1>1, <1>2 DEF H!WriteCR, H!NoOrphanZero, FreshWriters, FreshWriter

-----------------------------------------------------------------------------
\* The invariant on the writers may be shown for the one writer that moves.
LEMMA WriterByWriter ==
  ASSUME NEW p \in H!Pollers, NEW r, HoldInv, poll' = [poll EXCEPT ![p] = r],
         r \in PollerType, UNCHANGED <<exists, held, replicas>>,
         r.fresh => /\ exists /\ held
                    /\ r.pc = "read" => r.stored = replicas
                    /\ r.pc = "patch" =>
                         r.step # "nothing" /\ (r.step = "clear" => replicas # 0)
  PROVE  poll' \in [H!Pollers -> PollerType] /\ FreshWriters'
<1>1. poll \in [H!Pollers -> PollerType]
  BY DEF HoldInv, H!TypeOK, PollerType
<1>2. poll' \in [H!Pollers -> PollerType]
  BY <1>1
<1>3. ASSUME NEW q \in H!Pollers PROVE FreshWriter(q)'
  <2>1. CASE q = p
    BY <1>1, <2>1 DEF FreshWriter
  <2>2. CASE q # p
    BY <1>1, <2>2 DEF FreshWriter, HoldInv, FreshWriters
  <2>3. QED
    BY <2>1, <2>2
<1>4. QED
  BY <1>2, <1>3 DEF FreshWriters

\* A writer that rests is not fresh.
LEMMA RestKeeps ==
  ASSUME NEW p \in H!Pollers, NEW to \in {"off", "idle"}, HoldInv, H!Rest(p, to),
         UNCHANGED <<exists, held, replicas>>
  PROVE  poll' \in [H!Pollers -> PollerType] /\ FreshWriters'
<1> DEFINE r == [H!Off EXCEPT !.pc = to]
<1>1. r \in PollerType /\ ~r.fresh
  BY RestingTypes DEF PollerType
<1>2. poll' = [poll EXCEPT ![p] = r]
  BY DEF H!Rest
<1> HIDE DEF r
<1>3. QED
  BY <1>1, <1>2, WriterByWriter

\* Reading a held CR leaves the reader fresh.
LEMMA SnapshotKeeps ==
  ASSUME NEW p \in H!Pollers, HoldInv, H!Snapshot(p), exists, held, UNCHANGED <<exists, held, replicas>>
  PROVE  poll' \in [H!Pollers -> PollerType] /\ FreshWriters'
<1> DEFINE r == [poll[p] EXCEPT !.pc = "read", !.stored = replicas, !.fresh = TRUE]
<1>1. poll[p] \in PollerType /\ replicas \in {0, 1}
  BY DEF HoldInv, H!TypeOK, PollerType
<1>2. r \in PollerType /\ r.pc = "read" /\ r.stored = replicas
  BY <1>1 DEF PollerType
<1>3. poll' = [poll EXCEPT ![p] = r]
  BY DEF H!Snapshot
<1> HIDE DEF r
<1>4. QED
  BY <1>2, <1>3, WriterByWriter

\* A decision carries the version it was made on.
LEMMA DecideKeeps ==
  ASSUME NEW p \in H!Pollers, HoldInv, H!Decide(p)
  PROVE  poll' \in [H!Pollers -> PollerType] /\ FreshWriters'
<1> DEFINE step == H!HoldStep(poll[p].stored, pod = "serving", poll[p].due)
           r    == [H!Off EXCEPT !.pc = "patch", !.step = step, !.fresh = poll[p].fresh]
<1>1. poll[p] \in PollerType /\ poll[p].pc = "read" /\ UNCHANGED <<exists, held, replicas>>
  BY DEF HoldInv, H!TypeOK, PollerType, H!Decide, H!cr
<1>2. /\ step \in {"nothing", "clear", "release", "enforce"}
      /\ step = "clear" => poll[p].stored # 0
  BY <1>1 DEF PollerType, H!HoldStep
<1>3. CASE step = "nothing"
  BY <1>1, <1>3, RestKeeps DEF H!Decide
<1>4. CASE step # "nothing"
  <2>1. poll' = [poll EXCEPT ![p] = r]
    BY <1>4 DEF H!Decide
  <2> HIDE DEF step
  <2>2. r \in PollerType /\ r.pc = "patch" /\ r.step = step /\ r.fresh = poll[p].fresh
    BY <1>1, <1>2, RestingTypes DEF PollerType
  <2>3. r.fresh => exists /\ held /\ r.step # "nothing" /\ (r.step = "clear" => replicas # 0)
    BY <1>1, <1>2, <1>4, <2>2 DEF HoldInv, FreshWriters, FreshWriter
  <2> HIDE DEF r
  <2>4. QED
    BY <1>1, <2>1, <2>2, <2>3, WriterByWriter
<1>5. QED
  BY <1>3, <1>4

\* A pinned patch that lands leaves no zero without its hold.
LEMMA AppliedKeeps ==
  ASSUME NEW p \in H!Pollers, HoldInv, poll[p].pc = "patch", poll[p].fresh, H!Applied(p)
  PROVE  /\ held' \in BOOLEAN /\ replicas' \in {0, 1} /\ H!NoOrphanZero'
         /\ poll' \in [H!Pollers -> PollerType] /\ FreshWriters'
<1>1. /\ poll \in [H!Pollers -> PollerType] /\ held /\ replicas \in {0, 1}
      /\ poll[p].step \in {"clear", "release", "enforce"}
      /\ poll[p].step = "clear" => replicas # 0
  BY DEF HoldInv, H!TypeOK, PollerType, FreshWriters, FreshWriter
<1>2. ASSUME NEW q \in H!Pollers PROVE poll'[q] \in PollerType /\ ~poll'[q].fresh
  <2>1. CASE q = p
    BY <2>1, RestingTypes DEF H!Applied
  <2>2. CASE q # p
    <3>1. poll'[q] = [poll[q] EXCEPT !.fresh = FALSE] /\ poll[q] \in PollerType
      BY <1>1, <2>2 DEF H!Applied, H!Written
    <3>2. QED
      BY <3>1 DEF PollerType
  <2>3. QED
    BY <2>1, <2>2
<1>3. poll' \in [H!Pollers -> PollerType] /\ FreshWriters'
  BY <1>2 DEF H!Applied, FreshWriters, FreshWriter
<1>4. held' \in BOOLEAN /\ replicas' \in {0, 1} /\ H!NoOrphanZero'
  <2>1. CASE poll[p].step = "enforce"
    BY <1>1, <2>1 DEF H!Applied, H!NoOrphanZero
  <2>2. CASE poll[p].step = "release"
    BY <1>1, <2>2 DEF H!Applied, H!NoOrphanZero
  <2>3. CASE poll[p].step = "clear"
    BY <1>1, <2>3 DEF H!Applied, H!NoOrphanZero
  <2>4. QED
    BY <1>1, <2>1, <2>2, <2>3
<1>5. QED
  BY <1>3, <1>4

-----------------------------------------------------------------------------
\* What the CR, its writers and the saves owe the invariant; the rest is typing.
OtherTypes ==
  /\ exists \in BOOLEAN /\ finalizer \in BOOLEAN
  /\ rendered \in {0, 1} /\ pod \in {"none", "booting", "migrating", "serving"}
  /\ restarts \in 0 .. RestartBudget /\ index \in {"absent", "partial", "complete"}
  /\ ripe \in BOOLEAN /\ polls \in 0 .. MaxPolls
  /\ log \in {"free", "inflight", "cooling"}
  /\ rem \in {"off", "hold", "delete", "release"} /\ trouble \in 0 .. MaxTrouble
CRPart ==
  /\ held \in BOOLEAN /\ replicas \in {0, 1} /\ H!NoOrphanZero
  /\ poll \in [H!Pollers -> PollerType] /\ FreshWriters
SavePart ==
  /\ save \in [Saves -> [pc : {"idle", "read", "done"}, held : BOOLEAN, replicas : {0, 1}]]
  /\ SavesCarryHold

LEMMA Parts ==
  /\ HoldInv <=> OtherTypes /\ CRPart /\ SavePart
  /\ HoldInv' <=> OtherTypes' /\ CRPart' /\ SavePart'
  BY DEF HoldInv, H!TypeOK, OtherTypes, CRPart, SavePart, PollerType

\* Steps that move neither the CR nor a writer of it.
LEMMA CRPartKept ==
  ASSUME CRPart, UNCHANGED <<exists, held, replicas, poll>>
  PROVE  CRPart'
  BY DEF CRPart, H!NoOrphanZero, FreshWriters, FreshWriter

LEMMA SavePartKept ==
  ASSUME SavePart, UNCHANGED save
  PROVE  SavePart'
  BY DEF SavePart, SavesCarryHold

LEMMA HoldInit == HoldBegins => HoldInv
<1> SUFFICES ASSUME HoldBegins PROVE OtherTypes /\ CRPart /\ SavePart
  BY Parts
<1> USE DEF HoldBegins
<1>1. OtherTypes
  <2>1. exists \in BOOLEAN /\ finalizer \in BOOLEAN /\ ripe \in BOOLEAN
    BY DEF H!Init
  <2>2. restarts \in 0 .. RestartBudget /\ polls \in 0 .. MaxPolls /\ trouble \in 0 .. MaxTrouble
    BY HoldAssumption DEF H!HoldAssumption, H!Init
  <2>3. /\ rendered \in {0, 1} /\ pod \in {"none", "booting", "migrating", "serving"}
        /\ index \in {"absent", "partial", "complete"}
        /\ log \in {"free", "inflight", "cooling"}
        /\ rem \in {"off", "hold", "delete", "release"}
    BY DEF H!Init
  <2>4. QED
    BY <2>1, <2>2, <2>3 DEF OtherTypes
<1>2. CRPart
  <2>1. \A p \in H!Pollers : poll[p] \in PollerType /\ ~poll[p].fresh
    BY RestingTypes DEF H!Init, H!At
  <2>2. held \in BOOLEAN
    BY DEF H!Init
  <2>3. replicas \in {0, 1} /\ replicas # 0
    BY DEF H!Init
  <2>4. poll \in [H!Pollers -> PollerType]
    BY <2>1 DEF H!Init
  <2>5. QED
    BY <2>1, <2>2, <2>3, <2>4 DEF CRPart, H!NoOrphanZero, FreshWriters, FreshWriter
<1>3. SavePart
  BY DEF H!Init, H!At, SavePart, SavesCarryHold
<1>4. QED
  BY <1>1, <1>2, <1>3

LEMMA HoldNext == HoldInv /\ [HoldMoves]_holdVars => HoldInv'
<1> SUFFICES ASSUME HoldInv, [HoldMoves]_holdVars PROVE HoldInv'
  OBVIOUS
<1> USE HoldAssumption DEF H!HoldAssumption
<1>0. OtherTypes /\ CRPart /\ SavePart
  BY Parts
<1>1. CASE H!Create
  <2>1. \A p \in H!Pollers : poll'[p] \in PollerType /\ ~poll'[p].fresh
    BY <1>0, <1>1, RestingTypes DEF H!Create, CRPart, FreshWriters, FreshWriter
  <2>2. CRPart'
    BY <1>0, <1>1, <2>1 DEF H!Create, CRPart, H!NoOrphanZero, FreshWriters, FreshWriter
  <2>3. OtherTypes' /\ UNCHANGED save
    BY <1>0, <1>1 DEF H!Create, OtherTypes, H!cluster
  <2>4. QED
    BY <1>0, <2>2, <2>3, SavePartKept, Parts
<1>2. CASE H!WatchPoll
  <2>1. CRPart'
    BY <1>0, <1>2, RestKeeps, SnapshotKeeps
       DEF H!WatchPoll, CRPart, H!NoOrphanZero, H!Pollers, H!cr
  <2>2. OtherTypes' /\ UNCHANGED save
    BY <1>0, <1>2 DEF H!WatchPoll, OtherTypes, H!cr, H!cluster
  <2>3. QED
    BY <1>0, <2>1, <2>2, SavePartKept, Parts
<1>3. ASSUME NEW s \in Saves, H!SaveRead(s) PROVE HoldInv'
  <2>1. SavePart'
    BY <1>0, <1>3 DEF H!SaveRead, H!At, SavePart, SavesCarryHold, CRPart, H!NoOrphanZero
  <2>2. OtherTypes' /\ UNCHANGED <<exists, held, replicas, poll>>
    BY <1>0, <1>3 DEF H!SaveRead, OtherTypes, H!cr, H!cluster
  <2>3. QED
    BY <1>0, <2>1, <2>2, CRPartKept, Parts
<1>4. ASSUME NEW s \in Saves, H!SaveApply(s) PROVE HoldInv'
  <2>1. SavePart'
    BY <1>0, <1>4 DEF H!SaveApply, H!Done, H!At, SavePart, SavesCarryHold
  <2>2. PICK h \in {save[s].held, save[s].held \/ held} : H!WriteCR(h, save[s].replicas)
    BY <1>4 DEF H!SaveApply
  <2>3. h \in BOOLEAN /\ save[s].replicas \in {0, 1} /\ (save[s].replicas = 0 => h)
    BY <1>0, <2>2 DEF SavePart, SavesCarryHold, CRPart
  <2>4. CRPart'
    BY <2>2, <2>3, WriteForgets DEF CRPart, HoldInv
  <2>5. OtherTypes'
    BY <1>0, <1>4 DEF H!SaveApply, OtherTypes, H!cluster
  <2>6. QED
    BY <2>1, <2>4, <2>5, Parts
<1>5. ASSUME NEW s \in Samplers, H!Evaluate(s) PROVE HoldInv'
  <2> DEFINE r == [poll[s] EXCEPT !.pc = "reread", !.due = ripe]
  <2>1. s \in H!Pollers /\ poll[s] \in PollerType /\ ripe \in BOOLEAN /\ UNCHANGED <<exists, held, replicas>>
    BY <1>0, <1>5 DEF H!Pollers, CRPart, OtherTypes, H!Evaluate, H!cr
  <2>2. r \in PollerType /\ r.pc = "reread" /\ r.fresh = poll[s].fresh
    BY <2>1 DEF PollerType
  <2>3. poll' = [poll EXCEPT ![s] = r]
    BY <1>5 DEF H!Evaluate
  <2>4. exists /\ held
    BY <1>5 DEF H!Evaluate
  <2> HIDE DEF r
  <2>5. CRPart'
    BY <1>0, <2>1, <2>2, <2>3, <2>4, WriterByWriter DEF CRPart, H!NoOrphanZero
  <2>6. OtherTypes' /\ UNCHANGED save
    BY <1>0, <1>5 DEF H!Evaluate, OtherTypes, H!cr, H!cluster
  <2>7. QED
    BY <1>0, <2>5, <2>6, SavePartKept, Parts
<1>6. ASSUME NEW s \in Samplers, H!Reread(s) PROVE HoldInv'
  <2>1. CRPart'
    <3>1. s \in H!Pollers /\ UNCHANGED <<exists, held, replicas>>
      BY <1>6 DEF H!Reread, H!cr, H!Pollers
    <3>2. CASE exists /\ held
      BY <1>0, <1>6, <3>1, <3>2, SnapshotKeeps DEF H!Reread, CRPart, H!NoOrphanZero
    <3>3. CASE ~(exists /\ held)
      BY <1>0, <1>6, <3>1, <3>3, RestKeeps DEF H!Reread, CRPart, H!NoOrphanZero
    <3>4. QED
      BY <3>2, <3>3
  <2>2. OtherTypes' /\ UNCHANGED save
    BY <1>0, <1>6 DEF H!Reread, OtherTypes, H!cr, H!cluster
  <2>3. QED
    BY <1>0, <2>1, <2>2, SavePartKept, Parts
<1>7. ASSUME NEW p \in H!Pollers, H!Decide(p) PROVE HoldInv'
  <2>1. CRPart'
    BY <1>0, <1>7, DecideKeeps DEF H!Decide, CRPart, H!NoOrphanZero, H!cr
  <2>2. OtherTypes' /\ UNCHANGED save
    BY <1>0, <1>7 DEF H!Decide, OtherTypes, H!cr, H!cluster
  <2>3. QED
    BY <1>0, <2>1, <2>2, SavePartKept, Parts
<1>8. ASSUME NEW p \in H!Pollers, H!Patch(p) PROVE HoldInv'
  <2>1. ASSUME poll[p].fresh PROVE CRPart'
    BY <1>0, <1>8, <2>1, AppliedKeeps DEF H!Patch, CRPart
  <2>2. ASSUME ~poll[p].fresh PROVE CRPart'
    BY <1>0, <1>8, <2>2, RestKeeps DEF H!Patch, CRPart, H!NoOrphanZero
  <2>3. OtherTypes' /\ UNCHANGED save
    BY <1>0, <1>8 DEF H!Patch, OtherTypes, H!cluster
  <2>4. CRPart'
    BY <2>1, <2>2
  <2>5. QED
    BY <1>0, <2>3, <2>4, SavePartKept, Parts
<1>9. ASSUME NEW p \in H!Pollers, H!PatchFails(p) PROVE HoldInv'
  <2>1. CRPart'
    BY <1>0, <1>9, RestKeeps DEF H!PatchFails, CRPart, H!NoOrphanZero, H!cr, H!Trouble
  <2>2. OtherTypes' /\ UNCHANGED save
    BY <1>0, <1>9 DEF H!PatchFails, OtherTypes, H!cr, H!cluster, H!Trouble
  <2>3. QED
    BY <1>0, <2>1, <2>2, SavePartKept, Parts
<1>10. CASE H!Arm
  <2>1. OtherTypes' /\ UNCHANGED <<exists, held, replicas, poll, save>>
    BY <1>0, <1>10 DEF H!Arm, OtherTypes, H!cr, H!cluster, H!backend
  <2>2. QED
    BY <1>0, <2>1, CRPartKept, SavePartKept, Parts
<1>11. CASE H!PlaceHold
  <2>1. CRPart'
    BY <1>0, <1>11, WriteForgets DEF H!PlaceHold, CRPart, HoldInv, H!NoOrphanZero
  <2>2. OtherTypes' /\ UNCHANGED save
    BY <1>0, <1>11 DEF H!PlaceHold, OtherTypes, H!cluster
  <2>3. QED
    BY <1>0, <2>1, <2>2, SavePartKept, Parts
<1>12. CASE H!DeleteIndex
  <2>1. OtherTypes' /\ UNCHANGED <<exists, held, replicas, poll, save>>
    BY <1>0, <1>12 DEF H!DeleteIndex, OtherTypes, H!cr, H!cluster, H!backend, H!Trouble
  <2>2. QED
    BY <1>0, <2>1, CRPartKept, SavePartKept, Parts
<1>13. CASE H!ReleaseHold
  <2>1. CRPart'
    <3>1. PICK h \in BOOLEAN : H!WriteCR(h, 1)
      BY <1>13 DEF H!ReleaseHold, H!WriteCR
    <3>2. QED
      BY <3>1, WriteForgets DEF CRPart, HoldInv
  <2>2. OtherTypes' /\ UNCHANGED save
    BY <1>0, <1>13 DEF H!ReleaseHold, OtherTypes, H!cluster, H!Finish
  <2>3. QED
    BY <1>0, <2>1, <2>2, SavePartKept, Parts
<1>14. CASE H!RemediationFails
  <2>1. OtherTypes' /\ UNCHANGED <<exists, held, replicas, poll, save>>
    BY <1>0, <1>14 DEF H!RemediationFails, OtherTypes, H!cr, H!cluster, H!backend, H!Trouble,
       H!Finish
  <2>2. QED
    BY <1>0, <2>1, CRPartKept, SavePartKept, Parts
<1>15. CASE H!CooldownEnds
  <2>1. OtherTypes' /\ UNCHANGED <<exists, held, replicas, poll, save>>
    BY <1>0, <1>15 DEF H!CooldownEnds, OtherTypes, H!cr, H!cluster, H!backend
  <2>2. QED
    BY <1>0, <2>1, CRPartKept, SavePartKept, Parts
<1>16. CASE H!Crash
  <2>1. CRPart'
    BY <1>0, <1>16, RestingTypes
       DEF H!Crash, CRPart, H!NoOrphanZero, FreshWriters, FreshWriter, H!cr
  <2>2. SavePart'
    BY <1>0, <1>16 DEF H!Crash, H!Done, H!At, SavePart, SavesCarryHold
  <2>3. OtherTypes'
    BY <1>0, <1>16 DEF H!Crash, H!Trouble, OtherTypes, H!cr, H!cluster
  <2>4. QED
    BY <2>1, <2>2, <2>3, Parts
<1>17. CASE H!OperatorFullUpdate
  <2>1. CRPart'
    BY <1>0, <1>17, WriteForgets DEF H!OperatorFullUpdate, CRPart, HoldInv, H!NoOrphanZero
  <2>2. OtherTypes' /\ UNCHANGED save
    BY <1>0, <1>17 DEF H!OperatorFullUpdate, OtherTypes, H!cluster, H!Trouble
  <2>3. QED
    BY <1>0, <2>1, <2>2, SavePartKept, Parts
<1>18. CASE H!OperatorRender
  <2>1. OtherTypes' /\ UNCHANGED <<exists, held, replicas, poll, save>>
    BY <1>0, <1>18 DEF H!OperatorRender, OtherTypes, CRPart, H!cr, H!cluster, H!backend
  <2>2. QED
    BY <1>0, <2>1, CRPartKept, SavePartKept, Parts
<1>19. CASE H!PodStarts
  <2>1. OtherTypes' /\ UNCHANGED <<exists, held, replicas, poll, save>>
    BY <1>0, <1>19 DEF H!PodStarts, OtherTypes, H!cr, H!cluster, H!backend
  <2>2. QED
    BY <1>0, <2>1, CRPartKept, SavePartKept, Parts
<1>20. CASE H!PodGoes
  <2>1. OtherTypes' /\ UNCHANGED <<exists, held, replicas, poll, save>>
    BY <1>0, <1>20 DEF H!PodGoes, OtherTypes, H!cr, H!cluster, H!backend
  <2>2. QED
    BY <1>0, <2>1, CRPartKept, SavePartKept, Parts
<1>21. CASE H!Boot
  <2>1. OtherTypes' /\ UNCHANGED <<exists, held, replicas, poll, save>>
    BY <1>0, <1>21 DEF H!Boot, OtherTypes, H!cr, H!cluster, H!backend
  <2>2. QED
    BY <1>0, <2>1, CRPartKept, SavePartKept, Parts
<1>22. CASE H!MigrationEnds
  <2>1. OtherTypes' /\ UNCHANGED <<exists, held, replicas, poll, save>>
    BY <1>0, <1>22 DEF H!MigrationEnds, OtherTypes, H!cr, H!cluster, H!backend
  <2>2. QED
    BY <1>0, <2>1, CRPartKept, SavePartKept, Parts
<1>23. CASE H!ProbeKill
  <2>1. OtherTypes' /\ UNCHANGED <<exists, held, replicas, poll, save>>
    BY <1>0, <1>23 DEF H!ProbeKill, OtherTypes, H!cr, H!cluster, H!backend, H!Restarted
  <2>2. QED
    BY <1>0, <2>1, CRPartKept, SavePartKept, Parts
<1>24. CASE H!Dies
  <2>1. OtherTypes' /\ UNCHANGED <<exists, held, replicas, poll, save>>
    BY <1>0, <1>24 DEF H!Dies, OtherTypes, H!cr, H!cluster, H!backend, H!Restarted, H!Trouble
  <2>2. QED
    BY <1>0, <2>1, CRPartKept, SavePartKept, Parts
<1>25. CASE H!NodesMove
  <2>1. OtherTypes' /\ UNCHANGED <<exists, held, replicas, poll, save>>
    BY <1>0, <1>25 DEF H!NodesMove, OtherTypes, H!cr, H!cluster, H!backend
  <2>2. QED
    BY <1>0, <2>1, CRPartKept, SavePartKept, Parts
<1>26. CASE UNCHANGED holdVars
  <2>1. OtherTypes' /\ UNCHANGED <<exists, held, replicas, poll, save>>
    BY <1>0, <1>26 DEF OtherTypes, holdVars, H!cr, H!cluster, H!backend
  <2>2. QED
    BY <1>0, <2>1, CRPartKept, SavePartKept, Parts
<1>27. QED
  BY <1>1, <1>2, <1>3, <1>4, <1>5, <1>6, <1>7, <1>8, <1>9, <1>10, <1>11, <1>12, <1>13,
     <1>14, <1>15, <1>16, <1>17, <1>18, <1>19, <1>20, <1>21, <1>22, <1>23, <1>24, <1>25, <1>26,
     Zenon DEF HoldMoves, H!Next, H!Sample, H!Enforce, H!Remediate, H!Dashboards

\* Every field keeps its type, for any number of samplers, saves, polls and faults.
THEOREM TypeCorrect == HoldSpec => []H!TypeOK
<1>1. HoldInv => H!TypeOK
  BY DEF HoldInv
<1>2. QED
  BY <1>1, HoldInit, HoldNext, PTL DEF HoldSpec

\* No interleaving of create, the watch, the samplers, saves, the remediation,
\* the operator's full updates and restarts leaves Dashboards at zero without the
\* annotation that gets it released (k8s.rs, HoldStep and dashboards_hold_patch).
THEOREM ZeroIsHeld == HoldSpec => []NoOrphanZero
<1>1. HoldInv => NoOrphanZero
  BY DEF HoldInv, NoOrphanZero
<1>2. QED
  BY <1>1, HoldInit, HoldNext, PTL DEF HoldSpec

-----------------------------------------------------------------------------
(* OtelStack.                                                               *)

\* A step of a request under way.
OwnStep(r) == Install(r) \/ Uninstall(r) \/ Toggle(r) \/ CallFails(r)

InstallSteps ==
  {"gate", "clear", "policies", "apply", "release", "probe", "keys", "seen", "ui", "unnote",
   "export", "tenancy", "mark"}
UninstallSteps ==
  {"delete", "unsave", "unspace", "teardown", "asked", "unui", "unchoose", "restore",
   "unkeys", "unindex", "unmark"}
Early == (InstallSteps \ {"gate"}) \cup UninstallSteps

Upto(n) == {Inventory[i] : i \in 1 .. n}

\* Where a request is, and what it can have come to know there.  A request under way has no
\* task yet, and one that has put its marker on found no older one after it.
PlaceAt(r) ==
  /\ pc[r] = "apply" => at[r] < Len(Inventory)
  /\ pc[r] \in {"gate", "clear", "policies"} => at[r] = 0
  /\ pc[r] = "delete" => at[r] > 0
  /\ pc[r] # "over" => task[r] = "off"
  /\ task[r] # "off" => marker # "older"
  /\ sees[r] => dash
Places == \A r \in Requests : PlaceAt(r)

\* Unless two were at once, one request is under way; and unless one came during a task,
\* one request is under way or has a task.
Busy(r) == r \in UnderWay \/ task[r] # "off"
Single == ~mixed => \A q, r \in UnderWay : q = r
Apart == ~mixed /\ ~crossed => \A q, r \in Requests : Busy(q) /\ Busy(r) => q = r

Base == TypeOK /\ Places /\ Single /\ Apart

\* The UI: what holds between requests, and how far a request has left it.
Agree ==
  /\ multi <=> ~uiKeys
  /\ chosen <=> asked
  /\ asked => uiKeys
Quiet == Agree /\ (swept => (uiKeys <=> asked))
UiAt(r) ==
  /\ pc[r] \in {"gate", "clear", "policies", "apply", "release", "probe", "keys", "seen",
                "ui", "mark", "delete", "unsave", "unspace", "teardown", "asked", "unui",
                "unkeys", "unindex", "unmark", "set"} => Agree
  /\ pc[r] = "ui" => ~uiKeys
  /\ pc[r] = "unnote" => uiKeys /\ multi /\ ~chosen /\ ~asked
  /\ pc[r] \in {"export", "tenancy"} => uiKeys /\ (chosen <=> asked)
  /\ pc[r] \in {"unui", "unchoose", "restore"} => ~asked /\ ~chosen
  /\ pc[r] \in {"unchoose", "restore"} => ~uiKeys
  /\ pc[r] \in {"unkeys", "unindex", "unmark"} => (uiKeys <=> asked)
  /\ pc[r] \in {"note", "flip"} => (uiKeys <=> Wants(r))
  /\ pc[r] = "flip" => (chosen <=> Wants(r))
  /\ pc[r] \in InstallSteps => ~swept
  /\ pc[r] \in {"delete", "unsave", "unspace", "teardown", "asked", "set"} /\ swept
       => (uiKeys <=> asked)
UiTold ==
  ~mixed /\ amiss \cap {"ui", "restart"} = {} =>
    /\ UnderWay = {} => Quiet
    /\ \A r \in UnderWay : UiAt(r)

\* The objects: those an install has come to are there, those an uninstall has come to are not.
ObjectsAt(r) ==
  /\ pc[r] = "apply" => Upto(at[r]) \subseteq objects
  /\ pc[r] \in InstallSteps \ {"gate", "clear", "policies"} => policies
  /\ pc[r] \in InstallSteps \ {"gate", "clear", "policies", "apply"} => objects = Objects
  /\ pc[r] = "delete" => objects \subseteq Upto(at[r])
  /\ pc[r] \in UninstallSteps \ {"delete"} => objects = {}
  /\ pc[r] \in UninstallSteps => torn
Stored ==
  /\ Sink \in objects => policies
  /\ marker # "none" /\ ~torn => objects = Objects
ObjectsTold ==
  ~mixed /\ "delete" \notin amiss =>
    /\ Stored
    /\ \A r \in UnderWay : ObjectsAt(r)

\* The saved objects of the datasource: one at most, and none when one is to be made,
\* unless Dashboards did not show it or a call of a task failed.
Shown == "wire" \notin amiss /\ "saved" \notin hidden
Paired ==
  ~mixed /\ ~crossed /\ Shown =>
    /\ conns < 2
    /\ \A r \in Requests : task[r] \in {"clear", "post"} => conns = 0

\* The sweep: what an uninstall has come to is gone, and nothing puts it back.
NoConns == Shown => conns = 0
NoSpace == "space" \notin hidden => ~space
NoBoards == "boards" \notin hidden => boards = [b \in Boards |-> "none"]
SweptAt(r) ==
  /\ pc[r] \in UninstallSteps \ {"delete", "unsave"} => NoConns
  /\ pc[r] \in UninstallSteps \ {"delete", "unsave", "unspace"} => NoSpace
  /\ pc[r] \in UninstallSteps \ {"delete", "unsave", "unspace", "teardown"} =>
       ~engine /\ NoBoards /\ ~policies
  /\ pc[r] \in {"unindex", "unmark"} => ~otelKeys
  /\ pc[r] \in InstallSteps => ~swept
Bare ==
  /\ objects = {} /\ ~policies
  /\ ~engine /\ NoConns /\ NoSpace /\ NoBoards
  /\ ~otelKeys /\ marker = "none"
SweepTold ==
  ~mixed /\ ~crossed /\ "delete" \notin amiss =>
    /\ swept => Bare /\ Deferred = {}
    /\ \A r \in UnderWay : SweptAt(r)

\* An install that replaces an older stack: the pod starts once, and after the old template
\* has gone, so that what the task rolls spans to is of this version.
Migrating(r) ==
  migrates[r] =>
    /\ pc[r] \in InstallSteps => marker = "older" /\ ~dash /\ spans = "older"
    /\ pc[r] \in {"gate", "clear"} => sink = "older"
    /\ pc[r] \in InstallSteps \ {"gate", "clear"} => template = "none"
    /\ pc[r] \in {"policies", "apply"} => sink = IF Sink \in Upto(at[r]) THEN "new" ELSE "older"
    /\ pc[r] \in InstallSteps \ {"gate", "clear", "policies", "apply"} => sink = "new"
    /\ task[r] = "prepper" =>
         /\ objects = Objects /\ spans # "none"
         /\ sink = "new" \/ (sink = "this" /\ template = "this")
         /\ sink = "new" => template = "none"
    /\ task[r] = "roll" => template = "this" /\ spans # "none"
    /\ task[r] \notin {"off", "prepper", "roll"} =>
         spans = "this" /\ task[r] \notin {"features", "revert"}
Untouched ==
  marker = "older" /\ (\A r \in Requests : pc[r] \notin Early)
    => ~dash /\ sink = "older" /\ spans = "older"
MigrationTold ==
  ~mixed /\ ~crossed /\ amiss = {} =>
    /\ Untouched
    /\ \A r \in Requests : Migrating(r)

StackInv == Base /\ UiTold /\ ObjectsTold /\ Paired /\ SweepTold /\ MigrationTold

-----------------------------------------------------------------------------
(* Which steps write what.                                                   *)

LEMMA ConfigWriters ==
  Next =>
    \/ UNCHANGED config
    \/ \E r \in Requests :
       \/ SetKeys(r) \/ SetUi(r) \/ Unnote(r) \/ Mark(r)
       \/ Revert(r) \/ DropUi(r) \/ Unchoose(r) \/ DropKeys(r)
       \/ Unmark(r) \/ SetNextUi(r) \/ NoteChoice(r)
    \/ Boot
<1> SUFFICES ASSUME Next PROVE UNCHANGED config \/ (\E r \in Requests :
       \/ SetKeys(r) \/ SetUi(r) \/ Unnote(r) \/ Mark(r)
       \/ Revert(r) \/ DropUi(r) \/ Unchoose(r) \/ DropKeys(r)
       \/ Unmark(r) \/ SetNextUi(r) \/ NoteChoice(r)) \/ Boot
  OBVIOUS
<1> USE DEF Passes, Goes, Ends, Amiss, TaskGoes, config, prepper, stack, saved, kept, requests,
      history
<1>1. ASSUME NEW r \in Requests, Install(r)
     PROVE  UNCHANGED config \/ SetKeys(r) \/ SetUi(r) \/ Unnote(r) \/ Mark(r)
  BY <1>1 DEF Install, Refuse, Gate, ClearTemplate, KeepPolicies, Apply, Release, Released,
     Probe, SeeUi, NeedUi, Export, DropTenancy, SetTenancy
<1>2. ASSUME NEW r \in Requests, Task(r) PROVE UNCHANGED config \/ Revert(r)
  BY <1>2 DEF Task, FeaturesLive, FeaturesTimeOut, PrepperUp, PrepperTimeOut, RollSpans,
     CortexUp, CortexTimeOut, FindConnection, FindEngine, DropEngine, Unpair, Register,
     EnsureWorkspace, Import, WritePatterns, WriteBoards, Write
<1>3. ASSUME NEW r \in Requests, Uninstall(r)
     PROVE  UNCHANGED config \/ DropUi(r) \/ Unchoose(r) \/ DropKeys(r) \/ Unmark(r)
  BY <1>3 DEF Uninstall, Delete, Lost, Unsave, RemoveWorkspace, Teardown, Chosen,
     RestoreTenancy, SetTenancy, DropIndices
<1>4. ASSUME NEW r \in Requests, Toggle(r)
     PROVE  UNCHANGED config \/ SetNextUi(r) \/ NoteChoice(r)
  BY <1>4 DEF Toggle, FlipTenancy
<1>5. ASSUME NEW r \in Requests, Arrive(r) \/ CallFails(r) PROVE UNCHANGED config
  BY <1>5 DEF Arrive, Begin, CallFails
<1>6. CASE StartSink \/ Restart \/ ReadPanel
  BY <1>6 DEF StartSink, Restart, ReadPanel, Released
<1> QED
  BY <1>1, <1>2, <1>3, <1>4, <1>5, <1>6, Zenon DEF Next

LEMMA StackWriters ==
  Next =>
    \/ UNCHANGED stack
    \/ \E r \in Requests :
       \/ ClearTemplate(r) \/ KeepPolicies(r) \/ Apply(r) \/ Release(r)
       \/ DropTenancy(r) \/ RollSpans(r) \/ Delete(r) \/ Teardown(r)
       \/ RestoreTenancy(r) \/ DropIndices(r) \/ FlipTenancy(r)
    \/ StartSink
    \/ ReadPanel
<1> SUFFICES ASSUME Next PROVE UNCHANGED stack \/ (\E r \in Requests :
       \/ ClearTemplate(r) \/ KeepPolicies(r) \/ Apply(r) \/ Release(r)
       \/ DropTenancy(r) \/ RollSpans(r) \/ Delete(r) \/ Teardown(r)
       \/ RestoreTenancy(r) \/ DropIndices(r) \/ FlipTenancy(r)) \/ StartSink \/ ReadPanel
  OBVIOUS
<1> USE DEF Passes, Goes, Ends, Amiss, TaskGoes, config, prepper, stack, saved, kept, requests,
      history
<1>1. ASSUME NEW r \in Requests, Install(r)
     PROVE  UNCHANGED stack \/ ClearTemplate(r) \/ KeepPolicies(r) \/ Apply(r) \/ Release(r)
            \/ DropTenancy(r)
  BY <1>1 DEF Install, Refuse, Gate, Probe, SetKeys, SeeUi, NeedUi, SetUi, Unnote, Export, Mark
<1>2. ASSUME NEW r \in Requests, Task(r) PROVE UNCHANGED stack \/ RollSpans(r)
  BY <1>2 DEF Task, FeaturesLive, FeaturesTimeOut, Revert, PrepperUp, PrepperTimeOut, CortexUp,
     CortexTimeOut, FindConnection, FindEngine, DropEngine, Unpair, Register, EnsureWorkspace,
     Import, WritePatterns, WriteBoards, Write
<1>3. ASSUME NEW r \in Requests, Uninstall(r)
     PROVE  UNCHANGED stack \/ Delete(r) \/ Teardown(r) \/ RestoreTenancy(r) \/ DropIndices(r)
  BY <1>3 DEF Uninstall, Unsave, RemoveWorkspace, Chosen, DropUi, Unchoose, DropKeys,
     Unmark
<1>4. ASSUME NEW r \in Requests, Toggle(r) PROVE UNCHANGED stack \/ FlipTenancy(r)
  BY <1>4 DEF Toggle, SetNextUi, NoteChoice
<1>5. ASSUME NEW r \in Requests, Arrive(r) \/ CallFails(r) PROVE UNCHANGED stack
  BY <1>5 DEF Arrive, Begin, CallFails
<1>6. CASE Boot \/ Restart
  BY <1>6 DEF Boot, Restart
<1> QED
  BY <1>1, <1>2, <1>3, <1>4, <1>5, <1>6, Zenon DEF Next

LEMMA SavedTurns ==
  ASSUME NEW r \in Requests, OwnStep(r)
  PROVE  /\ UNCHANGED saved \/ Unsave(r) \/ RemoveWorkspace(r) \/ Teardown(r)
         /\ UNCHANGED task \/ Mark(r)
<1> USE DEF Passes, Goes, Ends, Amiss, config, prepper, stack, saved, kept, requests, history
<1>1. CASE Install(r)
  BY <1>1 DEF Install, Refuse, Gate, ClearTemplate, KeepPolicies, Apply, Release, Released,
     Probe, SetKeys, SeeUi, NeedUi, SetUi, Unnote, Export, DropTenancy, SetTenancy, Mark
<1>2. CASE Uninstall(r)
  BY <1>2 DEF Uninstall, Delete, Lost, Unsave, RemoveWorkspace, Teardown, Chosen, DropUi,
     Unchoose, RestoreTenancy, SetTenancy, DropKeys, DropIndices, Unmark
<1>3. CASE Toggle(r)
  BY <1>3 DEF Toggle, SetNextUi, NoteChoice, FlipTenancy
<1>4. CASE CallFails(r)
  BY <1>4 DEF CallFails
<1> QED
  BY <1>1, <1>2, <1>3, <1>4, Zenon DEF OwnStep

LEMMA SavedWriters ==
  Next =>
    \/ UNCHANGED saved
    \/ \E r \in Requests :
       \/ DropEngine(r) \/ Unpair(r) \/ Register(r) \/ EnsureWorkspace(r) \/ Import(r)
       \/ WritePatterns(r) \/ WriteBoards(r)
       \/ Unsave(r) \/ RemoveWorkspace(r) \/ Teardown(r)
<1> SUFFICES ASSUME Next PROVE UNCHANGED saved \/ (\E r \in Requests :
       \/ DropEngine(r) \/ Unpair(r) \/ Register(r) \/ EnsureWorkspace(r) \/ Import(r)
       \/ WritePatterns(r) \/ WriteBoards(r)
       \/ Unsave(r) \/ RemoveWorkspace(r) \/ Teardown(r))
  OBVIOUS
<1> USE DEF saved, requests, history, Amiss
<1>1. ASSUME NEW r \in Requests, OwnStep(r)
      PROVE  UNCHANGED saved \/ Unsave(r) \/ RemoveWorkspace(r) \/ Teardown(r)
  BY <1>1, SavedTurns
<1>2. ASSUME NEW r \in Requests, Task(r)
     PROVE  UNCHANGED saved \/ DropEngine(r) \/ Unpair(r) \/ Register(r) \/ EnsureWorkspace(r)
            \/ Import(r) \/ WritePatterns(r) \/ WriteBoards(r)
  BY <1>2 DEF Task, FeaturesLive, FeaturesTimeOut, Revert, PrepperUp, PrepperTimeOut,
     RollSpans, CortexUp, CortexTimeOut, FindConnection, FindEngine
<1>3. ASSUME NEW r \in Requests, Arrive(r) PROVE UNCHANGED saved
  BY <1>3 DEF Arrive, Begin
<1>4. CASE Boot \/ StartSink \/ Restart \/ ReadPanel
  BY <1>4 DEF Boot, StartSink, Restart, ReadPanel, Released
<1> QED
  BY <1>1, <1>2, <1>3, <1>4, Zenon DEF Next, OwnStep

(* The types.                                                               *)

LEMMA ConfigTyped ==
  ASSUME Base, Next
  PROVE  ConfigTypes'
<1> USE DEF Passes, Goes, Ends, Amiss, TaskGoes, config, prepper, stack, saved, kept, requests,
      history, Base, TypeOK, Places, PlaceAt, Objects, ConfigTypes, RequestTypes, HistoryTypes
<1>1. ASSUME NEW r \in Requests, SetKeys(r) PROVE ConfigTypes'
  BY <1>1 DEF SetKeys
<1>2. ASSUME NEW r \in Requests, SetUi(r) PROVE ConfigTypes'
  BY <1>2 DEF SetUi
<1>3. ASSUME NEW r \in Requests, Unnote(r) PROVE ConfigTypes'
  BY <1>3 DEF Unnote
<1>4. ASSUME NEW r \in Requests, Mark(r) PROVE ConfigTypes'
  BY <1>4 DEF Mark
<1>5. ASSUME NEW r \in Requests, Revert(r) PROVE ConfigTypes'
  BY <1>5 DEF Revert
<1>6. ASSUME NEW r \in Requests, DropUi(r) PROVE ConfigTypes'
  BY <1>6 DEF DropUi
<1>7. ASSUME NEW r \in Requests, Unchoose(r) PROVE ConfigTypes'
  BY <1>7 DEF Unchoose
<1>8. ASSUME NEW r \in Requests, DropKeys(r) PROVE ConfigTypes'
  BY <1>8 DEF DropKeys
<1>9. ASSUME NEW r \in Requests, Unmark(r) PROVE ConfigTypes'
  BY <1>9 DEF Unmark
<1>10. ASSUME NEW r \in Requests, SetNextUi(r) PROVE ConfigTypes'
  BY <1>10 DEF SetNextUi, Wants
<1>11. ASSUME NEW r \in Requests, NoteChoice(r) PROVE ConfigTypes'
  BY <1>11 DEF NoteChoice, Wants
<1>12. CASE Boot
  BY <1>12 DEF Boot
<1>13. CASE UNCHANGED config
  BY <1>13 DEF config
<1> QED
  BY <1>1, <1>2, <1>3, <1>4, <1>5, <1>6, <1>7, <1>8, <1>9, <1>10, <1>11, <1>12, <1>13,
     ConfigWriters, Zenon

LEMMA StackTyped ==
  ASSUME Base, Next
  PROVE  StackTypes'
<1> USE DEF Passes, Goes, Ends, Amiss, TaskGoes, config, prepper, stack, saved, kept, requests,
      history, Base, TypeOK, Places, PlaceAt, Objects, StackTypes, RequestTypes, HistoryTypes
<1>1. ASSUME NEW r \in Requests, ClearTemplate(r) PROVE StackTypes'
  BY <1>1 DEF ClearTemplate
<1>2. ASSUME NEW r \in Requests, KeepPolicies(r) PROVE StackTypes'
  BY <1>2 DEF KeepPolicies
<1>3. ASSUME NEW r \in Requests, Apply(r) PROVE StackTypes'
  BY <1>3 DEF Apply
<1>4. ASSUME NEW r \in Requests, Release(r) PROVE StackTypes'
  BY <1>4 DEF Release, Released
<1>5. ASSUME NEW r \in Requests, DropTenancy(r) PROVE StackTypes'
  BY <1>5 DEF DropTenancy, SetTenancy
<1>6. ASSUME NEW r \in Requests, RollSpans(r) PROVE StackTypes'
  BY <1>6 DEF RollSpans
<1>7. ASSUME NEW r \in Requests, Delete(r) PROVE StackTypes'
  BY <1>7 DEF Delete, Lost
<1>8. ASSUME NEW r \in Requests, Teardown(r) PROVE StackTypes'
  BY <1>8 DEF Teardown
<1>9. ASSUME NEW r \in Requests, RestoreTenancy(r) PROVE StackTypes'
  BY <1>9 DEF RestoreTenancy, SetTenancy
<1>10. ASSUME NEW r \in Requests, DropIndices(r) PROVE StackTypes'
  BY <1>10 DEF DropIndices
<1>11. ASSUME NEW r \in Requests, FlipTenancy(r) PROVE StackTypes'
  BY <1>11 DEF FlipTenancy, Wants
<1>12. CASE StartSink
  BY <1>12 DEF StartSink
<1>13. CASE ReadPanel
  BY <1>13 DEF ReadPanel, Released
<1>14. CASE UNCHANGED stack
  BY <1>14 DEF stack
<1> QED
  BY <1>1, <1>2, <1>3, <1>4, <1>5, <1>6, <1>7, <1>8, <1>9, <1>10, <1>11, <1>12, <1>13, <1>14,
     StackWriters, Zenon

LEMMA RegistersTyped ==
  ASSUME Base
  PROVE  Registers \in BOOLEAN
<1> QED
  BY DEF Registers, Base, TypeOK, ConfigTypes, RequestTypes

LEMMA WrittenTyped ==
  ASSUME boards \in [Boards -> {"none", "workspace", "outside"}], NEW what,
         NEW place \in {"none", "workspace", "outside"}
  PROVE  /\ Written(what, place) \in [Boards -> {"none", "workspace", "outside"}]
         /\ \A b \in Boards :
              Written(what, place)[b] = IF b \in what THEN place ELSE boards[b]
<1> QED
  BY DEF Written

LEMMA SavedTyped ==
  ASSUME Base, Next
  PROVE  SavedTypes'
<1> USE DEF Passes, Goes, Ends, Amiss, TaskGoes, config, prepper, stack, saved, kept, requests,
      history, Base, TypeOK, Places, PlaceAt, Objects, SavedTypes, RequestTypes, HistoryTypes
<1>1. ASSUME NEW r \in Requests, DropEngine(r) PROVE SavedTypes'
  BY <1>1 DEF DropEngine
<1>2. ASSUME NEW r \in Requests, Unpair(r) PROVE SavedTypes'
  BY <1>2 DEF Unpair, Found
<1>3. ASSUME NEW r \in Requests, Register(r) PROVE SavedTypes'
  BY <1>3, RegistersTyped DEF Register
<1>4. ASSUME NEW r \in Requests, EnsureWorkspace(r) PROVE SavedTypes'
  BY <1>4 DEF EnsureWorkspace
<1>5. ASSUME NEW r \in Requests, Import(r) PROVE SavedTypes'
  BY <1>5 DEF Import
<1>6. ASSUME NEW r \in Requests, NEW what \in SUBSET Boards, NEW place \in {"workspace", "outside"},
             Write(what, place)
      PROVE  SavedTypes'
  BY <1>6, WrittenTyped DEF Write, Written, Takes
<1>7. ASSUME NEW r \in Requests, WritePatterns(r) \/ WriteBoards(r) PROVE SavedTypes'
  BY <1>6, <1>7 DEF WritePatterns, WriteBoards, TakenAsBoards, Boards
<1>8. ASSUME NEW r \in Requests, Unsave(r) PROVE SavedTypes'
  BY <1>8 DEF Unsave, Found
<1>9. ASSUME NEW r \in Requests, RemoveWorkspace(r) PROVE SavedTypes'
  <2>1. CASE UNCHANGED <<space, moved, boards>>
    BY <1>9, <2>1 DEF RemoveWorkspace
  <2>2. CASE /\ space' = FALSE /\ moved' = FALSE
             /\ boards' = Written({b \in Boards : boards[b] = "workspace"}, "none")
    <3> DEFINE gone == {b \in Boards : boards[b] = "workspace"}
    <3>1. \A b \in Boards : b \in gone <=> boards[b] = "workspace"
      OBVIOUS
    <3>2. boards' = Written(gone, "none") /\ space' = FALSE /\ moved' = FALSE
      BY <2>2
    <3> HIDE DEF gone
    <3>3. /\ Written(gone, "none") \in [Boards -> {"none", "workspace", "outside"}]
          /\ \A b \in Boards : Written(gone, "none")[b] = IF b \in gone THEN "none" ELSE boards[b]
      BY WrittenTyped
    <3>4. \A b \in Boards : boards'[b] # "workspace"
      BY <3>1, <3>2, <3>3
    <3>5. UNCHANGED <<engine, conns>>
      BY <1>9 DEF RemoveWorkspace
    <3>6. QED
      BY <3>2, <3>3, <3>4, <3>5
  <2>3. QED
    BY <1>9, <2>1, <2>2 DEF RemoveWorkspace
<1>10. ASSUME NEW r \in Requests, Teardown(r) PROVE SavedTypes'
  <2>1. CASE boards' = boards
    BY <1>10, <2>1 DEF Teardown
  <2>2. CASE boards' = Written(Seen, "none")
    <3>1. /\ Written(Seen, "none") \in [Boards -> {"none", "workspace", "outside"}]
          /\ \A b \in Boards : Written(Seen, "none")[b] = IF b \in Seen THEN "none" ELSE boards[b]
      BY WrittenTyped
    <3>2. \A b \in Boards : boards'[b] = "workspace" => boards[b] = "workspace"
      BY <2>2, <3>1
    <3>3. UNCHANGED <<conns, space, moved>> /\ engine' \in BOOLEAN
      BY <1>10 DEF Teardown
    <3>4. QED
      BY <2>2, <3>1, <3>2, <3>3
  <2>3. QED
    BY <1>10, <2>1, <2>2 DEF Teardown, TearsBoards
<1>11. CASE UNCHANGED saved
  BY <1>11 DEF saved
<1> QED
  BY <1>1, <1>2, <1>3, <1>4, <1>5, <1>7, <1>8, <1>9, <1>10, <1>11, SavedWriters, Zenon

LEMMA RequestTyped ==
  ASSUME Base, Next
  PROVE  RequestTypes'
<1> USE KindsAssumption, SinkAssumption DEF Passes, Goes, Ends, Amiss, TaskGoes, config,
      prepper, stack, saved, kept, requests, history, Base, TypeOK, RequestTypes, Places,
      PlaceAt, Requests, Steps, TaskSteps, AllKinds, FirstStep, Living, AfterFeatures
<1>1. ASSUME NEW r \in Requests, Install(r) PROVE RequestTypes'
  <2>1. CASE Refuse(r)
    BY <2>1 DEF Refuse
  <2>2. CASE Gate(r)
    <3>1. NeedsMigration \in BOOLEAN
      BY DEF NeedsMigration
    <3>2. QED
      BY <2>2, <3>1 DEF Gate
  <2>3. CASE ClearTemplate(r)
    BY <2>3 DEF ClearTemplate
  <2>4. CASE KeepPolicies(r)
    BY <2>4 DEF KeepPolicies
  <2>5. CASE Apply(r)
    BY <2>5 DEF Apply
  <2>6. CASE Release(r)
    BY <2>6 DEF Release, Released
  <2>7. CASE Probe(r)
    <3>1. sees' \in [Requests -> BOOLEAN]
      BY <2>7 DEF Probe
    <3>2. pc' \in [Requests -> Steps]
      BY <2>7 DEF Probe
    <3>3. QED
      BY <2>7, <3>1, <3>2 DEF Probe
  <2>8. CASE SetKeys(r)
    BY <2>8 DEF SetKeys
  <2>9. CASE SeeUi(r)
    BY <2>9 DEF SeeUi, NeedUi
  <2>10. CASE SetUi(r)
    BY <2>10 DEF SetUi
  <2>11. CASE Unnote(r)
    BY <2>11 DEF Unnote
  <2>12. CASE Export(r)
    BY <2>12 DEF Export
  <2>13. CASE DropTenancy(r)
    BY <2>13 DEF DropTenancy, SetTenancy
  <2>14. CASE Mark(r)
    BY <2>14 DEF Mark
  <2> QED
    BY <2>1, <2>2, <2>3, <2>4, <2>5, <2>6, <2>7, <2>8, <2>9, <2>10, <2>11, <2>12, <2>13, <2>14,
       <1>1, Zenon DEF Install
<1>2. ASSUME NEW r \in Requests, Task(r) PROVE RequestTypes'
  <2>1. CASE FeaturesLive(r)
    BY <2>1 DEF FeaturesLive
  <2>2. CASE FeaturesTimeOut(r)
    BY <2>2 DEF FeaturesTimeOut
  <2>3. CASE Revert(r)
    BY <2>3 DEF Revert
  <2>4. CASE PrepperUp(r)
    BY <2>4 DEF PrepperUp
  <2>5. CASE PrepperTimeOut(r)
    BY <2>5 DEF PrepperTimeOut
  <2>6. CASE RollSpans(r)
    BY <2>6 DEF RollSpans
  <2>7. CASE CortexUp(r)
    BY <2>7 DEF CortexUp
  <2>8. CASE CortexTimeOut(r)
    BY <2>8 DEF CortexTimeOut
  <2>9. CASE FindConnection(r)
    BY <2>9 DEF FindConnection, AfterDatasource
  <2>10. CASE FindEngine(r)
    BY <2>10 DEF FindEngine, AfterDatasource
  <2>11. CASE DropEngine(r)
    BY <2>11 DEF DropEngine
  <2>12. CASE Unpair(r)
    BY <2>12 DEF Unpair
  <2>13. CASE Register(r)
    BY <2>13 DEF Register, AfterDatasource
  <2>14. CASE EnsureWorkspace(r)
    BY <2>14 DEF EnsureWorkspace
  <2>15. CASE Import(r)
    BY <2>15 DEF Import
  <2>16. CASE WritePatterns(r)
    BY <2>16 DEF WritePatterns, Write
  <2>17. CASE WriteBoards(r)
    BY <2>17 DEF WriteBoards, Write
  <2> QED
    BY <2>1, <2>2, <2>3, <2>4, <2>5, <2>6, <2>7, <2>8, <2>9, <2>10, <2>11, <2>12, <2>13, <2>14,
       <2>15, <2>16, <2>17, <1>2, Zenon DEF Task
<1>3. ASSUME NEW r \in Requests, Uninstall(r) PROVE RequestTypes'
  <2>1. CASE Delete(r)
    BY <2>1 DEF Delete, Lost
  <2>2. CASE Unsave(r)
    BY <2>2 DEF Unsave
  <2>3. CASE RemoveWorkspace(r)
    BY <2>3 DEF RemoveWorkspace
  <2>4. CASE Teardown(r)
    BY <2>4 DEF Teardown
  <2>5. CASE Chosen(r)
    BY <2>5 DEF Chosen
  <2>6. CASE DropUi(r)
    BY <2>6 DEF DropUi
  <2>7. CASE Unchoose(r)
    BY <2>7 DEF Unchoose
  <2>8. CASE RestoreTenancy(r)
    BY <2>8 DEF RestoreTenancy, SetTenancy
  <2>9. CASE DropKeys(r)
    BY <2>9 DEF DropKeys
  <2>10. CASE DropIndices(r)
    BY <2>10 DEF DropIndices
  <2>11. CASE Unmark(r)
    BY <2>11 DEF Unmark
  <2> QED
    BY <2>1, <2>2, <2>3, <2>4, <2>5, <2>6, <2>7, <2>8, <2>9, <2>10, <2>11, <1>3,
       Zenon DEF Uninstall
<1>4. ASSUME NEW r \in Requests, Toggle(r) PROVE RequestTypes'
  <2>1. CASE SetNextUi(r)
    BY <2>1 DEF SetNextUi
  <2>2. CASE NoteChoice(r)
    BY <2>2 DEF NoteChoice
  <2>3. CASE FlipTenancy(r)
    BY <2>3 DEF FlipTenancy
  <2> QED
    BY <2>1, <2>2, <2>3, <1>4, Zenon DEF Toggle
<1>5. ASSUME NEW r \in Requests, NEW k \in Kinds, Begin(r, k) PROVE RequestTypes'
  BY <1>5 DEF Begin
<1>6. ASSUME NEW r \in Requests, CallFails(r) PROVE RequestTypes'
  BY <1>6 DEF CallFails
<1>7. CASE Boot
  BY <1>7 DEF Boot
<1>8. CASE StartSink
  BY <1>8 DEF StartSink
<1>9. CASE Restart
  BY <1>9 DEF Restart
<1>10. CASE ReadPanel
  BY <1>10 DEF ReadPanel, Released
<1> QED
  BY <1>1, <1>2, <1>3, <1>4, <1>5, <1>6, <1>7, <1>8, <1>9, <1>10, Zenon DEF Next, Arrive

LEMMA HistoryTyped ==
  ASSUME Base, Next
  PROVE  HistoryTypes'
<1> USE TroublesAssumption DEF Passes, Goes, Ends, Amiss, TaskGoes, config, prepper, stack,
      saved, kept, requests, history, Base, TypeOK, HistoryTypes, ConfigTypes, SavedTypes,
      AllTroubles, Wants
<1>1. ASSUME NEW r \in Requests, Install(r) PROVE HistoryTypes'
  <2>1. CASE Refuse(r)
    BY <2>1 DEF Refuse
  <2>2. CASE Gate(r)
    BY <2>2 DEF Gate
  <2>3. CASE ClearTemplate(r)
    BY <2>3 DEF ClearTemplate
  <2>4. CASE KeepPolicies(r)
    BY <2>4 DEF KeepPolicies
  <2>5. CASE Apply(r)
    BY <2>5 DEF Apply
  <2>6. CASE Release(r)
    BY <2>6 DEF Release, Released
  <2>7. CASE Probe(r)
    BY <2>7 DEF Probe
  <2>8. CASE SetKeys(r)
    BY <2>8 DEF SetKeys
  <2>9. CASE SeeUi(r)
    BY <2>9 DEF SeeUi, NeedUi
  <2>10. CASE SetUi(r)
    BY <2>10 DEF SetUi
  <2>11. CASE Unnote(r)
    BY <2>11 DEF Unnote
  <2>12. CASE Export(r)
    BY <2>12 DEF Export
  <2>13. CASE DropTenancy(r)
    BY <2>13 DEF DropTenancy, SetTenancy
  <2>14. CASE Mark(r)
    BY <2>14 DEF Mark
  <2> QED
    BY <2>1, <2>2, <2>3, <2>4, <2>5, <2>6, <2>7, <2>8, <2>9, <2>10, <2>11, <2>12, <2>13, <2>14,
       <1>1, Zenon DEF Install
<1>2. ASSUME NEW r \in Requests, Task(r) PROVE HistoryTypes'
  <2>1. CASE FeaturesLive(r)
    BY <2>1 DEF FeaturesLive
  <2>2. CASE FeaturesTimeOut(r)
    BY <2>2 DEF FeaturesTimeOut
  <2>3. CASE Revert(r)
    BY <2>3 DEF Revert
  <2>4. CASE PrepperUp(r)
    BY <2>4 DEF PrepperUp
  <2>5. CASE PrepperTimeOut(r)
    BY <2>5 DEF PrepperTimeOut
  <2>6. CASE RollSpans(r)
    BY <2>6 DEF RollSpans
  <2>7. CASE CortexUp(r)
    BY <2>7 DEF CortexUp
  <2>8. CASE CortexTimeOut(r)
    BY <2>8 DEF CortexTimeOut
  <2>9. CASE FindConnection(r)
    BY <2>9 DEF FindConnection, Unseen
  <2>10. CASE FindEngine(r)
    BY <2>10 DEF FindEngine
  <2>11. CASE DropEngine(r)
    BY <2>11 DEF DropEngine
  <2>12. CASE Unpair(r)
    BY <2>12 DEF Unpair, Unseen
  <2>13. CASE Register(r)
    BY <2>13 DEF Register
  <2>14. CASE EnsureWorkspace(r)
    BY <2>14 DEF EnsureWorkspace
  <2>15. CASE Import(r)
    BY <2>15 DEF Import
  <2>16. CASE WritePatterns(r)
    BY <2>16 DEF WritePatterns, Write
  <2>17. CASE WriteBoards(r)
    BY <2>17 DEF WriteBoards, Write
  <2> QED
    BY <2>1, <2>2, <2>3, <2>4, <2>5, <2>6, <2>7, <2>8, <2>9, <2>10, <2>11, <2>12, <2>13, <2>14,
       <2>15, <2>16, <2>17, <1>2, Zenon DEF Task
<1>3. ASSUME NEW r \in Requests, Uninstall(r) PROVE HistoryTypes'
  <2>1. CASE Delete(r)
    BY <2>1 DEF Delete, Lost
  <2>2. CASE Unsave(r)
    BY <2>2 DEF Unsave, Unseen
  <2>3. CASE RemoveWorkspace(r)
    BY <2>3 DEF RemoveWorkspace
  <2>4. CASE Teardown(r)
    BY <2>4 DEF Teardown, TearsBoards
  <2>5. CASE Chosen(r)
    BY <2>5 DEF Chosen
  <2>6. CASE DropUi(r)
    BY <2>6 DEF DropUi
  <2>7. CASE Unchoose(r)
    BY <2>7 DEF Unchoose
  <2>8. CASE RestoreTenancy(r)
    BY <2>8 DEF RestoreTenancy, SetTenancy
  <2>9. CASE DropKeys(r)
    BY <2>9 DEF DropKeys
  <2>10. CASE DropIndices(r)
    BY <2>10 DEF DropIndices
  <2>11. CASE Unmark(r)
    BY <2>11 DEF Unmark
  <2> QED
    BY <2>1, <2>2, <2>3, <2>4, <2>5, <2>6, <2>7, <2>8, <2>9, <2>10, <2>11, <1>3,
       Zenon DEF Uninstall
<1>4. ASSUME NEW r \in Requests, Toggle(r) PROVE HistoryTypes'
  <2>1. CASE SetNextUi(r)
    BY <2>1 DEF SetNextUi
  <2>2. CASE NoteChoice(r)
    BY <2>2 DEF NoteChoice
  <2>3. CASE FlipTenancy(r)
    BY <2>3 DEF FlipTenancy
  <2> QED
    BY <2>1, <2>2, <2>3, <1>4, Zenon DEF Toggle
<1>5. ASSUME NEW r \in Requests, NEW k \in Kinds, Begin(r, k) PROVE HistoryTypes'
  BY <1>5 DEF Begin
<1>6. ASSUME NEW r \in Requests, CallFails(r) PROVE HistoryTypes'
  BY <1>6 DEF CallFails
<1>7. CASE Boot
  BY <1>7 DEF Boot
<1>8. CASE StartSink
  BY <1>8 DEF StartSink
<1>9. CASE Restart
  BY <1>9 DEF Restart
<1>10. CASE ReadPanel
  BY <1>10 DEF ReadPanel, Released
<1> QED
  BY <1>1, <1>2, <1>3, <1>4, <1>5, <1>6, <1>7, <1>8, <1>9, <1>10, Zenon DEF Next, Arrive

-----------------------------------------------------------------------------
(* Two steps that branch on what they read.                                   *)

LEMMA SeeUiGoes ==
  ASSUME Base, NEW r \in Requests, SeeUi(r)
  PROVE  /\ pc[r] = "seen" /\ pc' = [pc EXCEPT ![r] = pc'[r]] /\ pc'[r] \in {"export", "ui"}
         /\ pc'[r] = "export" => uiKeys
         /\ pc'[r] = "ui" => ~uiKeys \/ "ui" \in amiss'
         /\ amiss \subseteq amiss'
         /\ UNCHANGED <<kind, at, sees, migrates, carry, task, kept, config, stack, saved,
                   mixed, crossed, hidden, asked, torn, swept>>
<1> USE DEF Base, TypeOK, RequestTypes, HistoryTypes, ConfigTypes, Passes, Goes, Amiss,
      history, SeeUi, NeedUi
<1>1. CASE pc' = [pc EXCEPT ![r] = "export"] /\ uiKeys
  BY <1>1
<1>2. CASE pc' = [pc EXCEPT ![r] = "ui"]
  BY <1>2
<1> QED
  BY <1>1, <1>2

LEMMA ChosenGoes ==
  ASSUME Base, NEW r \in Requests, Chosen(r)
  PROVE  /\ pc[r] = "asked" /\ pc' = [pc EXCEPT ![r] = pc'[r]] /\ pc'[r] \in {"unkeys", "unui"}
         /\ pc'[r] = "unkeys" => chosen
         /\ pc'[r] = "unui" => ~chosen \/ "ui" \in amiss'
         /\ amiss \subseteq amiss'
         /\ UNCHANGED <<kind, at, sees, migrates, carry, task, kept, config, stack, saved,
                   mixed, crossed, hidden, asked, torn, swept>>
<1> USE DEF Base, TypeOK, RequestTypes, HistoryTypes, ConfigTypes, Passes, Goes, Amiss,
      history, Chosen
<1>1. CASE pc' = [pc EXCEPT ![r] = "unkeys"] /\ chosen
  BY <1>1
<1>2. CASE pc' = [pc EXCEPT ![r] = "unui"]
  BY <1>2
<1> QED
  BY <1>1, <1>2

-----------------------------------------------------------------------------
(* The step of a request, and that of a task, as far as the others go.        *)

Turn(r) ==
  /\ r \in UnderWay /\ pc'[r] # "idle" /\ pc' = [pc EXCEPT ![r] = pc'[r]]
  /\ mixed' = mixed /\ crossed' = crossed /\ hidden \subseteq hidden' /\ amiss \subseteq amiss'
  /\ dash' = dash /\ (marker' = "older" => marker = "older")
  /\ \A q \in Requests : q # r =>
       /\ kind'[q] = kind[q] /\ at'[q] = at[q] /\ sees'[q] = sees[q]
       /\ migrates'[q] = migrates[q] /\ task'[q] = task[q]
  /\ task'[r] # task[r] => pc'[r] = "over"
TaskTurn(r) ==
  /\ task[r] \notin {"off", "done"} /\ task'[r] # "off" /\ task' = [task EXCEPT ![r] = task'[r]]
  /\ UNCHANGED <<pc, kind, at, sees, migrates, dash, mixed, crossed, asked, swept, torn>>
  /\ UNCHANGED <<uiKeys, chosen, marker, multi, objects, policies, sink, template>>
  /\ amiss \subseteq amiss' /\ hidden \subseteq hidden'

LEMMA Turns ==
  ASSUME Base, NEW r \in Requests, OwnStep(r)
  PROVE  Turn(r)
<1> USE DEF Passes, Goes, Ends, Amiss, TaskGoes, config, prepper, stack, saved, kept, requests,
      history, Base, TypeOK, RequestTypes, HistoryTypes, ConfigTypes, Turn, UnderWay, Steps
<1>1. CASE Install(r)
  <2>1. CASE Refuse(r)
    BY <2>1 DEF Refuse
  <2>2. CASE Gate(r)
    BY <2>2 DEF Gate
  <2>3. CASE ClearTemplate(r)
    BY <2>3 DEF ClearTemplate
  <2>4. CASE KeepPolicies(r)
    <3>1. 0 < Len(Inventory)
      BY SinkAssumption DEF Objects
    <3>2. QED
      BY <2>4, <3>1 DEF KeepPolicies
  <2>5. CASE Apply(r)
    BY <2>5 DEF Apply
  <2>6. CASE Release(r)
    BY <2>6 DEF Release, Released
  <2>7. CASE Probe(r)
    BY <2>7 DEF Probe
  <2>8. CASE SetKeys(r)
    BY <2>8 DEF SetKeys
  <2>9. CASE SeeUi(r)
    BY <2>9, SeeUiGoes
  <2>10. CASE SetUi(r)
    BY <2>10 DEF SetUi
  <2>11. CASE Unnote(r)
    BY <2>11 DEF Unnote
  <2>12. CASE Export(r)
    BY <2>12 DEF Export
  <2>13. CASE DropTenancy(r)
    BY <2>13 DEF DropTenancy, SetTenancy
  <2>14. CASE Mark(r)
    BY <2>14 DEF Mark
  <2> QED
    BY <2>1, <2>2, <2>3, <2>4, <2>5, <2>6, <2>7, <2>8, <2>9, <2>10, <2>11, <2>12, <2>13, <2>14,
       <1>1, Zenon DEF Install
<1>2. CASE Uninstall(r)
  <2>1. CASE Delete(r)
    BY <2>1 DEF Delete, Lost
  <2>2. CASE Unsave(r)
    BY <2>2 DEF Unsave, Unseen
  <2>3. CASE RemoveWorkspace(r)
    BY <2>3 DEF RemoveWorkspace
  <2>4. CASE Teardown(r)
    BY <2>4 DEF Teardown, TearsBoards
  <2>5. CASE Chosen(r)
    BY <2>5, ChosenGoes
  <2>6. CASE DropUi(r)
    BY <2>6 DEF DropUi
  <2>7. CASE Unchoose(r)
    BY <2>7 DEF Unchoose
  <2>8. CASE RestoreTenancy(r)
    BY <2>8 DEF RestoreTenancy, SetTenancy
  <2>9. CASE DropKeys(r)
    BY <2>9 DEF DropKeys
  <2>10. CASE DropIndices(r)
    BY <2>10 DEF DropIndices
  <2>11. CASE Unmark(r)
    BY <2>11 DEF Unmark
  <2> QED
    BY <2>1, <2>2, <2>3, <2>4, <2>5, <2>6, <2>7, <2>8, <2>9, <2>10, <2>11, <1>2,
       Zenon DEF Uninstall
<1>3. CASE Toggle(r)
  <2>1. CASE SetNextUi(r)
    BY <2>1 DEF SetNextUi
  <2>2. CASE NoteChoice(r)
    BY <2>2 DEF NoteChoice
  <2>3. CASE FlipTenancy(r)
    BY <2>3 DEF FlipTenancy
  <2> QED
    BY <2>1, <2>2, <2>3, <1>3, Zenon DEF Toggle
<1>4. CASE CallFails(r)
  <2>1. /\ Ends(r) /\ amiss \subseteq amiss'
        /\ UNCHANGED <<sees, migrates, carry, task, config, stack, saved, kept,
                       mixed, crossed, hidden, asked, torn, swept>>
    BY <1>4 DEF CallFails
  <2>2. pc[r] \notin {"idle", "over"}
    BY <1>4 DEF CallFails, Fatal, FatalUi
  <2>3. QED
    BY <2>1, <2>2
<1> QED
  BY <1>1, <1>2, <1>3, <1>4, Zenon DEF OwnStep

LEMMA TaskTurns ==
  ASSUME Base, NEW r \in Requests, Task(r)
  PROVE  TaskTurn(r)
<1> USE DEF Passes, Goes, Ends, Amiss, TaskGoes, config, prepper, stack, saved, kept, requests,
      history, Base, TypeOK, RequestTypes, HistoryTypes, TaskTurn, AfterFeatures
<1>1. CASE Task(r)
  <2>1. CASE FeaturesLive(r)
    BY <2>1 DEF FeaturesLive
  <2>2. CASE FeaturesTimeOut(r)
    BY <2>2 DEF FeaturesTimeOut
  <2>3. CASE Revert(r)
    BY <2>3 DEF Revert
  <2>4. CASE PrepperUp(r)
    BY <2>4 DEF PrepperUp
  <2>5. CASE PrepperTimeOut(r)
    BY <2>5 DEF PrepperTimeOut
  <2>6. CASE RollSpans(r)
    BY <2>6 DEF RollSpans
  <2>7. CASE CortexUp(r)
    BY <2>7 DEF CortexUp
  <2>8. CASE CortexTimeOut(r)
    BY <2>8 DEF CortexTimeOut
  <2>9. CASE FindConnection(r)
    BY <2>9 DEF FindConnection, Unseen, AfterDatasource
  <2>10. CASE FindEngine(r)
    BY <2>10 DEF FindEngine, AfterDatasource
  <2>11. CASE DropEngine(r)
    BY <2>11 DEF DropEngine
  <2>12. CASE Unpair(r)
    BY <2>12 DEF Unpair, Unseen
  <2>13. CASE Register(r)
    BY <2>13 DEF Register, AfterDatasource
  <2>14. CASE EnsureWorkspace(r)
    BY <2>14 DEF EnsureWorkspace
  <2>15. CASE Import(r)
    BY <2>15 DEF Import
  <2>16. CASE WritePatterns(r)
    BY <2>16 DEF WritePatterns, Write
  <2>17. CASE WriteBoards(r)
    BY <2>17 DEF WriteBoards, Write
  <2> QED
    BY <2>1, <2>2, <2>3, <2>4, <2>5, <2>6, <2>7, <2>8, <2>9, <2>10, <2>11, <2>12, <2>13, <2>14,
       <2>15, <2>16, <2>17, <1>1, Zenon DEF Task
<1> QED
  BY <1>1, Zenon

LEMMA PlaceTurns ==
  ASSUME Base, NEW r \in Requests, OwnStep(r)
  PROVE  PlaceAt(r)'
<1> USE SinkAssumption DEF Passes, Goes, Ends, Amiss, TaskGoes, config, prepper, stack, saved,
      kept, requests, history, Base, TypeOK, RequestTypes, HistoryTypes, ConfigTypes, Places,
      PlaceAt
<1>1. CASE Install(r)
  <2>1. CASE Refuse(r)
    BY <2>1 DEF Refuse
  <2>2. CASE Gate(r)
    BY <2>2 DEF Gate
  <2>3. CASE ClearTemplate(r)
    BY <2>3 DEF ClearTemplate
  <2>4. CASE KeepPolicies(r)
    <3>1. 0 < Len(Inventory)
      BY SinkAssumption DEF Objects
    <3>2. QED
      BY <2>4, <3>1 DEF KeepPolicies
  <2>5. CASE Apply(r)
    BY <2>5 DEF Apply
  <2>6. CASE Release(r)
    BY <2>6 DEF Release, Released
  <2>7. CASE Probe(r)
    BY <2>7 DEF Probe
  <2>8. CASE SetKeys(r)
    BY <2>8 DEF SetKeys
  <2>9. CASE SeeUi(r)
    BY <2>9, SeeUiGoes
  <2>10. CASE SetUi(r)
    BY <2>10 DEF SetUi
  <2>11. CASE Unnote(r)
    BY <2>11 DEF Unnote
  <2>12. CASE Export(r)
    BY <2>12 DEF Export
  <2>13. CASE DropTenancy(r)
    BY <2>13 DEF DropTenancy, SetTenancy
  <2>14. CASE Mark(r)
    BY <2>14 DEF Mark
  <2> QED
    BY <2>1, <2>2, <2>3, <2>4, <2>5, <2>6, <2>7, <2>8, <2>9, <2>10, <2>11, <2>12, <2>13, <2>14,
       <1>1, Zenon DEF Install
<1>2. CASE Uninstall(r)
  <2>1. CASE Delete(r)
    BY <2>1 DEF Delete, Lost
  <2>2. CASE Unsave(r)
    BY <2>2 DEF Unsave
  <2>3. CASE RemoveWorkspace(r)
    BY <2>3 DEF RemoveWorkspace
  <2>4. CASE Teardown(r)
    BY <2>4 DEF Teardown
  <2>5. CASE Chosen(r)
    BY <2>5, ChosenGoes
  <2>6. CASE DropUi(r)
    BY <2>6 DEF DropUi
  <2>7. CASE Unchoose(r)
    BY <2>7 DEF Unchoose
  <2>8. CASE RestoreTenancy(r)
    BY <2>8 DEF RestoreTenancy, SetTenancy
  <2>9. CASE DropKeys(r)
    BY <2>9 DEF DropKeys
  <2>10. CASE DropIndices(r)
    BY <2>10 DEF DropIndices
  <2>11. CASE Unmark(r)
    BY <2>11 DEF Unmark
  <2> QED
    BY <2>1, <2>2, <2>3, <2>4, <2>5, <2>6, <2>7, <2>8, <2>9, <2>10, <2>11, <1>2,
       Zenon DEF Uninstall
<1>3. CASE Toggle(r)
  <2>1. CASE SetNextUi(r)
    BY <2>1 DEF SetNextUi
  <2>2. CASE NoteChoice(r)
    BY <2>2 DEF NoteChoice
  <2>3. CASE FlipTenancy(r)
    BY <2>3 DEF FlipTenancy
  <2> QED
    BY <2>1, <2>2, <2>3, <1>3, Zenon DEF Toggle
<1>4. CASE CallFails(r)
  <2>1. Ends(r) /\ UNCHANGED <<sees, task, config, kept>> /\ pc[r] # "over"
    BY <1>4 DEF CallFails, Fatal, FatalUi
  <2>2. QED
    BY <2>1
<1> QED
  BY <1>1, <1>2, <1>3, <1>4, Zenon DEF OwnStep

-----------------------------------------------------------------------------
(* A step that begins a request.                                              *)

LEMMA Beginning ==
  ASSUME Base, NEW r \in Requests, NEW k \in Kinds, Begin(r, k)
  PROVE  LET first == FirstStep(k) IN
         /\ pc[r] = "idle" /\ sink # "new"
         /\ first \in {"gate", "delete", "set"} /\ pc' = [pc EXCEPT ![r] = first]
         /\ first = "gate" <=> k = "install"
         /\ first = "delete" <=> k = "uninstall"
         /\ kind' = [kind EXCEPT ![r] = k]
         /\ at' = [at EXCEPT ![r] = at'[r]]
         /\ at'[r] = IF k = "uninstall" THEN Len(Inventory) ELSE 0
         /\ mixed' = (mixed \/ UnderWay # {}) /\ crossed' = (crossed \/ Deferred # {})
         /\ torn' = (torn \/ k = "uninstall") /\ swept' = (swept /\ k # "install")
         /\ \A q \in Requests : q \notin UnderWay \cup Deferred => ~sees'[q] /\ ~migrates'[q]
         /\ \A q \in Requests : sees'[q] => sees[q]
         /\ \A q \in Requests : migrates'[q] => migrates[q]
         /\ task' = [q \in Requests |-> IF q \in Deferred THEN task[q] ELSE "off"]
         /\ UNCHANGED <<amiss, hidden, asked, config, stack, saved, kept>>
<1>1. FirstStep(k) \in {"gate", "delete", "set"}
      /\ (FirstStep(k) = "gate" <=> k = "install") /\ (FirstStep(k) = "delete" <=> k = "uninstall")
  BY DEF FirstStep
<1> DEFINE first == FirstStep(k)
<1> HIDE DEF first
<1>2. /\ pc[r] = "idle" /\ sink # "new" /\ pc' = [pc EXCEPT ![r] = first]
      /\ kind' = [kind EXCEPT ![r] = k]
      /\ at' = [at EXCEPT ![r] = IF k = "uninstall" THEN Len(Inventory) ELSE 0]
  BY DEF Begin, Goes, first
<1>3. at' = [at EXCEPT ![r] = at'[r]] /\ at'[r] = IF k = "uninstall" THEN Len(Inventory) ELSE 0
  BY <1>2 DEF Base, TypeOK, RequestTypes
<1>4. /\ \A q \in Requests : sees'[q] = (q \in UnderWay \cup Deferred /\ sees[q])
      /\ \A q \in Requests : migrates'[q] = (q \in UnderWay \cup Deferred /\ migrates[q])
  BY DEF Begin, Living
<1>5. /\ mixed' = (mixed \/ UnderWay # {}) /\ crossed' = (crossed \/ Deferred # {})
      /\ torn' = (torn \/ k = "uninstall") /\ swept' = (swept /\ k # "install")
      /\ task' = [q \in Requests |-> IF q \in Deferred THEN task[q] ELSE "off"]
      /\ UNCHANGED <<amiss, hidden, asked, config, stack, saved, kept>>
  BY DEF Begin
<1> QED
  BY <1>1, <1>2, <1>3, <1>4, <1>5 DEF first

LEMMA PlacesKept ==
  ASSUME Base, Next
  PROVE  Places'
<1> USE DEF Base, TypeOK, RequestTypes, ConfigTypes
<1>1. ASSUME NEW r \in Requests, OwnStep(r)
      PROVE  Places'
  <2>1. Turn(r)
    BY <1>1, Turns
  <2>2. PlaceAt(r)'
    BY <1>1, PlaceTurns
  <2>3. QED
    BY <2>1, <2>2 DEF Turn, Places, PlaceAt
<1>2. ASSUME NEW r \in Requests, Task(r) PROVE Places'
  <2>1. TaskTurn(r)
    BY <1>2, TaskTurns
  <2>2. QED
    BY <2>1 DEF TaskTurn, Places, PlaceAt
<1>3. ASSUME NEW r \in Requests, NEW k \in Kinds, Begin(r, k) PROVE Places'
  <2> DEFINE first == FirstStep(k)
  <2>1. /\ pc[r] = "idle" /\ pc' = [pc EXCEPT ![r] = first] /\ first \in {"gate", "delete", "set"}
        /\ first = "delete" <=> k = "uninstall"
        /\ at' = [at EXCEPT ![r] = at'[r]]
        /\ at'[r] = IF k = "uninstall" THEN Len(Inventory) ELSE 0
        /\ \A q \in Requests : sees'[q] => sees[q]
        /\ task' = [q \in Requests |-> IF q \in Deferred THEN task[q] ELSE "off"]
        /\ marker' = marker /\ dash' = dash
    BY <1>3, Beginning DEF config, kept
  <2> HIDE DEF first
  <2>2. 0 < Len(Inventory)
    BY SinkAssumption DEF Objects
  <2>3. PlaceAt(r)'
    BY <2>1, <2>2 DEF Places, PlaceAt
  <2>4. ASSUME NEW q \in Requests, q # r PROVE PlaceAt(q)'
    BY <2>1, <2>4 DEF Places, PlaceAt
  <2>5. QED
    BY <2>3, <2>4 DEF Places
<1>4. CASE Boot \/ StartSink \/ ReadPanel
  BY <1>4 DEF Boot, StartSink, ReadPanel, Places, PlaceAt, requests, kept, config
<1>5. CASE Restart
  <2>1. ASSUME NEW q \in Requests PROVE PlaceAt(q)'
    <3>1. /\ pc'[q] \in {"idle", "over"} /\ (pc'[q] = "idle" => pc[q] = "idle")
          /\ (task'[q] = "off" <=> task[q] = "off")
      BY <1>5 DEF Restart, UnderWay, Deferred
    <3>2. marker' = marker /\ dash' = dash /\ sees' = sees
      BY <1>5 DEF Restart, config, kept
    <3>3. QED
      BY <3>1, <3>2 DEF Places, PlaceAt
  <2>2. QED
    BY <2>1 DEF Places
<1> QED
  BY <1>1, <1>2, <1>3, <1>4, <1>5, Zenon DEF Next, Arrive, OwnStep

LEMMA SingleKept ==
  ASSUME Base, Next
  PROVE  Single' /\ Apart'
<1> USE DEF Base, TypeOK, RequestTypes, HistoryTypes, UnderWay, Deferred, Busy
<1>1. ASSUME NEW r \in Requests, OwnStep(r)
      PROVE  Single' /\ Apart'
  <2>1. Turn(r)
    BY <1>1, Turns
  <2>2. Single'
    BY <2>1 DEF Turn, Single
  <2>3. Apart'
    BY <2>1 DEF Turn, Apart
  <2>4. QED
    BY <2>2, <2>3
<1>2. ASSUME NEW r \in Requests, Task(r) PROVE Single' /\ Apart'
  <2>1. TaskTurn(r)
    BY <1>2, TaskTurns
  <2>2. QED
    BY <2>1 DEF TaskTurn, Single, Apart
<1>3. ASSUME NEW r \in Requests, NEW k \in Kinds, Begin(r, k) PROVE Single' /\ Apart'
  <2> DEFINE first == FirstStep(k)
  <2>1. /\ pc' = [pc EXCEPT ![r] = first] /\ first \in {"gate", "delete", "set"}
        /\ mixed' = (mixed \/ UnderWay # {}) /\ crossed' = (crossed \/ Deferred # {})
        /\ task' = [q \in Requests |-> IF q \in Deferred THEN task[q] ELSE "off"]
    BY <1>3, Beginning
  <2> HIDE DEF first
  <2>2. Single'
    BY <2>1 DEF Single
  <2>3. ASSUME ~mixed', ~crossed', NEW q \in Requests, Busy(q)' PROVE q = r
    <3>1. UnderWay = {} /\ Deferred = {}
      BY <2>1, <2>3
    <3>2. q # r => pc'[q] = pc[q] /\ task'[q] = "off"
      BY <2>1, <3>1
    <3>3. QED
      BY <2>3, <3>1, <3>2
  <2>4. QED
    BY <2>2, <2>3 DEF Apart
<1>4. CASE Boot \/ StartSink \/ ReadPanel
  BY <1>4 DEF Boot, StartSink, ReadPanel, Single, Apart, requests, history
<1>5. CASE Restart
  <2>1. \A q \in Requests : pc'[q] \in {"idle", "over"} /\ (task'[q] # "off" => task[q] # "off")
    BY <1>5 DEF Restart
  <2>2. mixed' = mixed /\ crossed' = crossed
    BY <1>5 DEF Restart, Amiss
  <2>3. QED
    BY <2>1, <2>2 DEF Single, Apart
<1> QED
  BY <1>1, <1>2, <1>3, <1>4, <1>5, Zenon DEF Next, Arrive, OwnStep

-----------------------------------------------------------------------------
(* A request under way is the only one, and a request by itself is busy.      *)

LEMMA Alone ==
  ASSUME Base, NEW r \in Requests, Turn(r), ~mixed
  PROVE  UnderWay = {r} /\ (UnderWay' = IF pc'[r] = "over" THEN {} ELSE {r})
<1> USE DEF Base, TypeOK, RequestTypes
<1>1. \A q \in UnderWay : q = r
  BY DEF Single, Turn
<1>2. r \in UnderWay
  BY DEF Turn
<1>3. \A q \in Requests : q # r => q \notin UnderWay' /\ (q \in UnderWay' <=> q \in UnderWay)
  BY <1>1 DEF Turn, UnderWay
<1>4. r \in UnderWay' <=> pc'[r] # "over"
  BY DEF Turn, UnderWay
<1> QED
  BY <1>1, <1>2, <1>3, <1>4 DEF UnderWay

-----------------------------------------------------------------------------
(* The two halves of the UI.                                                  *)

LEMMA UiTurns ==
  ASSUME Base, NEW r \in Requests, OwnStep(r), "ui" \notin amiss', UiAt(r)
  PROVE  (pc'[r] = "over" => Quiet') /\ (pc'[r] # "over" => UiAt(r)')
<1> USE DEF Passes, Goes, Ends, Amiss, TaskGoes, config, prepper, stack, saved, kept, requests,
      history, Base, TypeOK, RequestTypes, HistoryTypes, ConfigTypes, StackTypes, SavedTypes,
      Places, PlaceAt, UiAt, Agree, Quiet, Wants, InstallSteps
<1>1. CASE Install(r)
  <2>1. CASE Refuse(r)
    BY <2>1 DEF Refuse
  <2>2. CASE Gate(r)
    BY <2>2 DEF Gate
  <2>3. CASE ClearTemplate(r)
    BY <2>3 DEF ClearTemplate
  <2>4. CASE KeepPolicies(r)
    BY <2>4 DEF KeepPolicies
  <2>5. CASE Apply(r)
    BY <2>5 DEF Apply
  <2>6. CASE Release(r)
    BY <2>6 DEF Release, Released
  <2>7. CASE Probe(r)
    BY <2>7 DEF Probe
  <2>8. CASE SetKeys(r)
    BY <2>8 DEF SetKeys
  <2>9. CASE SeeUi(r)
    BY <2>9, SeeUiGoes DEF Base, TypeOK
  <2>10. CASE SetUi(r)
    BY <2>10 DEF SetUi
  <2>11. CASE Unnote(r)
    BY <2>11 DEF Unnote
  <2>12. CASE Export(r)
    BY <2>12 DEF Export
  <2>13. CASE DropTenancy(r)
    BY <2>13 DEF DropTenancy, SetTenancy
  <2>14. CASE Mark(r)
    BY <2>14 DEF Mark
  <2> QED
    BY <2>1, <2>2, <2>3, <2>4, <2>5, <2>6, <2>7, <2>8, <2>9, <2>10, <2>11, <2>12, <2>13, <2>14,
       <1>1, Zenon DEF Install
<1>2. CASE Uninstall(r)
  <2>1. CASE Delete(r)
    BY <2>1 DEF Delete, Lost
  <2>2. CASE Unsave(r)
    BY <2>2 DEF Unsave
  <2>3. CASE RemoveWorkspace(r)
    BY <2>3 DEF RemoveWorkspace
  <2>4. CASE Teardown(r)
    BY <2>4 DEF Teardown
  <2>5. CASE Chosen(r)
    BY <2>5, ChosenGoes DEF Base, TypeOK
  <2>6. CASE DropUi(r)
    BY <2>6 DEF DropUi
  <2>7. CASE Unchoose(r)
    BY <2>7 DEF Unchoose
  <2>8. CASE RestoreTenancy(r)
    BY <2>8 DEF RestoreTenancy, SetTenancy
  <2>9. CASE DropKeys(r)
    BY <2>9 DEF DropKeys
  <2>10. CASE DropIndices(r)
    BY <2>10 DEF DropIndices
  <2>11. CASE Unmark(r)
    BY <2>11 DEF Unmark
  <2> QED
    BY <2>1, <2>2, <2>3, <2>4, <2>5, <2>6, <2>7, <2>8, <2>9, <2>10, <2>11, <1>2,
       Zenon DEF Uninstall
<1>3. CASE Toggle(r)
  <2>1. CASE SetNextUi(r)
    BY <2>1 DEF SetNextUi
  <2>2. CASE NoteChoice(r)
    BY <2>2 DEF NoteChoice
  <2>3. CASE FlipTenancy(r)
    BY <2>3 DEF FlipTenancy
  <2> QED
    BY <2>1, <2>2, <2>3, <1>3, Zenon DEF Toggle
<1>4. CASE CallFails(r)
  <2>1. /\ Ends(r) /\ UNCHANGED <<config, stack, swept, asked>> /\ pc[r] \in Fatal \cup FatalUi
        /\ pc[r] \in FatalUi => "ui" \in amiss'
    BY <1>4 DEF CallFails, Fatal, FatalUi
  <2>2. QED
    BY <2>1 DEF Fatal, FatalUi
<1> QED
  BY <1>1, <1>2, <1>3, <1>4, Zenon DEF OwnStep

LEMMA UiKept ==
  ASSUME Base, Next, UiTold
  PROVE  UiTold'
<1> USE DEF UiTold
<1>1. ASSUME NEW r \in Requests, OwnStep(r)
      PROVE  UiTold'
  <2>1. SUFFICES ASSUME ~mixed', amiss' \cap {"ui", "restart"} = {}
        PROVE  (UnderWay' = {} => Quiet') /\ (\A q \in UnderWay' : UiAt(q)')
    OBVIOUS
  <2>2. Turn(r)
    BY <1>1, Turns
  <2>3. ~mixed /\ amiss \cap {"ui", "restart"} = {}
    BY <2>1, <2>2 DEF Turn
  <2>4. UnderWay = {r} /\ (UnderWay' = IF pc'[r] = "over" THEN {} ELSE {r})
    BY <2>2, <2>3, Alone
  <2>5. UiAt(r)
    BY <2>3, <2>4
  <2>6. (pc'[r] = "over" => Quiet') /\ (pc'[r] # "over" => UiAt(r)')
    BY <1>1, <2>1, <2>5, UiTurns
  <2>7. QED
    BY <2>4, <2>6
<1>2. CASE /\ UNCHANGED <<uiKeys, chosen, multi, asked, swept, pc, kind, mixed>>
          /\ amiss \subseteq amiss'
  BY <1>2 DEF UnderWay, UiAt, Quiet, Agree, Wants
<1>3. ASSUME NEW r \in Requests, Task(r) PROVE UiTold'
  <2>1. TaskTurn(r)
    BY <1>3, TaskTurns
  <2>2. QED
    BY <1>2, <2>1 DEF TaskTurn
<1>4. ASSUME NEW r \in Requests, NEW k \in Kinds, Begin(r, k) PROVE UiTold'
  <2> DEFINE first == FirstStep(k)
  <2>1. /\ pc' = [pc EXCEPT ![r] = first] /\ first \in {"gate", "delete", "set"}
        /\ first = "gate" <=> k = "install"
        /\ mixed' = (mixed \/ UnderWay # {}) /\ swept' = (swept /\ k # "install")
        /\ UNCHANGED <<amiss, asked, uiKeys, chosen, multi>>
    BY <1>4, Beginning DEF config, stack
  <2> HIDE DEF first
  <2>2. SUFFICES ASSUME ~mixed', amiss \cap {"ui", "restart"} = {}
        PROVE  UiAt(r)' /\ (\A q \in UnderWay' : q = r) /\ UnderWay' # {}
    BY <2>1
  <2>3. UnderWay = {} /\ Quiet /\ pc'[r] = first
    BY <2>1, <2>2 DEF Base, TypeOK, RequestTypes, HistoryTypes
  <2>4. UiAt(r)'
    BY <2>1, <2>3 DEF UiAt, Quiet, Agree, InstallSteps
  <2>5. QED
    BY <2>1, <2>3, <2>4 DEF UnderWay, Base, TypeOK, RequestTypes
<1>5. CASE Boot \/ StartSink \/ ReadPanel
  <2>1. UNCHANGED <<uiKeys, chosen, multi, asked, swept, pc, kind, mixed, amiss>>
    BY <1>5 DEF Boot, StartSink, ReadPanel, config, requests, history, stack
  <2>2. QED
    BY <1>2, <2>1
<1>6. CASE Restart
  BY <1>6 DEF Restart, Amiss
<1> QED
  BY <1>1, <1>3, <1>4, <1>5, <1>6, Zenon DEF Next, Arrive, OwnStep

-----------------------------------------------------------------------------
(* The objects.                                                               *)

LEMMA UptoNext ==
  ASSUME NEW n \in Nat, n < Len(Inventory)
  PROVE  /\ Inventory[n + 1] \in Objects
         /\ Upto(n + 1) = Upto(n) \cup {Inventory[n + 1]}
         /\ Upto(Len(Inventory)) = Objects /\ Upto(0) = {}
<1>1. Len(Inventory) \in Nat /\ DOMAIN Inventory = 1 .. Len(Inventory)
  BY SinkAssumption
<1>2. Upto(Len(Inventory)) = Objects
  BY <1>1 DEF Upto, Objects
<1>3. Inventory[n + 1] \in Objects
  BY <1>1 DEF Objects
<1>4. 1 .. n + 1 = (1 .. n) \cup {n + 1}
  OBVIOUS
<1>5. Upto(n + 1) = Upto(n) \cup {Inventory[n + 1]}
  BY <1>4 DEF Upto
<1>6. Upto(0) = {}
  BY DEF Upto
<1> QED
  BY <1>2, <1>3, <1>5, <1>6

LEMMA ObjectsTurns ==
  ASSUME Base, NEW r \in Requests, OwnStep(r), "delete" \notin amiss', Stored, ObjectsAt(r)
  PROVE  Stored' /\ (pc'[r] # "over" => ObjectsAt(r)')
<1> USE DEF Passes, Goes, Ends, Amiss, TaskGoes, config, prepper, stack, saved, kept, requests,
      history, Base, TypeOK, RequestTypes, HistoryTypes, ConfigTypes, StackTypes, SavedTypes,
      Places, PlaceAt, ObjectsAt, Stored, UninstallSteps, InstallSteps
<1>1. CASE Install(r)
  <2>1. CASE Refuse(r)
    BY <2>1 DEF Refuse
  <2>2. CASE Gate(r)
    BY <2>2 DEF Gate
  <2>3. CASE ClearTemplate(r)
    BY <2>3 DEF ClearTemplate
  <2>4. CASE KeepPolicies(r)
    <3>1. 0 < Len(Inventory)
      BY SinkAssumption DEF Objects
    <3>2. Upto(0) = {}
      BY <3>1, UptoNext
    <3>3. QED
      BY <2>4, <3>2 DEF KeepPolicies
  <2>5. CASE Apply(r)
    <3> DEFINE n == at[r]
               o == Inventory[n + 1]
    <3>1. n \in Nat /\ n < Len(Inventory) /\ Upto(n) \subseteq objects
      BY <2>5 DEF Apply
    <3>2. objects' = objects \cup {o} /\ o \in Objects
      BY <2>5, <3>1, UptoNext DEF Apply
    <3>3. at'[r] = n + 1
      BY <2>5 DEF Apply
    <3>4. pc'[r] = IF n + 1 = Len(Inventory) THEN "release" ELSE "apply"
      BY <2>5, <3>3 DEF Apply
    <3>5. Upto(n + 1) \subseteq objects' /\ Upto(Len(Inventory)) = Objects
      BY <3>1, <3>2, UptoNext
    <3>6. UNCHANGED <<policies, marker, torn>> /\ policies
      BY <2>5 DEF Apply
    <3>7. objects' \subseteq Objects
      BY <3>2
    <3> HIDE DEF n, o
    <3>8. Stored'
      BY <3>2, <3>6, <3>7
    <3>9. pc'[r] = "release" => objects' = Objects
      BY <3>4, <3>5, <3>7
    <3>10. pc'[r] \in {"apply", "release"}
      BY <3>4
    <3>11. ObjectsAt(r)'
      BY <3>3, <3>5, <3>6, <3>9, <3>10, SMTT(30)
    <3>12. QED
      BY <3>8, <3>11
  <2>6. CASE Release(r)
    BY <2>6 DEF Release, Released
  <2>7. CASE Probe(r)
    BY <2>7 DEF Probe
  <2>8. CASE SetKeys(r)
    BY <2>8 DEF SetKeys
  <2>9. CASE SeeUi(r)
    BY <2>9, SeeUiGoes DEF UninstallSteps
  <2>10. CASE SetUi(r)
    BY <2>10 DEF SetUi
  <2>11. CASE Unnote(r)
    BY <2>11 DEF Unnote
  <2>12. CASE Export(r)
    BY <2>12 DEF Export
  <2>13. CASE DropTenancy(r)
    BY <2>13 DEF DropTenancy, SetTenancy
  <2>14. CASE Mark(r)
    BY <2>14 DEF Mark
  <2> QED
    BY <2>1, <2>2, <2>3, <2>4, <2>5, <2>6, <2>7, <2>8, <2>9, <2>10, <2>11, <2>12, <2>13, <2>14,
       <1>1, Zenon DEF Install
<1>2. CASE Uninstall(r)
  <2>1. CASE Delete(r)
    <3> DEFINE n == at[r] - 1
    <3>0. at[r] \in Nat /\ n \in Nat /\ n + 1 = at[r] /\ n < Len(Inventory)
      BY <2>1, SinkAssumption DEF Delete
    <3>1. objects \subseteq Upto(n + 1)
      BY <2>1, <3>0 DEF Delete
    <3>2. objects' = objects \ {Inventory[n + 1]}
      <4>1. objects' = objects \ {Inventory[at[r]]}
        BY <2>1 DEF Delete, Lost
      <4>2. QED
        BY <3>0, <4>1
    <3>3. objects' \subseteq Upto(n) /\ (n = 0 => objects' = {})
      BY <3>0, <3>1, <3>2, UptoNext
    <3>4. at'[r] = n /\ pc'[r] = IF n = 0 THEN "unsave" ELSE "delete"
      BY <2>1, <3>0 DEF Delete
    <3>5. UNCHANGED <<policies, marker, torn>> /\ torn
      BY <2>1 DEF Delete, Lost
    <3> HIDE DEF n
    <3>6. Stored'
      BY <3>2, <3>5
    <3>7. QED
      BY <3>3, <3>4, <3>5, <3>6
  <2>2. CASE Unsave(r)
    BY <2>2 DEF Unsave
  <2>3. CASE RemoveWorkspace(r)
    BY <2>3 DEF RemoveWorkspace
  <2>4. CASE Teardown(r)
    BY <2>4 DEF Teardown
  <2>5. CASE Chosen(r)
    BY <2>5, ChosenGoes DEF UninstallSteps
  <2>6. CASE DropUi(r)
    BY <2>6 DEF DropUi
  <2>7. CASE Unchoose(r)
    BY <2>7 DEF Unchoose
  <2>8. CASE RestoreTenancy(r)
    BY <2>8 DEF RestoreTenancy, SetTenancy
  <2>9. CASE DropKeys(r)
    BY <2>9 DEF DropKeys
  <2>10. CASE DropIndices(r)
    BY <2>10 DEF DropIndices
  <2>11. CASE Unmark(r)
    BY <2>11 DEF Unmark
  <2> QED
    BY <2>1, <2>2, <2>3, <2>4, <2>5, <2>6, <2>7, <2>8, <2>9, <2>10, <2>11, <1>2,
       Zenon DEF Uninstall
<1>3. CASE Toggle(r)
  <2>1. CASE SetNextUi(r)
    BY <2>1 DEF SetNextUi
  <2>2. CASE NoteChoice(r)
    BY <2>2 DEF NoteChoice
  <2>3. CASE FlipTenancy(r)
    BY <2>3 DEF FlipTenancy
  <2> QED
    BY <2>1, <2>2, <2>3, <1>3, Zenon DEF Toggle
<1>4. CASE CallFails(r)
  <2>1. Ends(r) /\ UNCHANGED <<config, stack, torn>>
    BY <1>4 DEF CallFails
  <2>2. QED
    BY <2>1
<1> QED
  BY <1>1, <1>2, <1>3, <1>4, Zenon DEF OwnStep

LEMMA ObjectsKept ==
  ASSUME Base, Next, ObjectsTold
  PROVE  ObjectsTold'
<1> USE DEF ObjectsTold
<1>1. ASSUME NEW r \in Requests, OwnStep(r)
      PROVE  ObjectsTold'
  <2>1. SUFFICES ASSUME ~mixed', "delete" \notin amiss'
        PROVE  Stored' /\ (\A q \in UnderWay' : ObjectsAt(q)')
    OBVIOUS
  <2>2. Turn(r)
    BY <1>1, Turns
  <2>3. ~mixed /\ "delete" \notin amiss
    BY <2>1, <2>2 DEF Turn
  <2>4. UnderWay = {r} /\ (UnderWay' = IF pc'[r] = "over" THEN {} ELSE {r})
    BY <2>2, <2>3, Alone
  <2>5. Stored /\ ObjectsAt(r)
    BY <2>3, <2>4
  <2>6. Stored' /\ (pc'[r] # "over" => ObjectsAt(r)')
    BY <1>1, <2>1, <2>5, ObjectsTurns
  <2>7. QED
    BY <2>4, <2>6
<1>2. CASE /\ UNCHANGED <<objects, policies, marker, torn, pc, at, mixed>>
          /\ amiss \subseteq amiss'
  BY <1>2 DEF UnderWay, ObjectsAt, Stored
<1>3. ASSUME NEW r \in Requests, Task(r) PROVE ObjectsTold'
  <2>1. TaskTurn(r)
    BY <1>3, TaskTurns
  <2>2. QED
    BY <1>2, <2>1 DEF TaskTurn
<1>4. ASSUME NEW r \in Requests, NEW k \in Kinds, Begin(r, k) PROVE ObjectsTold'
  <2> DEFINE first == FirstStep(k)
  <2>1. /\ pc' = [pc EXCEPT ![r] = first] /\ first \in {"gate", "delete", "set"}
        /\ first = "delete" <=> k = "uninstall"
        /\ at'[r] = IF k = "uninstall" THEN Len(Inventory) ELSE 0
        /\ mixed' = (mixed \/ UnderWay # {}) /\ torn' = (torn \/ k = "uninstall")
        /\ UNCHANGED <<amiss, objects, policies, marker>>
    BY <1>4, Beginning DEF config, stack
  <2> HIDE DEF first
  <2>2. SUFFICES ASSUME ~mixed', "delete" \notin amiss
        PROVE  Stored' /\ ObjectsAt(r)' /\ (\A q \in UnderWay' : q = r)
    BY <2>1
  <2>3. UnderWay = {} /\ Stored /\ pc'[r] = first
    BY <2>1, <2>2 DEF Base, TypeOK, RequestTypes, HistoryTypes
  <2>4. objects \subseteq Upto(Len(Inventory))
    BY SinkAssumption DEF Upto, Base, TypeOK, StackTypes, Objects
  <2>5. Stored' /\ ObjectsAt(r)'
    BY <2>1, <2>3, <2>4 DEF Stored, ObjectsAt, UninstallSteps, InstallSteps, Base, TypeOK,
       HistoryTypes
  <2>6. QED
    BY <2>1, <2>3, <2>5 DEF UnderWay, Base, TypeOK, RequestTypes
<1>5. CASE Boot \/ StartSink \/ ReadPanel
  <2>1. UNCHANGED <<objects, policies, marker, torn, pc, at, mixed, amiss>>
    BY <1>5 DEF Boot, StartSink, ReadPanel, config, requests, history, stack
  <2>2. QED
    BY <1>2, <2>1
<1>6. CASE Restart
  <2>1. UNCHANGED <<objects, policies, marker, torn, mixed>> /\ amiss \subseteq amiss'
    BY <1>6 DEF Restart, Amiss, stack, config
  <2>2. UnderWay' = {}
    BY <1>6 DEF Restart, UnderWay
  <2>3. QED
    BY <2>1, <2>2 DEF Stored
<1> QED
  BY <1>1, <1>3, <1>4, <1>5, <1>6, Zenon DEF Next, Arrive, OwnStep

-----------------------------------------------------------------------------
(* The saved objects of the datasource.                                       *)

LEMMA PairTurns ==
  ASSUME Base, NEW r \in Requests, OwnStep(r)
  PROVE  /\ conns' <= conns
         /\ task' = task \/ (\E step \in {"features", "prepper", "cortex"} :
                               task' = [task EXCEPT ![r] = step])
<1> USE DEF Base, TypeOK, SavedTypes, RequestTypes
<1>1. conns' <= conns
  <2>1. CASE UNCHANGED saved
    BY <2>1 DEF saved
  <2>2. CASE Unsave(r)
    BY <2>2 DEF Unsave, Found
  <2>3. CASE RemoveWorkspace(r)
    BY <2>3 DEF RemoveWorkspace
  <2>4. CASE Teardown(r)
    BY <2>4 DEF Teardown
  <2>5. QED
    BY <2>1, <2>2, <2>3, <2>4, SavedTurns
<1>2. CASE Mark(r)
  BY <1>1, <1>2 DEF Mark, AfterFeatures
<1>3. CASE UNCHANGED task
  BY <1>1, <1>3
<1>4. UNCHANGED task \/ Mark(r)
  BY SavedTurns
<1> QED
  BY <1>2, <1>3, <1>4

LEMMA PairTasks ==
  ASSUME Base, NEW r \in Requests, Task(r), Shown', conns < 2,
         task[r] \in {"clear", "post"} => conns = 0
  PROVE  conns' < 2 /\ (task'[r] \in {"clear", "post"} => conns' = 0)
<1> USE DEF TaskGoes, Base, TypeOK, SavedTypes, RequestTypes, HistoryTypes, Shown, Amiss, saved,
      history, AfterFeatures, AfterDatasource
<1>1. CASE FeaturesLive(r)
  BY <1>1 DEF FeaturesLive
<1>2. CASE FeaturesTimeOut(r)
  BY <1>2 DEF FeaturesTimeOut
<1>3. CASE Revert(r)
  BY <1>3 DEF Revert
<1>4. CASE PrepperUp(r)
  BY <1>4 DEF PrepperUp
<1>5. CASE PrepperTimeOut(r)
  BY <1>5 DEF PrepperTimeOut
<1>6. CASE RollSpans(r)
  BY <1>6 DEF RollSpans, stack, prepper
<1>7. CASE CortexUp(r)
  BY <1>7 DEF CortexUp
<1>8. CASE CortexTimeOut(r)
  BY <1>8 DEF CortexTimeOut
<1>9. CASE FindConnection(r)
  BY <1>9 DEF FindConnection, Found, Unseen
<1>10. CASE FindEngine(r)
  BY <1>10 DEF FindEngine
<1>11. CASE DropEngine(r)
  BY <1>11 DEF DropEngine
<1>12. CASE Unpair(r)
  BY <1>12 DEF Unpair, Found, Unseen
<1>13. CASE Register(r)
  BY <1>13 DEF Register
<1>14. CASE EnsureWorkspace(r)
  BY <1>14 DEF EnsureWorkspace
<1>15. CASE Import(r)
  BY <1>15 DEF Import
<1>16. CASE WritePatterns(r)
  BY <1>16 DEF WritePatterns, Write
<1>17. CASE WriteBoards(r)
  BY <1>17 DEF WriteBoards, Write
<1> QED
  BY <1>1, <1>2, <1>3, <1>4, <1>5, <1>6, <1>7, <1>8, <1>9, <1>10, <1>11, <1>12, <1>13, <1>14,
     <1>15, <1>16, <1>17, Zenon DEF Task

LEMMA PairKept ==
  ASSUME Base, Next, Paired
  PROVE  Paired'
<1> SUFFICES ASSUME ~mixed', ~crossed', Shown'
             PROVE  /\ conns' < 2
                    /\ \A q \in Requests : task'[q] \in {"clear", "post"} => conns' = 0
  BY DEF Paired
<1> USE DEF Paired, Shown
<1>1. conns \in Nat /\ conns' \in Nat
  BY SavedTyped DEF Base, TypeOK, SavedTypes
<1>2. ASSUME NEW r \in Requests, OwnStep(r)
      PROVE  conns' < 2 /\ \A q \in Requests : task'[q] \in {"clear", "post"} => conns' = 0
  <2>1. Turn(r) /\ conns' <= conns
    BY <1>2, Turns, PairTurns
  <2>2. ~mixed /\ ~crossed /\ Shown
    BY <2>1 DEF Turn
  <2>3. ASSUME NEW q \in Requests, task'[q] \in {"clear", "post"}
        PROVE  task[q] \in {"clear", "post"}
    BY <1>2, <2>3, PairTurns DEF Base, TypeOK, RequestTypes
  <2>4. QED
    BY <1>1, <2>1, <2>2, <2>3
<1>3. ASSUME NEW r \in Requests, Task(r)
      PROVE  conns' < 2 /\ \A q \in Requests : task'[q] \in {"clear", "post"} => conns' = 0
  <2>1. TaskTurn(r)
    BY <1>3, TaskTurns
  <2>2. ~mixed /\ ~crossed /\ Shown
    BY <2>1 DEF TaskTurn
  <2>3. \A q \in Requests : task'[q] \in {"clear", "post"} => q = r
    BY <2>1, <2>2 DEF TaskTurn, Base, Apart, Busy, TypeOK, RequestTypes
  <2>4. conns' < 2 /\ (task'[r] \in {"clear", "post"} => conns' = 0)
    BY <1>3, <2>2, PairTasks
  <2>5. QED
    BY <2>3, <2>4
<1>4. CASE /\ UNCHANGED conns /\ mixed' = mixed /\ crossed' = crossed
           /\ hidden' = hidden /\ amiss \subseteq amiss'
           /\ \A q \in Requests : task'[q] \in {"clear", "post"} => task'[q] = task[q]
  BY <1>4
<1>5. ASSUME NEW r \in Requests, NEW k \in Kinds, Begin(r, k)
      PROVE  conns' < 2 /\ \A q \in Requests : task'[q] \in {"clear", "post"} => conns' = 0
  <2>1. /\ mixed' = (mixed \/ UnderWay # {}) /\ crossed' = (crossed \/ Deferred # {})
        /\ task' = [q \in Requests |-> IF q \in Deferred THEN task[q] ELSE "off"]
        /\ UNCHANGED <<amiss, hidden, conns>>
    BY <1>5 DEF Begin, saved
  <2>2. ~mixed /\ ~crossed
    BY <2>1
  <2>3. QED
    BY <2>1, <2>2
<1>6. CASE Boot \/ StartSink \/ ReadPanel
  <2>1. UNCHANGED <<saved, task, history>>
    BY <1>6 DEF Boot, StartSink, ReadPanel, requests
  <2>2. QED
    BY <1>4, <2>1 DEF saved, history
<1>7. CASE Restart
  <2>1. /\ UNCHANGED <<saved, mixed, crossed, hidden>> /\ amiss \subseteq amiss'
        /\ task' = [q \in Requests |-> IF q \in Deferred THEN "done" ELSE task[q]]
    BY <1>7 DEF Restart, Amiss
  <2>2. QED
    BY <1>4, <2>1 DEF saved
<1> QED
  BY <1>2, <1>3, <1>5, <1>6, <1>7, Zenon DEF Next, Arrive, OwnStep

-----------------------------------------------------------------------------
(* What an uninstall sweeps.                                                  *)

LEMMA UnsaveLeaves ==
  ASSUME Base, NEW r \in Requests, Unsave(r), "delete" \notin amiss', Shown => conns < 2
  PROVE  /\ NoConns' /\ amiss' = amiss /\ hidden \subseteq hidden'
         /\ pc' = [pc EXCEPT ![r] = "unspace"] /\ pc[r] = "unsave"
         /\ UNCHANGED <<config, stack, engine, space, boards, swept, task>>
<1> USE DEF Base, TypeOK, SavedTypes, HistoryTypes
<1>1. /\ conns' = IF Found THEN conns - 1 ELSE conns
      /\ hidden' = hidden \cup {h \in {"saved"} : conns > 0 /\ ~Registers}
      /\ amiss' = amiss /\ pc' = [pc EXCEPT ![r] = "unspace"] /\ pc[r] = "unsave"
      /\ UNCHANGED <<config, stack, engine, space, boards, swept, task>>
  BY DEF Unsave, Unseen, Passes, Goes, Amiss
<1>2. ASSUME Shown' PROVE conns' = 0
  <2>1. Shown /\ (conns > 0 => Registers)
    BY <1>1, <1>2 DEF Shown
  <2>2. CASE conns > 0
    BY <1>1, <2>1, <2>2 DEF Found
  <2>3. CASE conns = 0
    BY <1>1, <2>3 DEF Found
  <2>4. QED
    BY <2>2, <2>3
<1> QED
  BY <1>1, <1>2 DEF NoConns

LEMMA RemoveWorkspaceLeaves ==
  ASSUME Base, NEW r \in Requests, RemoveWorkspace(r), "delete" \notin amiss'
  PROVE  /\ NoSpace' /\ (NoConns => NoConns') /\ (NoBoards => NoBoards')
         /\ pc' = [pc EXCEPT ![r] = "teardown"] /\ pc[r] = "unspace"
         /\ UNCHANGED <<config, stack, engine, swept, task, amiss>>
<1> USE DEF Base, TypeOK, SavedTypes, HistoryTypes
<1>1. /\ pc' = [pc EXCEPT ![r] = "teardown"] /\ pc[r] = "unspace"
      /\ UNCHANGED <<config, stack, engine, conns, swept, task, amiss>>
      /\ \/ /\ space' = FALSE /\ hidden' = hidden
            /\ boards' = Written({b \in Boards : boards[b] = "workspace"}, "none")
         \/ /\ UNCHANGED <<space, boards>>
            /\ hidden' = hidden \cup {h \in {"space"} : space}
  BY DEF RemoveWorkspace, Passes, Goes, Amiss, history
<1>2. NoSpace'
  BY <1>1 DEF NoSpace
<1>3. NoConns => NoConns'
  BY <1>1 DEF NoConns, Shown
<1>4. NoBoards => NoBoards'
  BY <1>1 DEF NoBoards, Written
<1> QED
  BY <1>1, <1>2, <1>3, <1>4

LEMMA TeardownLeaves ==
  ASSUME Base, NEW r \in Requests, Teardown(r), "delete" \notin amiss'
  PROVE  /\ NoBoards' /\ ~engine' /\ ~policies'
         /\ (NoConns => NoConns') /\ (NoSpace => NoSpace')
         /\ pc' = [pc EXCEPT ![r] = "asked"] /\ pc[r] = "teardown"
         /\ UNCHANGED <<config, objects, conns, space, swept, task, amiss>>
<1>1. /\ boards' = Written(Seen, "none") /\ policies' = FALSE /\ ~engine'
      /\ hidden' = hidden \cup {h \in {"boards"} : \E b \in Boards : boards'[b] # "none"}
      /\ pc' = [pc EXCEPT ![r] = "asked"] /\ pc[r] = "teardown"
      /\ UNCHANGED <<config, objects, conns, space, swept, task, amiss>>
  BY DEF Teardown, TearsBoards, Passes, Goes, Amiss
<1>2. NoBoards'
  BY <1>1 DEF NoBoards, Written
<1>3. (NoConns => NoConns') /\ (NoSpace => NoSpace')
  BY <1>1 DEF NoConns, NoSpace, Shown
<1> QED
  BY <1>1, <1>2, <1>3

LEMMA SweepTurns ==
  ASSUME Base, NEW r \in Requests, OwnStep(r), "delete" \notin amiss',
         swept => Bare, SweptAt(r), ObjectsAt(r), Shown => conns < 2
  PROVE  (swept' => Bare' /\ task' = task) /\ (pc'[r] # "over" => SweptAt(r)')
<1> USE DEF Passes, Goes, Ends, Amiss, TaskGoes, config, prepper, stack, saved, kept, requests,
      history, Base, TypeOK, RequestTypes, HistoryTypes, ConfigTypes, StackTypes, SavedTypes,
      Places, PlaceAt, ObjectsAt, SweptAt, Bare, NoConns, NoSpace, NoBoards, Shown, UninstallSteps,
      InstallSteps
<1>1. CASE Install(r)
  <2>1. CASE Refuse(r)
    BY <2>1 DEF Refuse
  <2>2. CASE Gate(r)
    BY <2>2 DEF Gate
  <2>3. CASE ClearTemplate(r)
    BY <2>3 DEF ClearTemplate
  <2>4. CASE KeepPolicies(r)
    BY <2>4 DEF KeepPolicies
  <2>5. CASE Apply(r)
    BY <2>5 DEF Apply
  <2>6. CASE Release(r)
    BY <2>6 DEF Release, Released
  <2>7. CASE Probe(r)
    BY <2>7 DEF Probe
  <2>8. CASE SetKeys(r)
    BY <2>8 DEF SetKeys
  <2>9. CASE SeeUi(r)
    BY <2>9, SeeUiGoes DEF UninstallSteps
  <2>10. CASE SetUi(r)
    BY <2>10 DEF SetUi
  <2>11. CASE Unnote(r)
    BY <2>11 DEF Unnote
  <2>12. CASE Export(r)
    BY <2>12 DEF Export
  <2>13. CASE DropTenancy(r)
    BY <2>13 DEF DropTenancy, SetTenancy
  <2>14. CASE Mark(r)
    BY <2>14 DEF Mark
  <2> QED
    BY <2>1, <2>2, <2>3, <2>4, <2>5, <2>6, <2>7, <2>8, <2>9, <2>10, <2>11, <2>12, <2>13, <2>14,
       <1>1, Zenon DEF Install
<1>2. CASE Uninstall(r)
  <2>1. CASE Delete(r)
    <3>1. objects' \subseteq objects /\ pc'[r] \in {"delete", "unsave"}
      BY <2>1 DEF Delete, Lost
    <3>2. UNCHANGED <<config, policies, saved, swept, task, hidden>> /\ amiss \subseteq amiss'
      BY <2>1 DEF Delete, Lost
    <3>3. QED
      BY <3>1, <3>2
  <2>2. CASE Unsave(r)
    BY <2>2, UnsaveLeaves
  <2>3. CASE RemoveWorkspace(r)
    BY <2>3, RemoveWorkspaceLeaves
  <2>4. CASE Teardown(r)
    BY <2>4, TeardownLeaves
  <2>5. CASE Chosen(r)
    BY <2>5, ChosenGoes DEF UninstallSteps
  <2>6. CASE DropUi(r)
    BY <2>6 DEF DropUi
  <2>7. CASE Unchoose(r)
    BY <2>7 DEF Unchoose
  <2>8. CASE RestoreTenancy(r)
    <3>1. /\ UNCHANGED <<config, objects, policies, saved, swept, task, hidden>>
          /\ amiss \subseteq amiss' /\ pc[r] = "restore" /\ pc'[r] = "unkeys"
      BY <2>8 DEF RestoreTenancy, SetTenancy
    <3>2. QED
      BY <3>1
  <2>9. CASE DropKeys(r)
    BY <2>9 DEF DropKeys
  <2>10. CASE DropIndices(r)
    BY <2>10 DEF DropIndices
  <2>11. CASE Unmark(r)
    BY <2>11 DEF Unmark
  <2> QED
    BY <2>1, <2>2, <2>3, <2>4, <2>5, <2>6, <2>7, <2>8, <2>9, <2>10, <2>11, <1>2,
       Zenon DEF Uninstall
<1>3. CASE Toggle(r)
  <2>1. CASE SetNextUi(r)
    BY <2>1 DEF SetNextUi
  <2>2. CASE NoteChoice(r)
    BY <2>2 DEF NoteChoice
  <2>3. CASE FlipTenancy(r)
    BY <2>3 DEF FlipTenancy
  <2> QED
    BY <2>1, <2>2, <2>3, <1>3, Zenon DEF Toggle
<1>4. CASE CallFails(r)
  <2>1. /\ Ends(r) /\ UNCHANGED <<config, stack, saved, swept, task, hidden>>
        /\ amiss \subseteq amiss'
    BY <1>4 DEF CallFails
  <2>2. QED
    BY <2>1
<1> QED
  BY <1>1, <1>2, <1>3, <1>4, Zenon DEF OwnStep

LEMMA SweepKept ==
  ASSUME Base, Next, ObjectsTold, Paired, SweepTold
  PROVE  SweepTold'
<1> USE DEF SweepTold
<1>1. ASSUME NEW r \in Requests, OwnStep(r)
      PROVE  SweepTold'
  <2>1. SUFFICES ASSUME ~mixed', ~crossed', "delete" \notin amiss'
        PROVE  (swept' => Bare' /\ Deferred' = {}) /\ (\A q \in UnderWay' : SweptAt(q)')
    OBVIOUS
  <2>2. Turn(r)
    BY <1>1, Turns
  <2>3. ~mixed /\ ~crossed /\ "delete" \notin amiss
    BY <2>1, <2>2 DEF Turn
  <2>4. UnderWay = {r} /\ (UnderWay' = IF pc'[r] = "over" THEN {} ELSE {r})
    BY <2>2, <2>3, Alone
  <2>5. SweptAt(r) /\ (swept => Bare) /\ ObjectsAt(r) /\ (Shown => conns < 2)
    BY <2>3, <2>4 DEF ObjectsTold, Paired
  <2>6. (swept' => Bare' /\ task' = task) /\ (pc'[r] # "over" => SweptAt(r)')
    BY <1>1, <2>1, <2>5, SweepTurns
  <2>7. Deferred = {}
    <3>1. task[r] = "off" /\ (\A q \in Requests : Busy(q) => q = r)
      BY <2>2, <2>3 DEF Turn, UnderWay, Base, Apart, Busy, Places, PlaceAt
    <3>2. QED
      BY <3>1 DEF Deferred, Busy
  <2>8. QED
    BY <2>4, <2>6, <2>7 DEF Deferred
<1>2. CASE /\ UNCHANGED <<objects, policies, saved, otelKeys, marker, swept, pc, task>>
           /\ UNCHANGED <<mixed, crossed, hidden, amiss>>
  BY <1>2 DEF UnderWay, Deferred, SweptAt, Bare, NoConns, NoSpace, NoBoards, Shown, saved
<1>3. ASSUME NEW r \in Requests, Task(r) PROVE SweepTold'
  <2>1. SUFFICES ASSUME ~mixed', ~crossed', "delete" \notin amiss'
        PROVE  ~swept' /\ UnderWay' = {}
    OBVIOUS
  <2>2. TaskTurn(r)
    BY <1>3, TaskTurns
  <2>3. ~mixed /\ ~crossed /\ "delete" \notin amiss /\ swept' = swept
    BY <2>1, <2>2 DEF TaskTurn
  <2>4. r \in Deferred /\ task[r] # "off"
    BY <2>2 DEF TaskTurn, Deferred
  <2>5. \A q \in UnderWay : q = r
    BY <2>3, <2>4 DEF Base, Apart, Busy, UnderWay
  <2>6. r \notin UnderWay
    BY <2>4 DEF Base, Places, PlaceAt, UnderWay
  <2>7. UnderWay' = UnderWay
    BY <2>2 DEF TaskTurn, UnderWay
  <2>8. QED
    BY <2>3, <2>4, <2>5, <2>6, <2>7
<1>4. ASSUME NEW r \in Requests, NEW k \in Kinds, Begin(r, k) PROVE SweepTold'
  <2> DEFINE first == FirstStep(k)
  <2>1. /\ pc' = [pc EXCEPT ![r] = first] /\ first \in {"gate", "delete", "set"}
        /\ first = "gate" <=> k = "install"
        /\ mixed' = (mixed \/ UnderWay # {}) /\ crossed' = (crossed \/ Deferred # {})
        /\ swept' = (swept /\ k # "install")
        /\ task' = [q \in Requests |-> IF q \in Deferred THEN task[q] ELSE "off"]
        /\ UNCHANGED <<amiss, hidden, objects, policies, marker, otelKeys, saved>>
    BY <1>4, Beginning DEF config, stack
  <2> HIDE DEF first
  <2>2. SUFFICES ASSUME ~mixed', ~crossed', "delete" \notin amiss
        PROVE  /\ swept' => Bare' /\ Deferred' = {}
               /\ SweptAt(r)' /\ (\A q \in UnderWay' : q = r)
    BY <2>1
  <2>3. UnderWay = {} /\ Deferred = {} /\ pc'[r] = first /\ (swept => Bare)
    BY <2>1, <2>2 DEF Base, TypeOK, RequestTypes, HistoryTypes
  <2>4. (swept' => Bare') /\ SweptAt(r)'
    BY <2>1, <2>3 DEF SweptAt, Bare, NoConns, NoSpace, NoBoards, Shown, saved, UninstallSteps,
       InstallSteps, Base, TypeOK,
       HistoryTypes
  <2>5. Deferred' = {}
    BY <2>1, <2>3 DEF Deferred
  <2>6. QED
    BY <2>1, <2>3, <2>4, <2>5 DEF UnderWay, Base, TypeOK, RequestTypes
<1>5. CASE Boot \/ StartSink \/ ReadPanel
  <2>1. /\ UNCHANGED <<objects, policies, saved, otelKeys, marker, swept, pc, task>>
        /\ UNCHANGED <<mixed, crossed, hidden, amiss>>
    BY <1>5 DEF Boot, StartSink, ReadPanel, config, requests, history, stack
  <2>2. QED
    BY <1>2, <2>1
<1>6. CASE Restart
  <2>1. UNCHANGED <<objects, policies, saved, otelKeys, marker, swept>>
        /\ UNCHANGED <<mixed, crossed, hidden>> /\ amiss \subseteq amiss'
    BY <1>6 DEF Restart, Amiss, stack, config
  <2>2. UnderWay' = {} /\ Deferred' = {}
    BY <1>6 DEF Restart, UnderWay, Deferred
  <2>3. QED
    BY <2>1, <2>2 DEF Bare, NoConns, NoSpace, NoBoards, Shown, saved
<1> QED
  BY <1>1, <1>3, <1>4, <1>5, <1>6, Zenon DEF Next, Arrive, OwnStep

-----------------------------------------------------------------------------
(* The install that replaces an older stack.                                  *)

LEMMA MigrationTurns ==
  ASSUME Base, NEW r \in Requests, OwnStep(r), amiss' = {},
         Migrating(r), ObjectsAt(r),
         marker = "older" /\ pc[r] = "gate" => ~dash /\ sink = "older" /\ spans = "older"
  PROVE  /\ Migrating(r)'
         /\ marker' = "older" /\ pc'[r] \notin Early =>
              marker = "older" /\ pc[r] \notin Early /\ UNCHANGED <<dash, sink, spans>>
<1> USE DEF Passes, Goes, Ends, Amiss, TaskGoes, config, prepper, stack, saved, kept, requests,
      history, Base, TypeOK, RequestTypes, HistoryTypes, ConfigTypes, StackTypes, Places,
      PlaceAt, ObjectsAt, Migrating, UninstallSteps, InstallSteps, Early
<1>1. CASE Install(r)
  <2>1. CASE Refuse(r)
    BY <2>1 DEF Refuse
  <2>2. CASE Gate(r)
    <3>1. /\ pc[r] = "gate" /\ migrates'[r] = NeedsMigration /\ task[r] = "off" /\ at[r] = 0
          /\ pc' = [pc EXCEPT ![r] = IF NeedsMigration THEN "clear" ELSE "policies"]
          /\ UNCHANGED <<task, marker, dash, sink, spans, template, at>>
      BY <2>2 DEF Gate
    <3>2. CASE marker = "older"
      <4>1. NeedsMigration
        BY <3>2 DEF NeedsMigration
      <4>2. pc'[r] = "clear"
        BY <3>1, <4>1
      <4>3. ~dash /\ sink = "older" /\ spans = "older"
        BY <3>1, <3>2
      <4>4. QED
        BY <3>1, <3>2, <4>2, <4>3
    <3>3. CASE marker # "older"
      <4>1. ~NeedsMigration
        BY <3>3 DEF NeedsMigration
      <4>2. QED
        BY <3>1, <3>3, <4>1
    <3>4. QED
      BY <3>2, <3>3
  <2>3. CASE ClearTemplate(r)
    <3>1. 0 < Len(Inventory)
      BY SinkAssumption DEF Objects
    <3>2. Sink \notin Upto(0)
      BY <3>1, UptoNext
    <3>3. /\ pc[r] = "clear" /\ pc'[r] = "policies" /\ at'[r] = 0 /\ task[r] = "off"
          /\ template' = "none" /\ UNCHANGED <<migrates, task, marker, dash, sink, spans>>
      BY <2>3 DEF ClearTemplate
    <3>4. QED
      BY <3>2, <3>3
  <2>4. CASE KeepPolicies(r)
    BY <2>4 DEF KeepPolicies
  <2>5. CASE Apply(r)
    <3> DEFINE n == at[r]
               o == Inventory[n + 1]
    <3>1. n \in Nat /\ n < Len(Inventory) /\ at'[r] = n + 1
      BY <2>5 DEF Apply
    <3>2. /\ Upto(n + 1) = Upto(n) \cup {o} /\ Upto(Len(Inventory)) = Objects
      BY <3>1, UptoNext
    <3>3. /\ sink' = IF o = Sink /\ sink \in {"none", "older"} THEN "new" ELSE sink
          /\ pc'[r] = IF n + 1 = Len(Inventory) THEN "release" ELSE "apply"
          /\ pc[r] = "apply"
          /\ UNCHANGED <<migrates, task, marker, dash, spans, template>>
      BY <2>5, <3>1 DEF Apply
    <3>4. Sink \in Objects
      BY SinkAssumption
    <3> HIDE DEF n, o
    <3>5. ASSUME migrates[r]
          PROVE  /\ marker = "older" /\ ~dash /\ spans = "older" /\ template = "none"
                 /\ sink' = IF Sink \in Upto(n + 1) THEN "new" ELSE "older"
      <4>1. /\ marker = "older" /\ ~dash /\ spans = "older" /\ template = "none"
            /\ sink = IF Sink \in Upto(n) THEN "new" ELSE "older"
        BY <3>3, <3>5 DEF n
      <4>2. QED
        BY <3>2, <3>3, <4>1
    <3>6. migrates'[r] /\ pc'[r] = "release" => sink' = "new"
      BY <3>2, <3>3, <3>4, <3>5
    <3>7. task[r] = "off"
      BY <3>3
    <3>8. Migrating(r)'
      BY <3>1, <3>3, <3>5, <3>6, <3>7
    <3>9. QED
      BY <3>3, <3>8 DEF Early
  <2>6. CASE Release(r)
    BY <2>6 DEF Release, Released
  <2>7. CASE Probe(r)
    BY <2>7 DEF Probe
  <2>8. CASE SetKeys(r)
    BY <2>8 DEF SetKeys
  <2>9. CASE SeeUi(r)
    BY <2>9, SeeUiGoes DEF UninstallSteps
  <2>10. CASE SetUi(r)
    BY <2>10 DEF SetUi
  <2>11. CASE Unnote(r)
    BY <2>11 DEF Unnote
  <2>12. CASE Export(r)
    BY <2>12 DEF Export
  <2>13. CASE DropTenancy(r)
    BY <2>13 DEF DropTenancy, SetTenancy
  <2>14. CASE Mark(r)
    <3>1. /\ pc[r] = "mark" /\ pc'[r] = "over" /\ marker' = "this"
          /\ task'[r] = IF sees[r] THEN "features" ELSE AfterFeatures(r)
          /\ UNCHANGED <<migrates, objects, dash, sink, spans, template>>
      BY <2>14 DEF Mark
    <3>2. objects = Objects
      BY <3>1
    <3>3. ASSUME migrates[r]
          PROVE  ~dash /\ spans = "older" /\ template = "none" /\ sink = "new" /\ task'[r] = "prepper"
      BY <3>1, <3>3 DEF AfterFeatures
    <3>4. QED
      BY <3>1, <3>2, <3>3
  <2> QED
    BY <2>1, <2>2, <2>3, <2>4, <2>5, <2>6, <2>7, <2>8, <2>9, <2>10, <2>11, <2>12, <2>13, <2>14,
       <1>1, Zenon DEF Install
<1>2. CASE Uninstall(r)
  <2>1. CASE Delete(r)
    BY <2>1 DEF Delete, Lost
  <2>2. CASE Unsave(r)
    BY <2>2 DEF Unsave
  <2>3. CASE RemoveWorkspace(r)
    BY <2>3 DEF RemoveWorkspace
  <2>4. CASE Teardown(r)
    BY <2>4 DEF Teardown
  <2>5. CASE Chosen(r)
    BY <2>5, ChosenGoes DEF UninstallSteps
  <2>6. CASE DropUi(r)
    BY <2>6 DEF DropUi
  <2>7. CASE Unchoose(r)
    BY <2>7 DEF Unchoose
  <2>8. CASE RestoreTenancy(r)
    BY <2>8 DEF RestoreTenancy, SetTenancy
  <2>9. CASE DropKeys(r)
    BY <2>9 DEF DropKeys
  <2>10. CASE DropIndices(r)
    BY <2>10 DEF DropIndices
  <2>11. CASE Unmark(r)
    BY <2>11 DEF Unmark
  <2> QED
    BY <2>1, <2>2, <2>3, <2>4, <2>5, <2>6, <2>7, <2>8, <2>9, <2>10, <2>11, <1>2,
       Zenon DEF Uninstall
<1>3. CASE Toggle(r)
  <2>1. CASE SetNextUi(r)
    BY <2>1 DEF SetNextUi
  <2>2. CASE NoteChoice(r)
    BY <2>2 DEF NoteChoice
  <2>3. CASE FlipTenancy(r)
    BY <2>3 DEF FlipTenancy
  <2> QED
    BY <2>1, <2>2, <2>3, <1>3, Zenon DEF Toggle
<1>4. CASE CallFails(r)
  <2>1. amiss' # {}
    BY <1>4 DEF CallFails
  <2>2. QED
    BY <2>1
<1> QED
  BY <1>1, <1>2, <1>3, <1>4, Zenon DEF OwnStep

LEMMA MigrationTasks ==
  ASSUME Base, NEW r \in Requests, Task(r), amiss' = {}, Migrating(r)
  PROVE  Migrating(r)' /\ (marker' = "older" => UNCHANGED <<dash, sink, spans>>)
<1> USE DEF Passes, Goes, Ends, Amiss, TaskGoes, config, prepper, stack, saved, kept, requests,
      history, Base, TypeOK, RequestTypes, HistoryTypes, ConfigTypes, StackTypes, Places,
      PlaceAt, Migrating, InstallSteps, AfterFeatures, Available
<1>1. CASE Task(r)
  <2>1. CASE FeaturesLive(r)
    BY <2>1 DEF FeaturesLive
  <2>2. CASE FeaturesTimeOut(r)
    BY <2>2 DEF FeaturesTimeOut
  <2>3. CASE Revert(r)
    BY <2>3 DEF Revert
  <2>4. CASE PrepperUp(r)
    BY <2>4 DEF PrepperUp
  <2>5. CASE PrepperTimeOut(r)
    BY <2>5 DEF PrepperTimeOut
  <2>6. CASE RollSpans(r)
    BY <2>6 DEF RollSpans
  <2>7. CASE CortexUp(r)
    BY <2>7 DEF CortexUp
  <2>8. CASE CortexTimeOut(r)
    BY <2>8 DEF CortexTimeOut
  <2>9. CASE FindConnection(r)
    BY <2>9 DEF FindConnection, AfterDatasource
  <2>10. CASE FindEngine(r)
    BY <2>10 DEF FindEngine, AfterDatasource
  <2>11. CASE DropEngine(r)
    BY <2>11 DEF DropEngine
  <2>12. CASE Unpair(r)
    BY <2>12 DEF Unpair
  <2>13. CASE Register(r)
    BY <2>13 DEF Register, AfterDatasource
  <2>14. CASE EnsureWorkspace(r)
    BY <2>14 DEF EnsureWorkspace
  <2>15. CASE Import(r)
    BY <2>15 DEF Import
  <2>16. CASE WritePatterns(r)
    BY <2>16 DEF WritePatterns, Write
  <2>17. CASE WriteBoards(r)
    BY <2>17 DEF WriteBoards, Write
  <2> QED
    BY <2>1, <2>2, <2>3, <2>4, <2>5, <2>6, <2>7, <2>8, <2>9, <2>10, <2>11, <2>12, <2>13, <2>14,
       <2>15, <2>16, <2>17, <1>1, Zenon DEF Task
<1> QED
  BY <1>1, Zenon

LEMMA MigrationKept ==
  ASSUME Base, Next, ObjectsTold, MigrationTold
  PROVE  MigrationTold'
<1> USE DEF MigrationTold
<1>1. ASSUME NEW r \in Requests, OwnStep(r)
      PROVE  MigrationTold'
  <2>1. SUFFICES ASSUME ~mixed', ~crossed', amiss' = {}
        PROVE  Untouched' /\ (\A q \in Requests : Migrating(q)')
    OBVIOUS
  <2>2. Turn(r)
    BY <1>1, Turns
  <2>3. ~mixed /\ ~crossed /\ amiss = {}
    BY <2>1, <2>2 DEF Turn
  <2>4. UnderWay = {r} /\ Untouched /\ Migrating(r) /\ ObjectsAt(r)
    BY <2>2, <2>3, Alone DEF ObjectsTold
  <2>5. \A q \in Requests : q # r => pc[q] \in {"idle", "over"} /\ task[q] = "off"
    BY <2>2, <2>3, <2>4 DEF Turn, UnderWay, Base, Apart, Busy
  <2>6. \A q \in Requests : q # r => pc[q] \notin Early
    BY <2>5 DEF Early, InstallSteps, UninstallSteps
  <2>7. pc[r] \notin Early /\ marker = "older" => ~dash /\ sink = "older" /\ spans = "older"
    BY <2>4, <2>6 DEF Untouched, Early
  <2>8. /\ Migrating(r)'
        /\ marker' = "older" /\ pc'[r] \notin Early =>
             marker = "older" /\ pc[r] \notin Early /\ UNCHANGED <<dash, sink, spans>>
    <3>1. "gate" \notin Early
      BY DEF Early, UninstallSteps
    <3>2. QED
      BY <1>1, <2>1, <2>4, <2>7, <3>1, MigrationTurns
  <2>9. ASSUME NEW q \in Requests, q # r PROVE Migrating(q)'
    <3>1. pc'[q] \in {"idle", "over"} /\ task'[q] = "off"
      BY <2>2, <2>5, <2>9 DEF Turn, Base, TypeOK, RequestTypes
    <3>2. QED
      BY <3>1 DEF Migrating, InstallSteps
  <2>10. Untouched'
    BY <2>7, <2>8 DEF Untouched, Early
  <2>11. QED
    BY <2>8, <2>9, <2>10
<1>2. ASSUME NEW r \in Requests, Task(r) PROVE MigrationTold'
  <2>1. SUFFICES ASSUME ~mixed', ~crossed', amiss' = {}
        PROVE  Untouched' /\ (\A q \in Requests : Migrating(q)')
    OBVIOUS
  <2>2. TaskTurn(r)
    BY <1>2, TaskTurns
  <2>3. ~mixed /\ ~crossed /\ amiss = {}
    BY <2>1, <2>2 DEF TaskTurn
  <2>4. Untouched /\ (\A q \in Requests : Migrating(q))
    BY <2>3
  <2>5. Migrating(r)' /\ (marker' = "older" => UNCHANGED <<dash, sink, spans>>)
    BY <1>2, <2>1, <2>4, MigrationTasks
  <2>6. \A q \in Requests : q # r => pc'[q] \in {"idle", "over"} /\ task'[q] = "off"
    BY <2>2, <2>3 DEF TaskTurn, UnderWay, Base, Apart, Busy, TypeOK, RequestTypes
  <2>7. \A q \in Requests : q # r => Migrating(q)'
    BY <2>6 DEF Migrating, InstallSteps
  <2>8. Untouched'
    BY <2>2, <2>4, <2>5 DEF TaskTurn, Untouched
  <2>9. QED
    BY <2>5, <2>7, <2>8
<1>3. ASSUME NEW r \in Requests, NEW k \in Kinds, Begin(r, k) PROVE MigrationTold'
  <2> DEFINE first == FirstStep(k)
  <2>1. /\ pc[r] = "idle" /\ pc' = [pc EXCEPT ![r] = first] /\ first \in {"gate", "delete", "set"}
        /\ mixed' = (mixed \/ UnderWay # {}) /\ crossed' = (crossed \/ Deferred # {})
        /\ \A q \in Requests : q \notin UnderWay \cup Deferred => ~migrates'[q]
        /\ UNCHANGED <<amiss, marker, dash, sink, spans>>
    BY <1>3, Beginning DEF config, stack, prepper, kept
  <2> HIDE DEF first
  <2>2. SUFFICES ASSUME ~mixed', ~crossed', amiss = {}
        PROVE  Untouched' /\ (\A q \in Requests : Migrating(q)')
    BY <2>1
  <2>3. UnderWay = {} /\ Deferred = {} /\ Untouched
    BY <2>1, <2>2 DEF Base, TypeOK, HistoryTypes
  <2>4. \A q \in Requests : Migrating(q)'
    BY <2>1, <2>3 DEF Migrating
  <2>5. \A q \in Requests : pc[q] \notin Early
    BY <2>3 DEF UnderWay, Early, InstallSteps, UninstallSteps
  <2>6. Untouched'
    BY <2>1, <2>3, <2>5 DEF Untouched, Early
  <2>7. QED
    BY <2>4, <2>6
<1>4. CASE UNCHANGED <<objects, marker, dash, sink, spans, template, pc, at, task, migrates, mixed,
                       crossed, amiss>>
  BY <1>4 DEF Untouched, Migrating
<1>5. CASE Boot
  BY <1>4, <1>5 DEF Boot, config, stack, prepper, requests, history, kept
<1>6. CASE StartSink
  <2>1. SUFFICES ASSUME ~mixed, ~crossed, amiss = {}
        PROVE  Untouched' /\ (\A q \in Requests : Migrating(q)')
    BY <1>6 DEF StartSink, history
  <2>2. /\ sink = "new" /\ UnderWay = {} /\ sink' = "this"
        /\ template' = IF template = "none" THEN "this" ELSE template
        /\ spans' = IF spans = "none" THEN template' ELSE spans
        /\ UNCHANGED <<objects, marker, dash, pc, at, task, migrates>>
    BY <1>6 DEF StartSink, config, kept, requests
  <2>3. Untouched /\ (\A q \in Requests : Migrating(q))
    BY <2>1
  <2>4. \A q \in Requests : pc[q] \notin Early /\ pc[q] \notin InstallSteps
    BY <2>2 DEF UnderWay, Early, InstallSteps, UninstallSteps
  <2>5. marker # "older"
    BY <2>2, <2>3, <2>4 DEF Untouched, Early
  <2>6. ASSUME NEW q \in Requests PROVE Migrating(q)'
    <3>1. Migrating(q) /\ pc[q] \notin InstallSteps
      BY <2>3, <2>4
    <3>2. CASE task[q] = "prepper"
      <4>1. migrates[q] => objects = Objects /\ spans # "none" /\ template = "none"
        BY <2>2, <3>1, <3>2 DEF Migrating
      <4>2. QED
        BY <2>2, <3>1, <3>2, <4>1 DEF Migrating, InstallSteps
    <3>3. CASE task[q] = "roll"
      BY <2>2, <3>1, <3>3 DEF Migrating, InstallSteps
    <3>4. CASE task[q] \notin {"prepper", "roll"}
      BY <2>2, <3>1, <3>4 DEF Migrating, InstallSteps
    <3>5. QED
      BY <3>2, <3>3, <3>4
  <2>7. QED
    BY <2>2, <2>5, <2>6 DEF Untouched
<1>7. CASE ReadPanel
  <2>1. SUFFICES ASSUME ~mixed, ~crossed, amiss = {}
        PROVE  Untouched' /\ (\A q \in Requests : Migrating(q)')
    BY <1>7 DEF ReadPanel, history
  <2>2. /\ sink = "stuck" /\ sink' = "new"
        /\ UNCHANGED <<objects, marker, dash, spans, template, pc, at, task, migrates>>
    BY <1>7 DEF ReadPanel, Stuck, Released, config, kept, requests
  <2>3. Untouched /\ (\A q \in Requests : Migrating(q))
    BY <2>1
  <2>4. Untouched'
    BY <2>2, <2>3 DEF Untouched
  <2>5. ASSUME NEW q \in Requests PROVE Migrating(q)'
    BY <2>2, <2>3 DEF Migrating, InstallSteps
  <2>6. QED
    BY <2>4, <2>5
<1>8. CASE Restart
  BY <1>8 DEF Restart, Amiss
<1> QED
  BY <1>1, <1>2, <1>3, <1>5, <1>6, <1>7, <1>8, Zenon DEF Next, Arrive, OwnStep

LEMMA StackInit ==
  Init => StackInv
<1> SUFFICES ASSUME Init PROVE StackInv
  OBVIOUS
<1> USE DEF Init, Before
<1>1. Len(Inventory) \in Nat
  BY SinkAssumption
<1>2. ConfigTypes /\ SavedTypes /\ HistoryTypes
  BY DEF ConfigTypes, SavedTypes, HistoryTypes
<1>3. StackTypes
  <2>1. multi \in BOOLEAN /\ policies \in BOOLEAN /\ objects \subseteq Objects
    OBVIOUS
  <2>2. \/ sink = "older" /\ template = "older" /\ spans = "older"
        \/ sink \in {"stuck", "none"} /\ template = "none" /\ spans = "none"
    OBVIOUS
  <2>3. QED
    BY <2>1, <2>2 DEF StackTypes
<1>4. RequestTypes
  <2>1. pc \in [Requests -> Steps]
    BY DEF Steps
  <2>2. dash \in BOOLEAN /\ accepts \in BOOLEAN
    OBVIOUS
  <2>3. /\ kind \in [Requests -> AllKinds \cup {"none"}] /\ task \in [Requests -> TaskSteps]
        /\ at \in [Requests -> 0..Len(Inventory)]
    BY <1>1 DEF TaskSteps
  <2>4. /\ sees \in [Requests -> BOOLEAN] /\ migrates \in [Requests -> BOOLEAN]
        /\ carry \in [Requests -> BOOLEAN]
    OBVIOUS
  <2>5. QED
    BY <2>1, <2>2, <2>3, <2>4 DEF RequestTypes
<1>5. \A r \in Requests : pc[r] \in {"idle", "over"} /\ task[r] = "off" /\ ~migrates[r] /\ ~sees[r]
  OBVIOUS
<1>6. UnderWay = {} /\ Deferred = {}
  BY <1>5 DEF UnderWay, Deferred
<1>7. Places /\ Single /\ Apart
  BY <1>5, <1>6 DEF Places, PlaceAt, Single, Apart, Busy
<1>8. UiTold
  BY <1>6 DEF UiTold, Quiet, Agree
<1>9. ObjectsTold
  BY <1>6, SinkAssumption DEF ObjectsTold, Stored
<1>10. SweepTold /\ Paired
  BY <1>5, <1>6 DEF SweepTold, Paired
<1>11. MigrationTold
  BY <1>5 DEF MigrationTold, Untouched, Migrating
<1> QED
  BY <1>2, <1>3, <1>4, <1>7, <1>8, <1>9, <1>10, <1>11 DEF StackInv, Base, TypeOK

LEMMA StackNext ==
  StackInv /\ [Next]_vars => StackInv'
<1> SUFFICES ASSUME StackInv, [Next]_vars PROVE StackInv'
  OBVIOUS
<1> USE DEF StackInv
<1>1. CASE Next
  <2>1. Base'
    BY <1>1, ConfigTyped, StackTyped, SavedTyped, RequestTyped, HistoryTyped, PlacesKept,
       SingleKept
       DEF Base, TypeOK
  <2>2. UiTold' /\ ObjectsTold' /\ Paired' /\ SweepTold' /\ MigrationTold'
    BY <1>1, UiKept, ObjectsKept, PairKept, SweepKept, MigrationKept
  <2>3. QED
    BY <2>1, <2>2
<1>2. CASE UNCHANGED vars
  <2> USE <1>2 DEF vars, config, stack, prepper, saved, kept, requests, history
  <2>1. TypeOK'
    BY DEF Base, TypeOK, ConfigTypes, StackTypes, SavedTypes, RequestTypes, HistoryTypes
  <2>2. Places' /\ Single' /\ Apart'
    BY DEF Base, Places, PlaceAt, Single, Apart, Busy, UnderWay
  <2>3. UiTold'
    BY DEF UiTold, Quiet, Agree, UiAt, Wants, UnderWay
  <2>4. ObjectsTold'
    BY DEF ObjectsTold, Stored, ObjectsAt, UnderWay
  <2>5. SweepTold' /\ Paired'
    BY DEF SweepTold, Bare, NoConns, NoSpace, NoBoards, Shown, SweptAt, UnderWay, Deferred,
       Paired
  <2>6. MigrationTold'
    BY DEF MigrationTold, Untouched, Migrating
  <2>7. QED
    BY <2>1, <2>2, <2>3, <2>4, <2>5, <2>6 DEF Base
<1> QED
  BY <1>1, <1>2

LEMMA StackInvariant ==
  Spec => []StackInv
<1> QED
  BY StackInit, StackNext, PTL DEF Spec

\* TypeOK of OtelStack: a request never leaves the steps of its kind nor the
\* inventory (install, uninstall and the switch of the UI in otel_stack.rs).
THEOREM StackTypesHold ==
  Spec => []TypeOK
<1>1. StackInv => TypeOK
  BY DEF StackInv, Base
<1> QED
  BY <1>1, StackInvariant, PTL

\* Whole of OtelStack: for any inventory and any requests, failures and restarts the
\* marker is on only with every object and the policies there, the sink never runs
\* without them, and a task that ends undisturbed has moved the spans (install,
\* steps 1 to 7, and the deferred step 8).
THEOREM StackIsWhole ==
  Spec => []Whole
<1>1. StackInv => Whole
  <2> SUFFICES ASSUME StackInv, ~mixed, "delete" \notin amiss
               PROVE  /\ Sink \in objects => policies
                      /\ Panel.installed /\ ~torn => objects = Objects
                      /\ amiss = {} /\ ~crossed /\ sink = "this" /\ marker = "this"
                           /\ (\E r \in Requests : migrates[r] /\ task[r] = "done")
                           => spans = "this"
    BY DEF Whole
  <2>1. Stored
    BY DEF StackInv, ObjectsTold
  <2>2. ASSUME amiss = {}, ~crossed, NEW r \in Requests, migrates[r], task[r] = "done"
        PROVE  spans = "this"
    BY <2>2 DEF StackInv, MigrationTold, Migrating
  <2>3. QED
    BY <2>1, <2>2 DEF Stored, Panel
<1> QED
  BY <1>1, StackInvariant, PTL

\* UiIsAsAsked of OtelStack: between requests the keys of the UI and multi-tenancy
\* exclude each other, and both are what the user asked for last (set_next_ui,
\* next_ui_state, steps 6a and 6b of install).
THEOREM UiStaysAsAsked ==
  Spec => []UiIsAsAsked
<1>1. StackInv => UiIsAsAsked
  BY DEF StackInv, UiTold, Quiet, Agree, UiIsAsAsked
<1> QED
  BY <1>1, StackInvariant, PTL

\* UninstallSweeps of OtelStack: when an uninstall has answered, nothing that any
\* install made is left, however the installs before it failed or were cut short, but
\* for what Dashboards did not show it and a second data-connection that a failed call
\* of a task may have led to (uninstall: "Remove everything install created").
THEOREM UninstallLeavesNothing ==
  Spec => []UninstallSweeps
<1>1. StackInv => UninstallSweeps
  <2> SUFFICES ASSUME StackInv, swept, ~mixed, ~crossed, "delete" \notin amiss
               PROVE  /\ objects = {} /\ ~policies /\ ~engine
                      /\ ~otelKeys /\ ~Panel.installed
                      /\ "wire" \notin amiss /\ "saved" \notin hidden => conns = 0
                      /\ "space" \notin hidden => ~space
                      /\ "boards" \notin hidden => \A b \in Boards : boards[b] = "none"
    BY DEF UninstallSweeps
  <2>1. Bare
    BY DEF StackInv, SweepTold
  <2>2. ~Panel.installed
    BY <2>1 DEF Bare, Panel
  <2>3. QED
    BY <2>1, <2>2 DEF Bare, NoConns, NoSpace, NoBoards, Shown
<1> QED
  BY <1>1, StackInvariant, PTL
=============================================================================
