--------------------------- MODULE LifecycleProofs ---------------------------
(***************************************************************************)
(* What is proved of Lifecycle for any requests, names, monitors and       *)
(* amount of trouble: type correctness, that a base name is claimed        *)
(* exactly while one create of it is handled, that a deployment answered   *)
(* as created stays until it is deleted, and that one answered as rolled   *)
(* back is gone.  The last section states of the run's other component     *)
(* what ProvisioningProofs proves of it.                                   *)
(***************************************************************************)
EXTENDS MCLifecycle, TLAPS

Tasks == [pc : Stages, name : Names \cup {None}]

\* A name belongs to one create, and to nobody before it was drawn.
NameInv ==
  /\ \A r \in Requests : task[r].name \in drawn \cup {None}
  /\ \A r \in Requests : task[r].pc = "idle" => task[r].name = None
  /\ \A c, d \in Creates : task[c].name = task[d].name /\ task[c].name # None => c = d
  /\ crs \subseteq drawn

Deleting(n) == \E d \in Deletes : task[d].name = n
Saving(n)   == \E s \in Saves : task[s].name = n

\* What a create has written is there as far as it has come, unless a deletion of
\* it was asked for, ...
Whole(c) ==
  LET n == task[c].name
  IN  \/ Deleting(n)
      \/ /\ task[c].pc \in {"cr", "routes", "finish", "created"} => n \in secrets
         /\ task[c].pc \in {"routes", "finish", "created"} => n \in crs
         /\ task[c].pc \in {"finish", "created"} => n \in routes

\* ... and once its rollback has deleted the CR only a save brings it back.
Gone(c) ==
  task[c].pc \in {"erase_others", "rolled_back"} =>
    task[c].name \notin crs \/ Saving(task[c].name)

IInv == TypeOK /\ OneCreate /\ NameInv /\ \A c \in Creates : Whole(c) /\ Gone(c)

LEMMA InitIInv == Init => IInv
<1> SUFFICES ASSUME Init PROVE IInv
  OBVIOUS
<1>0. [r \in Requests |-> [pc |-> "idle", name |-> None]] \in
         [Requests -> [pc : Stages, name : Names \cup {None}]]
  BY DEF Stages
<1>1. TypeOK
  <2>1. trouble \in 0 .. MaxTrouble
    BY LifecycleAssumption DEF Init
  <2>2. QED
    BY <1>0, <2>1 DEF Init, TypeOK
<1>2. OneCreate
  BY DEF Init, OneCreate, InFlight, Requests, Writers
<1>3. NameInv
  BY DEF Init, NameInv, Requests, Writers
<1>4. ASSUME NEW c \in Creates PROVE Whole(c) /\ Gone(c)
  BY <1>4 DEF Init, Whole, Gone, Requests, Writers
<1>5. QED
  BY <1>1, <1>2, <1>3, <1>4 DEF IInv

-----------------------------------------------------------------------------
(* How a step moves a request.                                               *)

LEMMA Moves ==
  ASSUME TypeOK, NEW r \in Requests, NEW pc \in Stages, Goto(r, pc)
  PROVE  /\ task' \in [Requests -> Tasks]
         /\ task'[r].pc = pc
         /\ \A q \in Requests : task'[q].name = task[q].name
         /\ \A q \in Requests : q # r => task'[q] = task[q]
  BY DEF TypeOK, Goto, Tasks

Onward == Stages \ (Answers \cup {"idle"})

\* A handler that goes on keeps the claim, ...
LEMMA OnwardClaim ==
  ASSUME IInv, NEW r \in Requests, InFlight(r), NEW pc \in Onward, Goto(r, pc),
         UNCHANGED claimed
  PROVE  OneCreate'
<1>1. \A q \in Requests : InFlight(q)' <=> InFlight(q)
  BY Moves DEF IInv, Onward, InFlight, Stages
<1>2. QED
  BY <1>1 DEF IInv, OneCreate, Requests, Writers

\* ... and one that answers or is dropped gives it back.
LEMMA AnswerClaim ==
  ASSUME IInv, NEW r \in Requests, InFlight(r), NEW a \in Answers, Answer(r, a)
  PROVE  OneCreate'
<1>1. \A q \in Requests : InFlight(q)' <=> InFlight(q) /\ q # r
  BY Moves DEF IInv, Answer, InFlight, Stages
<1>2. QED
  BY <1>1 DEF IInv, OneCreate, Answer, Requests, Writers

LEMMA KeptNames ==
  ASSUME IInv, NEW r \in Requests, NEW pc \in Stages, pc # "idle", Goto(r, pc), UNCHANGED drawn,
         \A n \in crs' : n \in crs \/ (n = task[r].name /\ n # None)
  PROVE  NameInv'
<1>1. \A q \in Requests : /\ task'[q].name = task[q].name
                          /\ task'[q].pc = "idle" => task[q].pc = "idle"
  BY Moves DEF IInv
<1>2. Creates \subseteq Requests /\ NameInv
  BY DEF IInv, Requests, Writers
<1>3. crs' \subseteq drawn
  BY <1>2 DEF NameInv
<1>4. \A q \in Requests : task'[q].name \in drawn' \cup {None}
  BY <1>1, <1>2 DEF NameInv
<1>5. \A q \in Requests : task'[q].pc = "idle" => task'[q].name = None
  BY <1>1, <1>2 DEF NameInv
<1>6. \A c, d \in Creates : task'[c].name = task'[d].name /\ task'[c].name # None => c = d
  <2>1. \A c \in Creates : task'[c].name = task[c].name
    BY <1>1, <1>2
  <2>2. QED
    BY <1>2, <2>1 DEF NameInv
<1>7. QED
  BY <1>3, <1>4, <1>5, <1>6 DEF NameInv

\* A request takes away only what is its deployment's, a save nothing; and only a
\* writer makes a CR, its deployment's.
Touches(r) ==
  /\ \A n \in Names : n # task[r].name \/ r \in Saves =>
       /\ n \in crs => n \in crs'
       /\ n \in secrets => n \in secrets'
       /\ n \in routes => n \in routes'
  /\ \A n \in crs' : n \in crs \/ (r \in Writers /\ n = task[r].name)

LEMMA Others ==
  ASSUME IInv, NEW r \in Requests, NEW pc \in Stages, Goto(r, pc), Touches(r),
         NEW c \in Creates, c # r
  PROVE  Whole(c)' /\ Gone(c)'
<1>1. c \in Requests /\ Saves \subseteq Requests /\ Deletes \subseteq Requests
  BY DEF Requests, Writers
<1>2. task'[c] = task[c] /\ \A q \in Requests : task'[q].name = task[q].name
  BY <1>1, Moves DEF IInv
<1>3. \A n : (Deleting(n)' <=> Deleting(n)) /\ (Saving(n)' <=> Saving(n))
  BY <1>1, <1>2 DEF Deleting, Saving
<1>4. Whole(c) /\ Gone(c) /\ TypeOK /\ NameInv
  BY DEF IInv
<1>5. task[c].name \in Names \cup {None} /\ task[c].pc \in Stages
  BY <1>1, <1>4 DEF TypeOK
<1>6. task[c].pc \in {"cr", "routes", "finish", "created", "erase_others", "rolled_back"} =>
        task[c].name \in Names
  BY <1>1, <1>4 DEF TypeOK, Stages, Answers
<1>7. task[c].name = task[r].name => task[c].name = None \/ r \notin Creates
  BY <1>4 DEF NameInv
<1>8. Whole(c)'
  <2>1. CASE Deleting(task[c].name)
    BY <2>1, <1>2, <1>3 DEF Whole
  <2>2. CASE task[c].pc \notin {"cr", "routes", "finish", "created"}
    BY <2>2, <1>2 DEF Whole
  <2>3. CASE /\ task[c].pc \in {"cr", "routes", "finish", "created"}
             /\ ~Deleting(task[c].name)
    <3>1. task[c].name \in Names /\ (task[c].name # task[r].name \/ r \in Saves)
      BY <2>3, <1>6, <1>7, LifecycleAssumption DEF Deleting, Requests, Writers
    <3>2. QED
      BY <2>3, <3>1, <1>2, <1>4 DEF Whole, Touches
  <2>4. QED
    BY <2>1, <2>2, <2>3
<1>9. Gone(c)'
  <2>1. CASE task[c].pc \notin {"erase_others", "rolled_back"}
    BY <2>1, <1>2 DEF Gone
  <2>2. CASE /\ task[c].pc \in {"erase_others", "rolled_back"}
             /\ Saving(task[c].name)
    BY <2>2, <1>2, <1>3 DEF Gone
  <2>3. CASE /\ task[c].pc \in {"erase_others", "rolled_back"}
             /\ ~Saving(task[c].name)
    <3>1. task[c].name \notin crs /\ task[c].name # None
      BY <2>3, <1>4, <1>6, LifecycleAssumption DEF Gone
    <3>2. task[c].name \notin crs'
      BY <2>3, <3>1, <1>7 DEF Touches, Saving, Writers
    <3>3. QED
      BY <3>2, <1>2 DEF Gone
  <2>4. QED
    BY <2>1, <2>2, <2>3
<1>10. QED
  BY <1>8, <1>9

\* A step that moves no request and touches none of what it owns.
LEMMA Aside ==
  ASSUME IInv, TypeOK', UNCHANGED <<claimed, drawn, objects, task>>
  PROVE  IInv'
<1>1. OneCreate' /\ NameInv'
  BY DEF IInv, OneCreate, InFlight, NameInv, objects
<1>2. ASSUME NEW c \in Creates PROVE Whole(c)' /\ Gone(c)'
  BY <1>2 DEF IInv, Whole, Gone, Deleting, Saving, objects
<1>3. QED
  BY <1>1, <1>2 DEF IInv

-----------------------------------------------------------------------------
(* One lemma per kind of step.                                               *)

LEMMA CreateIInv ==
  ASSUME IInv, NEW c \in Creates, CreateStep(c)
  PROVE  IInv'
<1>0. c \in Requests /\ TypeOK /\ OneCreate /\ NameInv /\ c \notin Saves /\ c \in Writers
  BY LifecycleAssumption DEF IInv, Requests, Writers
<1>1. CASE Claim(c)
  <2> DEFINE pc == IF claimed THEN "conflict" ELSE "naming"
  <2>1. pc \in Stages /\ Goto(c, pc) /\ task[c].pc = "idle" /\ claimed' = TRUE
    BY <1>1 DEF Claim, Stages, Answers
  <2> HIDE DEF pc
  <2>2. /\ task' \in [Requests -> Tasks] /\ task'[c].pc = pc
        /\ \A q \in Requests : task'[q].name = task[q].name
        /\ \A q \in Requests : q # c => task'[q] = task[q]
    BY <1>0, <2>1, Moves
  <2>3. TypeOK'
    <3>1. pc \in {"conflict", "naming"}
      BY DEF pc
    <3>2. QED
      BY <1>0, <1>1, <2>1, <2>2, <3>1 DEF Claim, TypeOK, Tasks, cluster, objects, tasks
  <2>4. OneCreate'
    <3>1. CASE claimed
      <4>1. \A q \in Requests : InFlight(q)' <=> InFlight(q)
        BY <2>1, <2>2, <3>1 DEF InFlight, Answers, pc
      <4>2. QED
        BY <1>0, <2>1, <3>1, <4>1 DEF OneCreate, Requests, Writers
    <3>2. CASE ~claimed
      <4>1. \A q \in Creates : ~InFlight(q)
        BY <1>0, <3>2 DEF OneCreate
      <4>2. \A q \in Creates : InFlight(q)' <=> q = c
        BY <2>1, <2>2, <3>2, <4>1 DEF InFlight, Answers, pc, Requests, Writers
      <4>3. QED
        BY <2>1, <4>2 DEF OneCreate
    <3>3. QED
      BY <3>1, <3>2
  <2>9. /\ crs' = crs /\ secrets' = secrets /\ routes' = routes /\ drawn' = drawn
    BY <1>1 DEF Claim, cluster, objects
  <2>5. NameInv'
    <3>1. pc # "idle"
      BY DEF pc
    <3>2. QED
      BY <1>0, <2>1, <2>9, <3>1, KeptNames
  <2>6. Whole(c)' /\ Gone(c)'
    BY <1>0, <2>2 DEF Whole, Gone, pc
  <2>7. Touches(c)
    BY <2>9 DEF Touches
  <2>8. ASSUME NEW d \in Creates PROVE Whole(d)' /\ Gone(d)'
    BY <1>0, <2>1, <2>6, <2>7, Others
  <2>10. QED
    BY <2>3, <2>4, <2>5, <2>8 DEF IInv
<1>2. CASE Draw(c)
  <2> DEFINE n == CHOOSE n \in Names \ (drawn \cup crs) : TRUE
  <2>1. n \in Names \ (drawn \cup crs)
    BY <1>2 DEF Draw
  <2>2. /\ task' = [task EXCEPT ![c] = [pc |-> "secret", name |-> n]]
        /\ drawn' = drawn \cup {n} /\ task[c].pc = "naming"
        /\ UNCHANGED <<claimed, cluster, tasks, lost, trouble>>
    BY <1>2 DEF Draw
  <2> HIDE DEF n
  <2>3. /\ task' \in [Requests -> Tasks] /\ task'[c] = [pc |-> "secret", name |-> n]
        /\ \A q \in Requests : q # c => task'[q] = task[q]
    BY <1>0, <2>1, <2>2 DEF TypeOK, Tasks, Stages
  <2>4. TypeOK'
    BY <1>0, <2>1, <2>2, <2>3, LifecycleAssumption DEF TypeOK, Tasks, cluster, objects, tasks
  <2>5. OneCreate'
    <3>1. \A q \in Requests : InFlight(q)' <=> InFlight(q)
      BY <2>2, <2>3 DEF InFlight, Answers
    <3>2. QED
      BY <1>0, <2>2, <3>1 DEF OneCreate, Requests, Writers
  <2>6. \A q \in Requests : task[q].name # n
    BY <1>0, <2>1, LifecycleAssumption DEF NameInv
  <2>7. NameInv'
    BY <1>0, <2>2, <2>3, <2>6 DEF NameInv, cluster, objects, Requests, Writers
  <2>8. Whole(c)' /\ Gone(c)'
    BY <2>3 DEF Whole, Gone
  <2>9. ASSUME NEW d \in Creates, d # c PROVE Whole(d)' /\ Gone(d)'
    <3>1. task'[d] = task[d] /\ Whole(d) /\ Gone(d)
      BY <2>3, <2>9 DEF IInv, Requests, Writers
    <3>2. \A r \in Deletes \cup Saves : task'[r] = task[r]
      BY <2>3, LifecycleAssumption DEF Requests, Writers
    <3>3. QED
      BY <2>2, <3>1, <3>2 DEF Whole, Gone, Deleting, Saving, cluster, objects
  <2>10. QED
    BY <2>4, <2>5, <2>7, <2>8, <2>9 DEF IInv
<1>3. CASE NamingFails(c)
  <2>1. Answer(c, "error") /\ Goto(c, "error") /\ "error" \in Stages /\ "error" \in Answers
        /\ InFlight(c)
    BY <1>3 DEF NamingFails, Answer, Stages, Answers, InFlight
  <2>2. /\ task' \in [Requests -> Tasks] /\ task'[c].pc = "error"
        /\ \A q \in Requests : q # c => task'[q] = task[q]
    BY <1>0, <2>1, Moves
  <2>3. TypeOK'
    BY <1>0, <1>3, <2>2, LifecycleAssumption
       DEF NamingFails, Answer, GoesWrong, TypeOK, Tasks, cluster, objects, tasks
  <2>4. OneCreate'
    BY <1>0, <2>1, AnswerClaim
  <2>5. /\ crs' = crs /\ secrets' = secrets /\ routes' = routes /\ drawn' = drawn
    BY <1>3 DEF NamingFails, cluster, objects
  <2>6. NameInv'
    BY <1>0, <2>1, <2>5, KeptNames
  <2>7. Touches(c) /\ Whole(c)' /\ Gone(c)'
    BY <2>2, <2>5 DEF Touches, Whole, Gone
  <2>8. ASSUME NEW d \in Creates PROVE Whole(d)' /\ Gone(d)'
    BY <1>0, <2>1, <2>7, Others
  <2>9. QED
    BY <2>3, <2>4, <2>6, <2>8 DEF IInv
<1>4. QED
  BY <1>1, <1>2, <1>3 DEF CreateStep

\* A save or a delete takes up a deployment.
LEMMA ResolveIInv ==
  ASSUME IInv, NEW r \in Saves \cup Deletes, NEW first \in {"secret", "erase_cr"},
         Resolve(r, first)
  PROVE  IInv'
<1>0. r \in Requests /\ r \notin Creates /\ TypeOK /\ OneCreate /\ NameInv
  BY LifecycleAssumption DEF IInv, Requests, Writers
<1>1. PICK n \in crs :
        /\ task' = [task EXCEPT ![r] = [pc |-> first, name |-> n]]
        /\ (GoesWrong("overlaps") /\ lost' = lost \cup {n}) \/ UNCHANGED <<lost, trouble>>
  BY DEF Resolve
<1>2. /\ task[r].pc = "idle" /\ UNCHANGED <<claimed, drawn, cluster, tasks>>
  BY DEF Resolve
<1>3. /\ crs' = crs /\ secrets' = secrets /\ routes' = routes /\ drawn' = drawn
      /\ sets' = sets /\ volumes' = volumes /\ agents' = agents /\ claimed' = claimed
      /\ sweep' = sweep /\ applier' = applier
  BY <1>2 DEF cluster, objects, tasks
<1>4. /\ n \in Names /\ n \in drawn /\ n # None
      /\ task' \in [Requests -> Tasks] /\ task'[r] = [pc |-> first, name |-> n]
      /\ \A q \in Requests : q # r => task'[q] = task[q]
  BY <1>0, <1>1, LifecycleAssumption DEF TypeOK, NameInv, Tasks, Stages
<1>5. TypeOK'
  <2>1. lost' \subseteq Names /\ trouble' \in 0 .. MaxTrouble
    BY <1>0, <1>1, <1>4, LifecycleAssumption DEF TypeOK, GoesWrong
  <2>2. QED
    BY <1>0, <1>3, <1>4, <2>1 DEF TypeOK, Tasks
<1>6. OneCreate'
  <2>1. \A c \in Creates : task'[c] = task[c]
    BY <1>0, <1>4 DEF Requests, Writers
  <2>2. QED
    BY <1>0, <1>3, <2>1 DEF OneCreate, InFlight
<1>7. NameInv'
  BY <1>0, <1>3, <1>4 DEF NameInv, Requests, Writers
<1>8. ASSUME NEW c \in Creates PROVE Whole(c)' /\ Gone(c)'
  <2>1. task'[c] = task[c] /\ Whole(c) /\ Gone(c) /\ c \in Requests
    BY <1>0, <1>4, <1>8 DEF IInv, Requests, Writers
  <2>2. CASE task[c].pc \in {"cr", "routes", "finish", "created", "erase_others", "rolled_back"}
    <3>1. task[c].name # None
      BY <1>0, <2>1, <2>2 DEF TypeOK, Stages, Answers
    <3>2. \A q \in Requests : task[q].name = task[c].name => task'[q] = task[q]
      BY <1>0, <1>2, <1>4, <3>1 DEF NameInv
    <3>3. Deleting(task[c].name) => Deleting(task[c].name)'
      BY <2>1, <3>2 DEF Deleting, Requests
    <3>4. Saving(task[c].name) => Saving(task[c].name)'
      BY <2>1, <3>2 DEF Saving, Requests, Writers
    <3>5. QED
      BY <1>3, <2>1, <3>3, <3>4 DEF Whole, Gone
  <2>3. CASE task[c].pc \notin {"cr", "routes", "finish", "created", "erase_others", "rolled_back"}
    BY <2>1, <2>3 DEF Whole, Gone
  <2>4. QED
    BY <2>2, <2>3
<1>9. QED
  BY <1>5, <1>6, <1>7, <1>8 DEF IInv

\* What is left to show of a request that works on its own deployment.
LEMMA Working ==
  ASSUME IInv, NEW r \in Requests, NEW pc \in Stages, pc # "idle", Goto(r, pc),
         task[r].name # None, UNCHANGED drawn, TypeOK', OneCreate', Touches(r),
         r \in Creates => Whole(r)' /\ Gone(r)'
  PROVE  IInv'
<1>1. \A n \in crs' : n \in crs \/ (n = task[r].name /\ n # None)
  BY DEF Touches
<1>2. NameInv'
  BY <1>1, KeptNames
<1>3. ASSUME NEW c \in Creates PROVE Whole(c)' /\ Gone(c)'
  BY Others
<1>4. QED
  BY <1>2, <1>3 DEF IInv

LEMMA WriteIInv ==
  ASSUME IInv, NEW w \in Writers, WriteStep(w)
  PROVE  IInv'
<1>0. w \in Requests /\ TypeOK /\ NameInv /\ (w \in Creates => Whole(w))
  BY DEF IInv, Requests
<1>1. /\ task[w].pc \in {"secret", "cr", "routes", "finish"} /\ InFlight(w)
      /\ task[w].name # None /\ task[w].name \in Names
  <2>1. task[w].pc \in {"secret", "cr", "routes", "finish"}
    BY DEF WriteStep, EnsureSecret, ApplyCr, ApplyRoutes, Finish, WriteFails
  <2>2. QED
    BY <1>0, <2>1 DEF TypeOK, Stages, Answers, InFlight
<1> DEFINE n == task[w].name
<1>2. CASE EnsureSecret(w)
  <2>1. /\ secrets' = secrets \cup {n} /\ Goto(w, "cr") /\ task[w].pc = "secret"
        /\ UNCHANGED <<claimed, drawn, crs, routes, sets, volumes, agents, tasks, lost, trouble>>
    BY <1>2 DEF EnsureSecret
  <2>2. "cr" \in Stages /\ "cr" \in Onward
    BY DEF Stages, Answers, Onward
  <2>3. /\ task' \in [Requests -> Tasks] /\ task'[w].pc = "cr" /\ task'[w].name = n
        /\ \A q \in Requests : task'[q].name = task[q].name
        /\ \A q \in Requests : q # w => task'[q] = task[q]
    BY <1>0, <2>1, <2>2, Moves
  <2>4. TypeOK'
    BY <1>0, <1>1, <2>1, <2>3 DEF TypeOK, Tasks, tasks
  <2>5. OneCreate'
    BY <1>0, <1>1, <2>1, <2>2, OnwardClaim
  <2>6. Touches(w)
    BY <2>1 DEF Touches
  <2>7. Whole(w)' /\ Gone(w)'
    BY <2>1, <2>3 DEF Whole, Gone
  <2>8. QED
    BY <1>0, <1>1, <2>1, <2>2, <2>4, <2>5, <2>6, <2>7, Working
<1>3. CASE ApplyCr(w)
  <2>1. /\ crs' = crs \cup {n} /\ Goto(w, "routes") /\ task[w].pc = "cr"
        /\ UNCHANGED <<claimed, drawn, secrets, routes, sets, volumes, agents, tasks, lost, trouble>>
    BY <1>3 DEF ApplyCr
  <2>2. "routes" \in Stages /\ "routes" \in Onward
    BY DEF Stages, Answers, Onward
  <2>3. /\ task' \in [Requests -> Tasks] /\ task'[w].pc = "routes" /\ task'[w].name = n
        /\ \A q \in Requests : task'[q].name = task[q].name
        /\ \A q \in Requests : q # w => task'[q] = task[q]
    BY <1>0, <2>1, <2>2, Moves
  <2>4. TypeOK'
    BY <1>0, <1>1, <2>1, <2>3 DEF TypeOK, Tasks, tasks
  <2>5. OneCreate'
    BY <1>0, <1>1, <2>1, <2>2, OnwardClaim
  <2>6. Touches(w)
    BY <2>1 DEF Touches
  <2>7. w \in Creates => Whole(w)' /\ Gone(w)'
    <3>1. Deleting(n) => Deleting(n)'
      BY <2>3 DEF Deleting, Requests
    <3>2. QED
      BY <1>0, <2>1, <2>3, <3>1 DEF Whole, Gone
  <2>8. QED
    BY <1>0, <1>1, <2>1, <2>2, <2>4, <2>5, <2>6, <2>7, Working
<1>4. CASE ApplyRoutes(w)
  <2>1. /\ routes' = routes \cup {n} /\ Goto(w, "finish") /\ task[w].pc = "routes"
        /\ UNCHANGED <<claimed, drawn, crs, secrets, sets, volumes, agents, tasks, lost, trouble>>
    BY <1>4 DEF ApplyRoutes
  <2>2. "finish" \in Stages /\ "finish" \in Onward
    BY DEF Stages, Answers, Onward
  <2>3. /\ task' \in [Requests -> Tasks] /\ task'[w].pc = "finish" /\ task'[w].name = n
        /\ \A q \in Requests : task'[q].name = task[q].name
        /\ \A q \in Requests : q # w => task'[q] = task[q]
    BY <1>0, <2>1, <2>2, Moves
  <2>4. TypeOK'
    BY <1>0, <1>1, <2>1, <2>3 DEF TypeOK, Tasks, tasks
  <2>5. OneCreate'
    BY <1>0, <1>1, <2>1, <2>2, OnwardClaim
  <2>6. Touches(w)
    BY <2>1 DEF Touches
  <2>7. w \in Creates => Whole(w)' /\ Gone(w)'
    <3>1. Deleting(n) => Deleting(n)'
      BY <2>3 DEF Deleting, Requests
    <3>2. QED
      BY <1>0, <2>1, <2>3, <3>1 DEF Whole, Gone
  <2>8. QED
    BY <1>0, <1>1, <2>1, <2>2, <2>4, <2>5, <2>6, <2>7, Working
<1>5. CASE Finish(w)
  <2> DEFINE a == IF w \in Creates THEN "created" ELSE "saved"
  <2>1. /\ applier' = [applier EXCEPT ![n] = "waiting"] /\ Answer(w, a) /\ Goto(w, a)
        /\ claimed' = (claimed /\ w \notin Creates) /\ task[w].pc = "finish"
        /\ UNCHANGED <<drawn, cluster, sweep, lost, trouble>>
    BY <1>5 DEF Finish, Answer
  <2>2. a \in Stages /\ a \in Answers /\ a \in {"created", "saved"}
    BY DEF Stages, Answers
  <2> HIDE DEF a
  <2>3. /\ task' \in [Requests -> Tasks] /\ task'[w].pc = a /\ task'[w].name = n
        /\ \A q \in Requests : task'[q].name = task[q].name
        /\ \A q \in Requests : q # w => task'[q] = task[q]
    BY <1>0, <2>1, <2>2, Moves
  <2>4. /\ crs' = crs /\ secrets' = secrets /\ routes' = routes /\ drawn' = drawn
        /\ sets' = sets /\ volumes' = volumes /\ agents' = agents
    BY <2>1 DEF cluster, objects
  <2>5. TypeOK'
    BY <1>0, <1>1, <2>1, <2>2, <2>3, <2>4 DEF TypeOK, Tasks
  <2>6. OneCreate'
    BY <1>0, <1>1, <2>1, <2>2, AnswerClaim
  <2>7. Touches(w)
    BY <2>4 DEF Touches
  <2>8. w \in Creates => Whole(w)' /\ Gone(w)'
    <3>1. Deleting(n) => Deleting(n)'
      BY <2>3 DEF Deleting, Requests
    <3>2. QED
      BY <1>0, <2>1, <2>2, <2>3, <2>4, <3>1 DEF Whole, Gone
  <2>9. QED
    BY <1>0, <1>1, <2>1, <2>2, <2>4, <2>5, <2>6, <2>7, <2>8, Working
<1>6. CASE WriteFails(w)
  <2> DEFINE pc == IF w \in Creates THEN "erase_cr" ELSE "error"
  <2>1. /\ GoesWrong("calls") /\ UNCHANGED <<drawn, sets, volumes, agents, tasks>>
        /\ crs' \in {crs, crs \cup {n}} /\ secrets' = secrets
        /\ routes' \in {routes, routes \cup {n}}
        /\ Goto(w, pc)
        /\ IF w \in Creates THEN UNCHANGED <<claimed, lost>>
                            ELSE Answer(w, pc) /\ lost' = lost \cup {n}
    BY <1>6 DEF WriteFails, objects, Answer
  <2>2. /\ pc \in Stages /\ pc # "idle" /\ pc \in {"erase_cr", "error"}
        /\ w \in Creates => pc \in Onward
        /\ w \notin Creates => pc \in Answers
    BY DEF Stages, Answers, Onward
  <2> HIDE DEF pc
  <2>3. task' \in [Requests -> Tasks] /\ task'[w].pc = pc /\ task'[w].name = n
        /\ \A q \in Requests : q # w => task'[q] = task[q]
    BY <1>0, <2>1, <2>2, Moves
  <2>4. TypeOK'
    <3>1. lost' \subseteq Names /\ trouble' \in 0 .. MaxTrouble /\ claimed' \in BOOLEAN
      BY <1>0, <1>1, <2>1, LifecycleAssumption DEF TypeOK, GoesWrong, Answer
    <3>2. QED
      BY <1>0, <1>1, <2>1, <2>2, <2>3, <3>1 DEF TypeOK, Tasks, tasks
  <2>5. OneCreate'
    <3>1. CASE w \in Creates
      BY <1>0, <1>1, <2>1, <2>2, <3>1, OnwardClaim
    <3>2. CASE w \notin Creates
      BY <1>0, <1>1, <2>1, <2>2, <3>2, AnswerClaim
    <3>3. QED
      BY <3>1, <3>2
  <2>6. Touches(w)
    BY <2>1 DEF Touches
  <2>7. Whole(w)' /\ Gone(w)'
    BY <2>2, <2>3 DEF Whole, Gone
  <2>8. QED
    BY <1>0, <1>1, <2>1, <2>2, <2>4, <2>5, <2>6, <2>7, Working
<1>7. QED
  BY <1>2, <1>3, <1>4, <1>5, <1>6 DEF WriteStep

LEMMA EraseIInv ==
  ASSUME IInv, NEW e \in Erasers, EraseStep(e)
  PROVE  IInv'
<1>0. e \in Requests /\ TypeOK /\ e \notin Saves
  BY LifecycleAssumption DEF IInv, Requests, Writers, Erasers
<1>1. /\ task[e].pc \in {"erase_cr", "erase_others"} /\ InFlight(e)
      /\ task[e].name # None /\ task[e].name \in Names
  <2>1. task[e].pc \in {"erase_cr", "erase_others"}
    BY DEF EraseStep, EraseCr, EraseCrFails, CannotErase, EraseAll, EraseMisses, EraseOthers
  <2>2. QED
    BY <1>0, <2>1 DEF TypeOK, Stages, Answers, InFlight
<1> DEFINE n == task[e].name
<1>2. CASE EraseCr(e)
  <2>1. /\ crs' = crs \ {n} /\ Goto(e, "erase_others") /\ task[e].pc = "erase_cr"
        /\ UNCHANGED <<claimed, drawn, secrets, routes, sets, volumes, agents, tasks, lost, trouble>>
    BY <1>2 DEF EraseCr
  <2>2. "erase_others" \in Stages /\ "erase_others" \in Onward
    BY DEF Stages, Answers, Onward
  <2>3. task' \in [Requests -> Tasks] /\ task'[e].pc = "erase_others" /\ task'[e].name = n
        /\ \A q \in Requests : q # e => task'[q] = task[q]
    BY <1>0, <2>1, <2>2, Moves
  <2>4. TypeOK'
    BY <1>0, <1>1, <2>1, <2>3 DEF TypeOK, Tasks, tasks
  <2>5. OneCreate'
    BY <1>0, <1>1, <2>1, <2>2, OnwardClaim
  <2>6. Touches(e)
    BY <1>0, <2>1 DEF Touches
  <2>7. Whole(e)' /\ Gone(e)'
    BY <2>1, <2>3 DEF Whole, Gone
  <2>8. QED
    BY <1>0, <1>1, <2>1, <2>2, <2>4, <2>5, <2>6, <2>7, Working
<1>3. CASE EraseCrFails(e)
  <2> DEFINE a == IF e \in Creates THEN "left_behind" ELSE "error"
  <2>1. /\ CannotErase(e) /\ crs' \in {crs, crs \ {n}} /\ lost' = lost \cup {n}
        /\ Answer(e, a) /\ Goto(e, a) /\ claimed' = (claimed /\ e \notin Creates)
        /\ UNCHANGED <<drawn, secrets, routes, sets, volumes, agents, tasks>>
    BY <1>3 DEF EraseCrFails, Answer
  <2>2. a \in Stages /\ a \in Answers /\ a \in {"left_behind", "error"} /\ a # "idle"
    BY DEF Stages, Answers
  <2> HIDE DEF a
  <2>3. task' \in [Requests -> Tasks] /\ task'[e].pc = a /\ task'[e].name = n
        /\ \A q \in Requests : q # e => task'[q] = task[q]
    BY <1>0, <2>1, <2>2, Moves
  <2>4. TypeOK'
    <3>1. trouble' \in 0 .. MaxTrouble
      BY <1>0, <2>1, LifecycleAssumption DEF TypeOK, CannotErase, GoesWrong
    <3>2. QED
      BY <1>0, <1>1, <2>1, <2>2, <2>3, <3>1 DEF TypeOK, Tasks, tasks
  <2>5. OneCreate'
    BY <1>0, <1>1, <2>1, <2>2, AnswerClaim
  <2>6. Touches(e)
    BY <1>0, <2>1 DEF Touches
  <2>7. Whole(e)' /\ Gone(e)'
    BY <2>2, <2>3 DEF Whole, Gone
  <2>8. QED
    BY <1>0, <1>1, <2>1, <2>2, <2>4, <2>5, <2>6, <2>7, Working
<1>4. CASE EraseAll(e) \/ EraseMisses(e)
  <2> DEFINE pc == IF e \in Creates THEN "rolled_back" ELSE "agents"
  <2>1. /\ task[e].pc = "erase_others" /\ crs' = crs
        /\ routes' \in {routes, routes \ {n}} /\ secrets' \in {secrets, secrets \ {n}}
        /\ sweep' = [sweep EXCEPT ![n] = "waiting"] /\ Goto(e, pc)
        /\ IF e \in Creates THEN Answer(e, pc) ELSE UNCHANGED claimed
        /\ UNCHANGED <<drawn, sets, volumes, agents, applier>>
    BY <1>4 DEF EraseAll, EraseMisses, EraseOthers, Answer
  <2>2. /\ pc \in Stages /\ pc # "idle" /\ pc \in {"rolled_back", "agents"}
        /\ e \in Creates => pc \in Answers
        /\ e \notin Creates => pc \in Onward
    BY DEF Stages, Answers, Onward
  <2> HIDE DEF pc
  <2>3. task' \in [Requests -> Tasks] /\ task'[e].pc = pc /\ task'[e].name = n
        /\ \A q \in Requests : q # e => task'[q] = task[q]
    BY <1>0, <2>1, <2>2, Moves
  <2>4. TypeOK'
    <3>1. lost' \subseteq Names /\ trouble' \in 0 .. MaxTrouble
      BY <1>0, <1>1, <1>4, LifecycleAssumption
         DEF TypeOK, EraseAll, EraseMisses, GoesWrong
    <3>2. claimed' \in BOOLEAN
      BY <1>0, <2>1 DEF TypeOK, Answer
    <3>3. QED
      BY <1>0, <1>1, <2>1, <2>2, <2>3, <3>1, <3>2 DEF TypeOK, Tasks
  <2>5. OneCreate'
    <3>1. CASE e \in Creates
      BY <1>0, <1>1, <2>1, <2>2, <3>1, AnswerClaim
    <3>2. CASE e \notin Creates
      BY <1>0, <1>1, <2>1, <2>2, <3>2, OnwardClaim
    <3>3. QED
      BY <3>1, <3>2
  <2>6. Touches(e)
    BY <1>0, <2>1 DEF Touches
  <2>7. e \in Creates => Whole(e)' /\ Gone(e)'
    <3>1. e \in Creates => Gone(e)
      BY DEF IInv
    <3>2. Saving(n) => Saving(n)'
      BY <1>0, <2>3 DEF Saving, Requests, Writers
    <3>3. QED
      BY <2>1, <2>2, <2>3, <3>1, <3>2 DEF Whole, Gone
  <2>8. QED
    BY <1>0, <1>1, <2>1, <2>2, <2>4, <2>5, <2>6, <2>7, Working
<1>5. QED
  BY <1>2, <1>3, <1>4 DEF EraseStep

LEMMA RemoveAgentsIInv ==
  ASSUME IInv, NEW d \in Deletes, RemoveAgents(d)
  PROVE  IInv'
<1>0. d \in Requests /\ d \notin Creates /\ d \notin Saves /\ TypeOK
  BY LifecycleAssumption DEF IInv, Requests, Writers
<1>1. /\ task[d].pc = "agents" /\ agents' \subseteq agents
      /\ Answer(d, "deleted") /\ Goto(d, "deleted") /\ claimed' = claimed
      /\ UNCHANGED <<drawn, objects, sets, volumes, tasks, lost, trouble>>
  BY <1>0 DEF RemoveAgents, Answer, IInv, TypeOK
<1>2. "deleted" \in Stages /\ "deleted" \in Answers /\ InFlight(d) /\ task[d].name # None
  BY <1>0, <1>1 DEF Stages, Answers, InFlight, TypeOK
<1>3. task' \in [Requests -> Tasks] /\ task'[d].pc = "deleted"
      /\ task'[d].name = task[d].name
      /\ \A q \in Requests : q # d => task'[q] = task[q]
  BY <1>0, <1>1, <1>2, Moves
<1>4. crs' = crs /\ secrets' = secrets /\ routes' = routes
  BY <1>1 DEF objects
<1>5. TypeOK'
  BY <1>0, <1>1, <1>2, <1>3, <1>4 DEF TypeOK, Tasks, tasks
<1>6. OneCreate'
  BY <1>0, <1>1, <1>2, AnswerClaim
<1>7. Touches(d)
  BY <1>4 DEF Touches
<1>8. QED
  BY <1>0, <1>1, <1>2, <1>5, <1>6, <1>7, Working

\* A dropped handler: what it wrote stays, and it answered nothing.
LEMMA CutTypes == ASSUME TypeOK, NEW rs \in SUBSET Requests PROVE Cut(rs) \subseteq Names
  BY DEF Cut, TypeOK

LEMMA HangUpIInv ==
  ASSUME IInv, NEW r \in Requests, HangUp(r)
  PROVE  IInv'
<1>0. TypeOK
  BY DEF IInv
<1>1. /\ InFlight(r) /\ GoesWrong("hangups") /\ Answer(r, "gone") /\ Goto(r, "gone")
      /\ claimed' = (claimed /\ r \notin Creates) /\ lost' = lost \cup Cut({r})
      /\ UNCHANGED <<drawn, cluster, tasks>>
  BY DEF HangUp, Answer
<1>2. "gone" \in Stages /\ "gone" \in Answers /\ task[r].pc # "idle"
  BY <1>1 DEF Stages, Answers, InFlight
<1>3. /\ task' \in [Requests -> Tasks] /\ task'[r].pc = "gone"
      /\ \A q \in Requests : task'[q].name = task[q].name
      /\ \A q \in Requests : q # r => task'[q] = task[q]
  BY <1>0, <1>1, <1>2, Moves
<1>4. /\ crs' = crs /\ secrets' = secrets /\ routes' = routes /\ sets' = sets
      /\ volumes' = volumes /\ agents' = agents /\ sweep' = sweep /\ applier' = applier
      /\ drawn' = drawn
  BY <1>1 DEF cluster, objects, tasks
<1>5. TypeOK'
  <2>1. lost' \subseteq Names /\ trouble' \in 0 .. MaxTrouble
    <3>1. {r} \in SUBSET Requests
      OBVIOUS
    <3>2. Cut({r}) \subseteq Names
      BY <1>0, <3>1, CutTypes
    <3>3. lost' \subseteq Names
      BY <1>0, <1>1, <3>2 DEF TypeOK
    <3>4. trouble \in 0 .. MaxTrouble /\ trouble < MaxTrouble /\ trouble' = trouble + 1
      BY <1>0, <1>1 DEF TypeOK, GoesWrong
    <3>5. trouble' \in 0 .. MaxTrouble
      BY <3>4, LifecycleAssumption
    <3>6. QED
      BY <3>3, <3>5
  <2>2. QED
    BY <1>0, <1>1, <1>3, <1>4, <2>1 DEF TypeOK, Tasks
<1>6. OneCreate'
  BY <1>1, <1>2, AnswerClaim
<1>7. NameInv'
  BY <1>1, <1>2, <1>4, KeptNames
<1>8. Touches(r) /\ (r \in Creates => Whole(r)' /\ Gone(r)')
  BY <1>3, <1>4 DEF Touches, Whole, Gone
<1>9. ASSUME NEW c \in Creates PROVE Whole(c)' /\ Gone(c)'
  BY <1>1, <1>2, <1>8, Others
<1>10. QED
  BY <1>5, <1>6, <1>7, <1>9 DEF IInv

LEMMA RestartIInv ==
  ASSUME IInv, Restart
  PROVE  IInv'
<1>0. TypeOK /\ NameInv
  BY DEF IInv
<1>1. /\ GoesWrong("restarts") /\ claimed' = FALSE
      /\ task' = [r \in Requests |-> IF InFlight(r) THEN [task[r] EXCEPT !.pc = "gone"]
                                                    ELSE task[r]]
      /\ lost' = lost \cup Cut(Requests) \cup {n \in Names : sweep[n] # "none"}
      /\ sweep' = [n \in Names |-> "none"] /\ applier' = [n \in Names |-> "none"]
      /\ UNCHANGED <<drawn, cluster>>
  BY DEF Restart
<1>2. /\ crs' = crs /\ secrets' = secrets /\ routes' = routes /\ sets' = sets
      /\ volumes' = volumes /\ agents' = agents /\ drawn' = drawn
  BY <1>1 DEF cluster, objects
<1>3. ASSUME NEW q \in Requests
      PROVE  /\ task'[q] \in Tasks /\ task'[q].name = task[q].name
             /\ (task'[q] = task[q] /\ ~InFlight(q)) \/ (task'[q].pc = "gone" /\ InFlight(q))
  BY <1>0, <1>1 DEF TypeOK, Tasks, Stages, Answers
<1>4. TypeOK'
  <2>1. lost' \subseteq Names /\ trouble' \in 0 .. MaxTrouble
    <3>1. Requests \in SUBSET Requests
      OBVIOUS
    <3>2. Cut(Requests) \subseteq Names
      BY <1>0, <3>1, CutTypes
    <3>3. lost' \subseteq Names
      BY <1>0, <1>1, <3>2 DEF TypeOK
    <3>4. trouble \in 0 .. MaxTrouble /\ trouble < MaxTrouble /\ trouble' = trouble + 1
      BY <1>0, <1>1 DEF TypeOK, GoesWrong
    <3>5. trouble' \in 0 .. MaxTrouble
      BY <3>4, LifecycleAssumption
    <3>6. QED
      BY <3>3, <3>5
  <2>2. task' \in [Requests -> Tasks]
    BY <1>1, <1>3
  <2>3. \A r \in Requests :
          task'[r].pc \in Stages \ {"idle", "naming", "conflict", "error", "gone"} =>
            task'[r].name # None
    BY <1>0, <1>3 DEF TypeOK
  <2>4. QED
    BY <1>0, <1>1, <1>2, <2>1, <2>2, <2>3 DEF TypeOK, Tasks
<1>5. OneCreate'
  <2>1. \A q \in Requests : ~InFlight(q)'
    BY <1>3 DEF InFlight, Answers
  <2>2. QED
    BY <1>1, <2>1 DEF OneCreate, Requests, Writers
<1>6. NameInv'
  <2>1. \A q \in Requests : /\ task'[q].name = task[q].name
                            /\ task'[q].pc = "idle" => task[q].pc = "idle"
    BY <1>3
  <2>2. \A c \in Creates : task'[c].name = task[c].name
    BY <2>1 DEF Requests, Writers
  <2>3. QED
    BY <1>0, <1>2, <2>1, <2>2 DEF NameInv
<1>7. ASSUME NEW c \in Creates PROVE Whole(c)' /\ Gone(c)'
  <2>1. Whole(c) /\ Gone(c) /\ c \in Requests
    BY <1>7 DEF IInv, Requests, Writers
  <2>2. \A m : (Deleting(m)' <=> Deleting(m)) /\ (Saving(m)' <=> Saving(m))
    BY <1>3 DEF Deleting, Saving, Requests, Writers
  <2>3. CASE task'[c] = task[c]
    BY <1>2, <2>1, <2>2, <2>3 DEF Whole, Gone
  <2>4. CASE task'[c].pc = "gone"
    BY <2>4 DEF Whole, Gone
  <2>5. QED
    BY <1>3, <2>1, <2>3, <2>4
<1>8. QED
  BY <1>4, <1>5, <1>6, <1>7 DEF IInv

LEMMA DetachedIInv ==
  ASSUME IInv, NEW n \in Names, SweepStep(n) \/ ApplyStep(n) \/ OperatorStep(n)
  PROVE  IInv'
<1>0. TypeOK
  BY DEF IInv
<1>1. CASE SweepStep(n)
  <2>1. UNCHANGED <<claimed, drawn, objects, task>>
    BY <1>1 DEF SweepStep, SweepReady, SweepVolumes, SweepFails, cluster
  <2>2. /\ sweep' \in [Names -> {"none", "waiting", "sweeping"}] /\ applier' = applier
        /\ volumes' \subseteq volumes /\ sets' = sets /\ agents' = agents
        /\ lost' \subseteq lost \cup {n} /\ trouble' \in 0 .. MaxTrouble
    BY <1>0, <1>1, LifecycleAssumption
       DEF SweepStep, SweepReady, SweepVolumes, SweepFails, GoesWrong, TypeOK, cluster
  <2>3. TypeOK'
    BY <1>0, <2>1, <2>2 DEF TypeOK, objects
  <2>4. QED
    BY <2>1, <2>3, Aside
<1>2. CASE ApplyStep(n)
  <2>1. UNCHANGED <<claimed, drawn, objects, task, sweep, lost, trouble, sets, volumes>>
    BY <1>2 DEF ApplyStep, ApplierSettles, ApplierInstalls, cluster
  <2>2. /\ applier' \in [Names -> {"none", "waiting", "applying"}]
        /\ agents' \subseteq Names \X Monitors
    BY <1>0, <1>2 DEF ApplyStep, ApplierSettles, ApplierInstalls, TypeOK, cluster
  <2>3. TypeOK'
    BY <1>0, <2>1, <2>2 DEF TypeOK, objects
  <2>4. QED
    BY <2>1, <2>3, Aside
<1>3. CASE OperatorStep(n)
  <2>1. /\ UNCHANGED <<claimed, drawn, objects, task, agents, tasks, lost, trouble>>
        /\ sets' \subseteq sets \cup {n} /\ volumes' \subseteq volumes \cup {n}
    BY <1>3 DEF OperatorStep, OperatorCreates, SetCollected, VolumesClaimed
  <2>2. TypeOK'
    BY <1>0, <2>1 DEF TypeOK, objects, tasks
  <2>3. QED
    BY <2>1, <2>2, Aside
<1>4. QED
  BY <1>1, <1>2, <1>3

LEMMA Inductive == Spec => []IInv
<1>1. ASSUME IInv, [Next]_vars PROVE IInv'
  <2>1. CASE UNCHANGED vars
    <3>1. TypeOK'
      BY <1>1, <2>1 DEF IInv, TypeOK, vars, cluster, objects, tasks
    <3>2. QED
      BY <1>1, <2>1, <3>1, Aside DEF vars, cluster
  <2>2. ASSUME NEW c \in Creates, CreateStep(c) PROVE IInv'
    BY <1>1, <2>2, CreateIInv
  <2>3. ASSUME NEW s \in Saves, Save(s) PROVE IInv'
    BY <1>1, <2>3, ResolveIInv DEF Save
  <2>4. ASSUME NEW d \in Deletes, Delete(d) \/ RemoveAgents(d) PROVE IInv'
    BY <1>1, <2>4, ResolveIInv, RemoveAgentsIInv DEF Delete
  <2>5. ASSUME NEW w \in Writers, WriteStep(w) PROVE IInv'
    BY <1>1, <2>5, WriteIInv
  <2>6. ASSUME NEW e \in Erasers, EraseStep(e) PROVE IInv'
    BY <1>1, <2>6, EraseIInv
  <2>7. ASSUME NEW r \in Requests, HangUp(r) PROVE IInv'
    BY <1>1, <2>7, HangUpIInv
  <2>8. ASSUME NEW n \in Names, SweepStep(n) \/ ApplyStep(n) \/ OperatorStep(n) PROVE IInv'
    BY <1>1, <2>8, DetachedIInv
  <2>9. CASE Restart
    BY <1>1, <2>9, RestartIInv
  <2>10. QED
    BY <1>1, <2>1, <2>2, <2>3, <2>4, <2>5, <2>6, <2>7, <2>8, <2>9 DEF Next
<1>2. QED
  BY <1>1, InitIInv, PTL DEF Spec

-----------------------------------------------------------------------------
\* The variables have their types, and no request is past its naming without a name,
\* whatever is dropped, fails or restarts.
THEOREM TypeCorrect == Spec => []TypeOK
<1>1. IInv => TypeOK
  BY DEF IInv
<1>2. QED
  BY <1>1, Inductive, PTL

\* CREATES_IN_FLIGHT: of the creates of one base name at most one is handled, and
\* the claim is held exactly while one is.
THEOREM OneAtATime == Spec => []OneCreate
<1>1. IInv => OneCreate
  BY DEF IInv
<1>2. QED
  BY <1>1, Inductive, PTL

\* A deployment answered as created keeps its CR, Secret and routes until a deletion
\* of it: no rollback of another create (unique_name) and no save takes them away.
THEOREM CreatedStaysWhole == Spec => []CreatedStays
<1>1. IInv => CreatedStays
  BY DEF IInv, CreatedStays, Whole, Deleting
<1>2. QED
  BY <1>1, Inductive, PTL

\* whole_or_rolled_back: of a create answered as rolled back no CR is left, unless a
\* save of that deployment got in between.
THEOREM RolledBackGone == Spec => []RolledBackIsGone
<1>1. IInv => RolledBackIsGone
  BY DEF IInv, RolledBackIsGone, Gone, Saving
<1>2. QED
  BY <1>1, Inductive, PTL

-----------------------------------------------------------------------------
(* The other component of MCLifecycle, Provisioning, whose proofs are in       *)
(* ProvisioningProofs.                                                         *)

PO == INSTANCE ProvisioningProofs WITH
        Purposes <- Uses, Monitors <- Choices, Trouble <- ProvTrouble, Kinds <- ProvKinds,
        MaxTrouble <- MaxFailures, task <- provTask

LEMMA OwedAssumed == PO!Assumed
  BY OwedAssumption
  DEF PO!Assumed, P!ProvisioningAssumption, PO!ProvisioningAssumption, P!NoneAssumption,
      PO!NoneAssumption, P!Items, PO!Items, P!Wants, PO!Wants, P!Records, PO!Records

\* The two instances of Provisioning are one.
LEMMA SameProvisioning ==
  /\ P!Init = PO!Init /\ P!Next = PO!Next /\ P!CompleteIsApplied = PO!CompleteIsApplied
<1>1. P!Init = PO!Init
  BY
  DEF P!Init, PO!Init, P!Starters, PO!Starters, P!Waiting, PO!Waiting, P!At, PO!At, P!OffTask,
      PO!OffTask, P!Blank, PO!Blank
<1>2. P!Next = PO!Next
  BY
  DEF P!Next, PO!Next, P!Goes, PO!Goes, P!AtRest, PO!AtRest, P!InTurn,
      PO!InTurn, P!Starters, PO!Starters, P!Fresh, PO!Fresh, P!Parse,
      PO!Parse, P!Pending, PO!Pending, P!Restart, PO!Restart, P!MarkFailed, PO!MarkFailed,
      P!WithDone, PO!WithDone, P!RearmEligible, PO!RearmEligible, P!Writes, PO!Writes,
      P!WriteFails, PO!WriteFails, P!Write, PO!Write, P!At, PO!At, P!Waiting, PO!Waiting,
      P!Blank, PO!Blank, P!Reading, PO!Reading, P!OffTask, PO!OffTask, P!MayStart, PO!MayStart,
      P!Starts, PO!Starts, P!Ends, PO!Ends, P!Save, PO!Save, P!Retry, PO!Retry, P!Toggle,
      PO!Toggle, P!ToggleMarks, PO!ToggleMarks, P!Rearm, PO!Rearm, P!Begin, PO!Begin,
      P!MarkRecord, PO!MarkRecord, P!MarkFails, PO!MarkFails, P!Spawn, PO!Spawn, P!Move,
      PO!Move, P!Again, PO!Again, P!ReadDeferred, PO!ReadDeferred, P!RunsOut, PO!RunsOut,
      P!ReadFails, PO!ReadFails, P!GiveUp, PO!GiveUp, P!TimesOut, PO!TimesOut, P!Settles,
      PO!Settles, P!MarkDone, PO!MarkDone, P!ApplyProfile, PO!ApplyProfile, P!ApplyMonitor,
      PO!ApplyMonitor, P!ItemFails, PO!ItemFails, P!PassEnds, PO!PassEnds, P!Moves, PO!Moves,
      P!Crash, PO!Crash, P!UserStarts, PO!UserStarts, P!RequestGoesOn, PO!RequestGoesOn,
      P!Applier, PO!Applier
<1>3. P!CompleteIsApplied = PO!CompleteIsApplied
  BY
  DEF P!CompleteIsApplied, PO!CompleteIsApplied, P!Reported, PO!Reported, P!Pending,
      PO!Pending, P!Starters, PO!Starters
<1>4. QED
  BY <1>1, <1>2, <1>3

\* In a behaviour of that component every step is one of its own.
LEMMA ProvisioningSteps ==
  ASSUME [AllNext]_allVars, part = "provisioning"
  PROVE  part' = part /\ (PO!Next \/ UNCHANGED provVars)
<1>1. CASE ProvNext
  <2>1. P!Next
    BY <1>1 DEF ProvNext, Prov, P!Next, P!UserStarts, P!RequestGoesOn, P!Applier
  <2>2. QED
    BY <1>1, <2>1, SameProvisioning DEF ProvNext, Prov
<1>2. ~LifeNext
  BY DEF LifeNext, Life
<1>3. CASE UNCHANGED allVars
  BY <1>3 DEF allVars
<1>4. QED
  BY <1>1, <1>2, <1>3 DEF AllNext

\* In this component, of three purposes or any number: a deployment that is reported
\* complete, with no request under way, has every monitor it selected, and its
\* profile unless a record on the way counted two.  The applied set that the record
\* keeps over every failed attempt, save and retry is never more than what is on the
\* cluster, as long as what came so far was orderly.
THEOREM CompleteMeansApplied == AllSpec => []CompleteIsApplied
<1> DEFINE Held == part = "provisioning" => PO!IInv /\ PO!HistoryTyped /\ PO!OrderlyInv
<1>1. AllInit => Held
  <2>1. PO!Init => PO!HistoryTyped /\ PO!OrderlyInv
    BY PO!InitSerial DEF PO!Init, PO!HistoryTyped, PO!OrderlyInv
  <2>2. QED
    BY <2>1, OwedAssumed, SameProvisioning, PO!InitIInv DEF AllInit
<1>2. Held /\ [AllNext]_allVars => Held'
  <2>1. SUFFICES ASSUME Held, [AllNext]_allVars, part' = "provisioning"
                 PROVE  PO!IInv' /\ PO!HistoryTyped' /\ PO!OrderlyInv'
    OBVIOUS
  <2>2. part = "provisioning"
    BY <2>1 DEF AllNext, LifeNext, ProvNext, Life, Prov, allVars
  <2>3. PO!IInv /\ PO!HistoryTyped /\ PO!OrderlyInv /\ [PO!Next]_provVars
    BY <2>1, <2>2, ProvisioningSteps
  <2>4. QED
    BY <2>3, PO!NextIInv, PO!NextHistory, PO!NextSerial DEF PO!vars, provVars
<1>3. Held => CompleteIsApplied
  <2>1. ASSUME PO!IInv, PO!OrderlyInv PROVE PO!CompleteIsApplied
    BY <2>1, PO!SerialComplete
    DEF PO!OrderlyInv, PO!CompleteIsApplied, PO!Applied, PO!NoRequest, PO!Busy
  <2>2. QED
    BY <2>1, SameProvisioning DEF CompleteIsApplied
<1>4. QED
  BY <1>1, <1>2, <1>3, PTL DEF AllSpec
=============================================================================
