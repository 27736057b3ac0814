-------------------------- MODULE ContentsProofs --------------------------
(***************************************************************************)
(* What is proved of the parts of MCContents, for any values of their       *)
(* constants: of Integrations, that the loop implements updates made in one *)
(* step and that what runs is listed; of Retention, that a pass keeps a     *)
(* user's edits and that the CR says what the policy holds; of Provisioning *)
(* (instancing ProvisioningProofs), that monitors come after what they need *)
(* a profile for; of Collectors, that a tick leaves every collector with    *)
(* the password OpenSearch takes; of Catalog, that what is recorded runs    *)
(* and that what was removed is gone.                                       *)
(***************************************************************************)
EXTENDS MCContents, TLAPS

\* A reading since which nothing was written is what the CR says.
FreshReading ==
  \A r \in fresh : req[r].pc = "patch" =>
    req[r].monitors = monitors /\ req[r].versions = versions

\* An id on which requests did not overlap has one at work.
Alone ==
  \A q, r \in Requests :
    InFlight(q) /\ InFlight(r) /\ req[q].id = req[r].id /\ req[r].id \notin unsure => q = r

\* How far the request at work on an id has come tells what runs and what is listed.
Listed(i) ==
  /\ i \in versions => i \in monitors
  /\ (\A r \in Requests : req[r].pc \in {"read", "patch"} => req[r].id # i) =>
       (i \in monitors <=> i \in running)
  /\ \A r \in Requests : req[r].pc \in {"read", "patch"} /\ req[r].id = i =>
       /\ req[r].what = "enable" => i \in running
       /\ req[r].what = "disable" => i \notin running
       /\ req[r].what = "version" => i \in running /\ i \in monitors

IInv == TypeOK /\ FreshReading /\ Alone /\ \A i \in Ids \ unsure : Listed(i)

LEMMA InitIInv == Init => IInv
<1> SUFFICES ASSUME Init PROVE IInv
  OBVIOUS
<1>1. TypeOK
  <2>1. trouble \in 0 .. MaxTrouble
    BY IntegrationsAssumption DEF Init
  <2>2. QED
    BY <2>1 DEF Init, TypeOK
<1>2. FreshReading /\ Alone
  BY DEF Init, FreshReading, Alone, InFlight, Idle
<1>3. \A i \in Ids \ unsure : Listed(i)
  BY DEF Init, Listed, Idle
<1>4. QED
  BY <1>1, <1>2, <1>3 DEF IInv

-----------------------------------------------------------------------------
(* What a request is at each await.                                          *)

LEMMA Shapes ==
  ASSUME TypeOK, NEW r \in Requests
  PROVE  /\ req[r].pc \in {"idle", "engine", "done", "error", "read", "patch"}
         /\ req[r].pc \in {"engine", "read", "patch"} =>
              req[r].kind \in Kinds /\ req[r].id \in Ids
         /\ req[r].pc \in {"read", "patch"} =>
              req[r].what \in Whats /\ req[r].attempt \in 1 .. Attempts
         /\ req[r].pc = "patch" => req[r].monitors \subseteq Ids /\ req[r].versions \subseteq Ids
<1> DEFINE A == [pc : {"engine"}, kind : Kinds, id : Ids]
           B == [pc : {"done", "error"}, id : Ids]
           C == [pc : {"read"}, kind : Kinds, id : Ids, what : Whats, attempt : 1 .. Attempts]
           D == [pc : {"patch"}, kind : Kinds, id : Ids, what : Whats, attempt : 1 .. Attempts,
                 monitors : SUBSET Ids, versions : SUBSET Ids]
<1>1. req[r] \in {Idle} \cup A \cup B \cup C \cup D
  BY DEF TypeOK
<1>2. CASE req[r] = Idle
  BY <1>2 DEF Idle
<1>3. CASE req[r] \in A
  BY <1>3
<1>4. CASE req[r] \in B
  BY <1>4
<1>5. CASE req[r] \in C
  BY <1>5
<1>6. CASE req[r] \in D
  BY <1>6
<1>7. QED
  BY <1>1, <1>2, <1>3, <1>4, <1>5, <1>6

\* A write made of a fresh reading is the update of the CR as it is, and leaves no
\* other reading fresh unless it changed nothing.
LEMMA LandIsUpdate ==
  ASSUME IInv, NEW r \in Requests, req[r].pc = "patch", r \in fresh, Land(r)
  PROVE  /\ monitors' = Sets!MonitorsAfter(Update(r), monitors)
         /\ versions' = Sets!VersionsAfter(Update(r), versions)
         /\ monitors' \subseteq Ids /\ versions' \subseteq Ids
         /\ fresh' \subseteq fresh \ {r}
         /\ fresh' # {} => monitors' = monitors /\ versions' = versions
<1>1. req[r].what \in Whats /\ req[r].id \in Ids
  BY Shapes DEF IInv
<1>2. req[r].monitors = monitors /\ req[r].versions = versions
  BY DEF IInv, FreshReading
<1>3. monitors \subseteq Ids /\ versions \subseteq Ids /\ fresh \subseteq Requests
  BY DEF IInv, TypeOK
<1>4. /\ monitors' = Sets!MonitorsAfter(Update(r), monitors)
      /\ versions' = Sets!VersionsAfter(Update(r), versions)
  BY <1>1, <1>2, <1>3 DEF Land, MonitorsChanged, VersionsChanged, Sets!MonitorsAfter,
                    Sets!VersionsAfter, Sets!Targets, Update, Whats
<1>5. monitors' \subseteq Ids /\ versions' \subseteq Ids
  BY <1>1, <1>2, <1>3 DEF Land, MonitorsChanged, VersionsChanged, Update
<1>6. fresh' \subseteq fresh \ {r} /\ (fresh' # {} => monitors' = monitors /\ versions' = versions)
  BY <1>1, <1>2 DEF Land
<1>7. QED
  BY <1>4, <1>5, <1>6

\* A step that moves one request moves no other.
LEMMA Moves ==
  ASSUME TypeOK, NEW r \in Requests, NEW x, req' = [req EXCEPT ![r] = x]
  PROVE  req'[r] = x /\ \A q \in Requests \ {r} : req'[q] = req[q]
BY DEF TypeOK

-----------------------------------------------------------------------------
(* The steps preserve the invariant.                                         *)

LEMMA StartIInv == ASSUME IInv, NEW r \in Requests, Start(r) PROVE IInv'
<1>1. PICK kind \in Kinds, i \in Ids :
        /\ req' = [req EXCEPT ![r] = [pc |-> "engine", kind |-> kind, id |-> i]]
        /\ unsure' = IF \E q \in Requests : InFlight(q) /\ req[q].id = i
                     THEN unsure \cup {i} ELSE unsure
  BY DEF Start
<1>2. /\ req'[r] = [pc |-> "engine", kind |-> kind, id |-> i]
      /\ \A q \in Requests \ {r} : req'[q] = req[q]
  BY <1>1, Moves DEF IInv
<1>3. UNCHANGED <<running, monitors, versions, fresh, trouble>> /\ req[r].pc = "idle"
  BY DEF Start
<1>4. TypeOK'
  BY <1>1, <1>3 DEF IInv, TypeOK
<1>5. FreshReading'
  BY <1>2, <1>3 DEF IInv, TypeOK, FreshReading
<1>6. Alone'
  <2> SUFFICES ASSUME NEW p \in Requests, NEW q \in Requests,
                      InFlight(p)', InFlight(q)', req'[p].id = req'[q].id,
                      req'[q].id \notin unsure', p # q
               PROVE  FALSE
    BY DEF Alone
  <2>1. \A o \in Requests \ {r} : InFlight(o)' => InFlight(o)
    BY <1>2 DEF InFlight
  <2>2. CASE p # r /\ q # r
    BY <1>1, <1>2, <2>1, <2>2 DEF IInv, Alone
  <2>3. CASE p = r
    BY <1>1, <1>2, <2>1, <2>3
  <2>4. CASE q = r
    BY <1>1, <1>2, <2>1, <2>4
  <2>5. QED
    BY <2>2, <2>3, <2>4
<1>7. \A j \in Ids \ unsure' : Listed(j)'
  <2>1. unsure \subseteq unsure'
    BY <1>1
  <2>2. \A q \in Requests : req'[q].pc \in {"read", "patch"} => q # r
    BY <1>2
  <2>3. \A q \in Requests : req[q].pc \in {"read", "patch"} => q # r
    BY <1>3
  <2>4. QED
    BY <1>2, <1>3, <2>1, <2>2, <2>3 DEF IInv, Listed
<1>8. QED
  BY <1>4, <1>5, <1>6, <1>7 DEF IInv

\* A request that goes on in the loop, or ends, is alone if it was.
LEMMA StaysAlone ==
  ASSUME IInv, NEW r \in Requests, InFlight(r), unsure \subseteq unsure',
         req'[r].id = req[r].id, \A q \in Requests \ {r} : req'[q] = req[q]
  PROVE  Alone'
<1> SUFFICES ASSUME NEW p \in Requests, NEW q \in Requests,
                    InFlight(p)', InFlight(q)', req'[p].id = req'[q].id,
                    req'[q].id \notin unsure'
             PROVE  p = q
  BY DEF Alone
<1>1. \A o \in Requests : req'[o].id = req[o].id /\ (InFlight(o)' => InFlight(o))
  BY DEF InFlight
<1>2. QED
  BY <1>1 DEF IInv, Alone

LEMMA EngineIInv == ASSUME IInv, NEW r \in Requests, Engine(r) PROVE IInv'
<1> DEFINE x == [pc |-> "read", kind |-> req[r].kind, id |-> req[r].id,
                 what |-> FirstUpdate(req[r].kind), attempt |-> 1]
<1>1. /\ req[r].pc = "engine" /\ req' = [req EXCEPT ![r] = x]
      /\ UNCHANGED <<monitors, versions, fresh, unsure, trouble>>
  BY DEF Engine
<1>2. req'[r] = x /\ \A q \in Requests \ {r} : req'[q] = req[q]
  BY <1>1, Moves DEF IInv
<1>3. /\ req[r].kind \in Kinds /\ req[r].id \in Ids
      /\ FirstUpdate(req[r].kind) \in {"enable", "disable"}
  BY <1>1, Shapes DEF IInv, FirstUpdate
<1>4. /\ running' \subseteq Ids
      /\ FirstUpdate(req[r].kind) = "enable" => running' = running \cup {req[r].id}
      /\ FirstUpdate(req[r].kind) = "disable" => running' = running \ {req[r].id}
  BY <1>3 DEF Engine, IInv, TypeOK
<1>5. TypeOK'
  <2>1. 1 \in 1 .. Attempts
    BY IntegrationsAssumption
  <2>2. x \in [pc : {"read"}, kind : Kinds, id : Ids, what : Whats, attempt : 1 .. Attempts]
    BY <1>3, <2>1 DEF Whats
  <2>3. QED
    BY <1>1, <1>4, <2>2 DEF IInv, TypeOK
<1>6. FreshReading'
  BY <1>1, <1>2 DEF IInv, TypeOK, FreshReading
<1>7. Alone'
  BY <1>1, <1>2, StaysAlone DEF InFlight
<1>8. ASSUME NEW i \in Ids \ unsure' PROVE Listed(i)'
  <2>1. Listed(i)
    BY <1>1, <1>8 DEF IInv
  <2>2. CASE i = req[r].id
    <3>1. \A q \in Requests \ {r} : req[q].pc \in {"read", "patch"} => req[q].id # i
      BY <1>1, <1>8, <2>2 DEF IInv, Alone, InFlight
    <3>2. QED
      BY <1>1, <1>2, <1>3, <1>4, <2>1, <2>2, <3>1 DEF Listed
  <2>3. CASE i # req[r].id
    <3>1. (i \in running' <=> i \in running) /\ (i \in monitors' <=> i \in monitors)
          /\ (i \in versions' <=> i \in versions)
      BY <1>1, <1>3, <1>4, <2>3
    <3>2. req'[r].id # i /\ req[r].id # i
      BY <1>2, <2>3
    <3>3. QED
      BY <1>2, <2>1, <3>1, <3>2 DEF Listed
  <2>4. QED
    BY <2>2, <2>3
<1>9. QED
  BY <1>5, <1>6, <1>7, <1>8 DEF IInv

LEMMA ReadIInv == ASSUME IInv, NEW r \in Requests, Read(r) PROVE IInv'
<1> DEFINE x == [pc |-> "patch", kind |-> req[r].kind, id |-> req[r].id,
                 what |-> req[r].what, attempt |-> req[r].attempt,
                 monitors |-> monitors, versions |-> versions]
<1>1. /\ req[r].pc = "read" /\ req' = [req EXCEPT ![r] = x] /\ fresh' = fresh \cup {r}
      /\ UNCHANGED <<running, monitors, versions, unsure, trouble>>
  BY DEF Read
<1>2. req'[r] = x /\ \A q \in Requests \ {r} : req'[q] = req[q]
  BY <1>1, Moves DEF IInv
<1>3. TypeOK'
  <2>1. x \in [pc : {"patch"}, kind : Kinds, id : Ids, what : Whats, attempt : 1 .. Attempts,
               monitors : SUBSET Ids, versions : SUBSET Ids]
    BY <1>1, Shapes DEF IInv, TypeOK
  <2>2. QED
    BY <1>1, <2>1 DEF IInv, TypeOK
<1>4. FreshReading'
  BY <1>1, <1>2 DEF IInv, TypeOK, FreshReading
<1>5. Alone'
  BY <1>1, <1>2, StaysAlone DEF InFlight
<1>6. \A i \in Ids \ unsure' : Listed(i)'
  BY <1>1, <1>2 DEF IInv, Listed
<1>7. QED
  BY <1>3, <1>4, <1>5, <1>6 DEF IInv

\* What follows an update: the next one of the same request, or its answer.
LEMMA DoneMoves ==
  ASSUME TypeOK, NEW r \in Requests, req[r].pc = "patch", Done(r)
  PROVE  /\ \A q \in Requests \ {r} : req'[q] = req[q]
         /\ req'[r].id = req[r].id
         /\ \/ /\ req'[r].pc = "read" /\ req[r].what = "enable" /\ req'[r].what = "version"
               /\ req'[r] \in [pc : {"read"}, kind : Kinds, id : Ids, what : Whats,
                               attempt : 1 .. Attempts]
            \/ req'[r].pc = "done" /\ req'[r] \in [pc : {"done", "error"}, id : Ids]
<1>1. req[r].id \in Ids /\ req[r].kind \in Kinds
  BY Shapes
<1>2. 1 \in 1 .. Attempts
  BY IntegrationsAssumption
<1>3. CASE req[r].kind = "install" /\ req[r].what = "enable"
  <2> DEFINE x == [pc |-> "read", kind |-> "install", id |-> req[r].id,
                   what |-> "version", attempt |-> 1]
  <2>1. req' = [req EXCEPT ![r] = x]
    BY <1>3 DEF Done
  <2>2. x \in [pc : {"read"}, kind : Kinds, id : Ids, what : Whats, attempt : 1 .. Attempts]
    BY <1>1, <1>2 DEF Kinds, Whats
  <2>3. req'[r] = x /\ \A q \in Requests \ {r} : req'[q] = req[q]
    BY <2>1, Moves
  <2>4. QED
    BY <1>3, <2>2, <2>3
<1>4. CASE ~(req[r].kind = "install" /\ req[r].what = "enable")
  <2> DEFINE x == [pc |-> "done", id |-> req[r].id]
  <2>1. req' = [req EXCEPT ![r] = x]
    BY <1>4 DEF Done
  <2>2. req'[r] = x /\ \A q \in Requests \ {r} : req'[q] = req[q]
    BY <2>1, Moves
  <2>3. QED
    BY <1>1, <2>2
<1>5. QED
  BY <1>3, <1>4

\* The types after a step that gives one request a record of one of the shapes.
LEMMA ReqType ==
  ASSUME TypeOK, NEW r \in Requests, NEW x, req' = [req EXCEPT ![r] = x],
         \/ x \in [pc : {"done", "error"}, id : Ids]
         \/ x \in [pc : {"read"}, kind : Kinds, id : Ids, what : Whats,
                   attempt : 1 .. Attempts],
         running' \subseteq Ids, monitors' \subseteq Ids, versions' \subseteq Ids,
         fresh' \subseteq Requests, unsure' \subseteq Ids, trouble' \in 0 .. MaxTrouble
  PROVE  TypeOK'
BY DEF TypeOK

LEMMA PatchIInv == ASSUME IInv, NEW r \in Requests, Patch(r) PROVE IInv'
<1>1. /\ req[r].pc = "patch" /\ r \in fresh /\ Land(r) /\ Done(r)
      /\ UNCHANGED <<running, unsure, trouble>>
  BY DEF Patch
<1>2. /\ \A q \in Requests \ {r} : req'[q] = req[q]
      /\ req'[r].id = req[r].id
      /\ \/ /\ req'[r].pc = "read" /\ req[r].what = "enable" /\ req'[r].what = "version"
            /\ req'[r] \in [pc : {"read"}, kind : Kinds, id : Ids, what : Whats,
                            attempt : 1 .. Attempts]
         \/ req'[r].pc = "done" /\ req'[r] \in [pc : {"done", "error"}, id : Ids]
  BY <1>1, DoneMoves DEF IInv
<1>3. /\ monitors' = Sets!MonitorsAfter(Update(r), monitors)
      /\ versions' = Sets!VersionsAfter(Update(r), versions)
      /\ monitors' \subseteq Ids /\ versions' \subseteq Ids
      /\ fresh' \subseteq fresh \ {r}
      /\ fresh' # {} => monitors' = monitors /\ versions' = versions
  BY <1>1, LandIsUpdate
<1>4. req[r].id \in Ids /\ req[r].what \in Whats
  BY <1>1, Shapes DEF IInv
<1>5. TypeOK'
  <2>1. PICK x : req' = [req EXCEPT ![r] = x]
    BY <1>1 DEF Done
  <2>2. req'[r] = x
    BY <2>1, Moves DEF IInv
  <2>3. /\ running' \subseteq Ids /\ fresh' \subseteq Requests /\ unsure' \subseteq Ids
        /\ trouble' \in 0 .. MaxTrouble
    BY <1>1, <1>3 DEF IInv, TypeOK
  <2>4. QED
    BY <1>2, <1>3, <2>1, <2>2, <2>3, ReqType DEF IInv
<1>6. FreshReading'
  BY <1>2, <1>3 DEF IInv, TypeOK, FreshReading
<1>7. Alone'
  BY <1>1, <1>2, StaysAlone DEF InFlight
<1>8. ASSUME NEW i \in Ids \ unsure' PROVE Listed(i)'
  <2>1. Listed(i)
    BY <1>1, <1>8 DEF IInv
  <2>2. CASE i = req[r].id
    <3>1. \A q \in Requests \ {r} : req[q].pc \in {"read", "patch"} => req[q].id # i
      BY <1>1, <1>8, <2>2 DEF IInv, Alone, InFlight
    <3>2. /\ req[r].what = "enable" => i \in monitors' /\ i \in running
          /\ req[r].what = "disable" => i \notin monitors' /\ i \notin versions' /\ i \notin running
          /\ req[r].what = "version" => i \in monitors' /\ i \in running
      BY <1>1, <1>3, <1>4, <2>1, <2>2
         DEF Listed, Sets!MonitorsAfter, Sets!VersionsAfter, Sets!Targets, Update
    <3>3. req[r].what \in {"enable", "disable", "version"}
      BY <1>4 DEF Whats
    <3>4. i \in versions' => i \in monitors'
      BY <3>2, <3>3
    <3>5. \A q \in Requests : req'[q].pc \in {"read", "patch"} /\ req'[q].id = i =>
            q = r /\ req'[r].what = "version" /\ req[r].what = "enable"
      BY <1>2, <3>1
    <3>6. (i \in monitors' <=> i \in running')
      BY <1>1, <3>2, <3>3
    <3>7. running' = running
      BY <1>1
    <3>8. QED
      BY <3>2, <3>4, <3>5, <3>6, <3>7 DEF Listed
  <2>3. CASE i # req[r].id
    <3>1. (i \in monitors' <=> i \in monitors) /\ (i \in versions' <=> i \in versions)
      BY <1>3, <1>8, <2>3 DEF Sets!MonitorsAfter, Sets!VersionsAfter, Sets!Targets, Update
    <3>2. req'[r].id # i /\ req[r].id # i
      BY <1>2, <2>3
    <3>3. QED
      BY <1>1, <1>2, <2>1, <3>1, <3>2 DEF Listed
  <2>4. QED
    BY <2>2, <2>3
<1>9. QED
  BY <1>5, <1>6, <1>7, <1>8 DEF IInv

\* A request that fails gives up its id: what is claimed of the others is untouched.
LEMMA FailedIInv ==
  ASSUME IInv, NEW r \in Requests, InFlight(r), Failed(r),
         running' \subseteq Ids, monitors' \subseteq Ids, versions' \subseteq Ids,
         fresh' \subseteq fresh, trouble' \in 0 .. MaxTrouble,
         fresh' # {} => monitors' = monitors /\ versions' = versions,
         \A i \in Ids : i # req[r].id =>
           /\ i \in running' <=> i \in running
           /\ i \in monitors' <=> i \in monitors
           /\ i \in versions' <=> i \in versions
  PROVE  IInv'
<1> DEFINE x == [pc |-> "error", id |-> req[r].id]
<1>1. req' = [req EXCEPT ![r] = x] /\ unsure' = unsure \cup {req[r].id}
  BY DEF Failed
<1>2. req'[r] = x /\ \A q \in Requests \ {r} : req'[q] = req[q]
  BY <1>1, Moves DEF IInv
<1>3. req[r].id \in Ids
  BY Shapes DEF IInv, InFlight
<1>4. TypeOK'
  <2>1. x \in [pc : {"done", "error"}, id : Ids]
    BY <1>3
  <2>2. unsure' \subseteq Ids /\ fresh' \subseteq Requests
    BY <1>1, <1>3 DEF IInv, TypeOK
  <2>3. QED
    BY <1>1, <2>1, <2>2, ReqType DEF IInv
<1>5. FreshReading'
  BY <1>2 DEF IInv, TypeOK, FreshReading
<1>6. Alone'
  BY <1>1, <1>2, StaysAlone
<1>7. ASSUME NEW i \in Ids \ unsure' PROVE Listed(i)'
  <2>1. Listed(i) /\ i # req[r].id
    BY <1>1, <1>7 DEF IInv
  <2>2. QED
    BY <1>2, <2>1 DEF Listed
<1>8. QED
  BY <1>4, <1>5, <1>6, <1>7 DEF IInv

LEMMA ConflictIInv == ASSUME IInv, NEW r \in Requests, Conflict(r) PROVE IInv'
<1>1. /\ req[r].pc = "patch" /\ InFlight(r)
      /\ UNCHANGED <<running, monitors, versions, fresh, trouble>>
  BY DEF Conflict, InFlight
<1>2. running \subseteq Ids /\ monitors \subseteq Ids /\ versions \subseteq Ids
      /\ trouble \in 0 .. MaxTrouble /\ fresh \subseteq Requests /\ unsure \subseteq Ids
  BY DEF IInv, TypeOK
<1>3. CASE req[r].attempt < Attempts
  <2> DEFINE x == [pc |-> "read", kind |-> req[r].kind, id |-> req[r].id,
                   what |-> req[r].what, attempt |-> req[r].attempt + 1]
  <2>1. req' = [req EXCEPT ![r] = x] /\ unsure' = unsure
    BY <1>3 DEF Conflict
  <2>2. req'[r] = x /\ \A q \in Requests \ {r} : req'[q] = req[q]
    BY <2>1, Moves DEF IInv
  <2>3. /\ req[r].kind \in Kinds /\ req[r].id \in Ids /\ req[r].what \in Whats
        /\ req[r].attempt \in 1 .. Attempts
    BY <1>1, Shapes DEF IInv
  <2>4. req[r].attempt + 1 \in 1 .. Attempts
    BY <1>3, <2>3, IntegrationsAssumption
  <2>5. x \in [pc : {"read"}, kind : Kinds, id : Ids, what : Whats, attempt : 1 .. Attempts]
    BY <2>3, <2>4
  <2>6. TypeOK'
    BY <1>1, <1>2, <2>1, <2>5, ReqType DEF IInv
  <2>7. FreshReading'
    BY <1>1, <2>2 DEF IInv, TypeOK, FreshReading
  <2>8. Alone'
    BY <1>1, <2>1, <2>2, StaysAlone
  <2>9. \A i \in Ids \ unsure' : Listed(i)'
    BY <1>1, <2>1, <2>2 DEF IInv, Listed
  <2>10. QED
    BY <2>6, <2>7, <2>8, <2>9 DEF IInv
<1>4. CASE ~(req[r].attempt < Attempts)
  <2>1. Failed(r)
    BY <1>4 DEF Conflict
  <2>2. QED
    BY <1>1, <1>2, <2>1, FailedIInv
<1>5. QED
  BY <1>3, <1>4

LEMMA FailsIInv ==
  ASSUME IInv, NEW r \in Requests, RequestFails(r) \/ PatchFails(r) PROVE IInv'
<1>1. GoesWrong /\ Failed(r) /\ InFlight(r)
  BY DEF RequestFails, PatchFails, InFlight
<1>2. trouble' \in 0 .. MaxTrouble
  <2>1. trouble \in Nat /\ trouble < MaxTrouble /\ trouble' = trouble + 1 /\ MaxTrouble \in Nat
    BY <1>1, IntegrationsAssumption DEF GoesWrong, IInv, TypeOK
  <2>2. QED
    BY <2>1
<1>3. req[r].id \in Ids
  BY <1>1, Shapes DEF IInv, InFlight
<1>4. running \subseteq Ids /\ monitors \subseteq Ids /\ versions \subseteq Ids
  BY DEF IInv, TypeOK
<1>5. CASE RequestFails(r)
  <2>1. UNCHANGED <<monitors, versions, fresh>>
    BY <1>5 DEF RequestFails
  <2>2. running' \in {running, running \cup {req[r].id}, running \ {req[r].id}}
    BY <1>5 DEF RequestFails
  <2>3. QED
    BY <1>1, <1>2, <1>3, <1>4, <2>1, <2>2, FailedIInv
<1>6. CASE PatchFails(r)
  <2>1. running' = running /\ req[r].pc = "patch"
    BY <1>6 DEF PatchFails
  <2>2. CASE r \in fresh /\ Land(r)
    <3>1. /\ monitors' = Sets!MonitorsAfter(Update(r), monitors)
          /\ versions' = Sets!VersionsAfter(Update(r), versions)
          /\ monitors' \subseteq Ids /\ versions' \subseteq Ids
          /\ fresh' \subseteq fresh \ {r}
          /\ fresh' # {} => monitors' = monitors /\ versions' = versions
      BY <2>1, <2>2, LandIsUpdate
    <3>2. \A i \in Ids : i # req[r].id =>
            (i \in monitors' <=> i \in monitors) /\ (i \in versions' <=> i \in versions)
      BY <3>1 DEF Sets!MonitorsAfter, Sets!VersionsAfter, Sets!Targets, Update
    <3>3. QED
      BY <1>1, <1>2, <1>4, <2>1, <3>1, <3>2, FailedIInv
  <2>3. CASE UNCHANGED <<monitors, versions, fresh>>
    BY <1>1, <1>2, <1>4, <2>1, <2>3, FailedIInv
  <2>4. QED
    BY <1>6, <2>2, <2>3 DEF PatchFails
<1>7. QED
  BY <1>5, <1>6

LEMMA Inductive == Spec => []IInv
<1>1. ASSUME IInv, [Next]_vars PROVE IInv'
  <2>1. CASE UNCHANGED vars
    <3>1. TypeOK'
      BY <1>1, <2>1 DEF IInv, TypeOK, vars
    <3>2. QED
      BY <1>1, <2>1, <3>1 DEF IInv, FreshReading, Alone, InFlight, Listed, vars
  <2>2. CASE OtherWrite
    <3>1. UNCHANGED <<running, monitors, versions, req, unsure, trouble>> /\ fresh' = {}
      BY <2>2 DEF OtherWrite
    <3>2. TypeOK'
      BY <1>1, <3>1 DEF IInv, TypeOK
    <3>3. QED
      BY <1>1, <3>1, <3>2 DEF IInv, FreshReading, Alone, InFlight, Listed
  <2>3. ASSUME NEW r \in Requests, Start(r) \/ Step(r) PROVE IInv'
    BY <1>1, <2>3, StartIInv, EngineIInv, ReadIInv, PatchIInv, ConflictIInv, FailsIInv
       DEF Step
  <2>4. QED
    BY <1>1, <2>1, <2>2, <2>3 DEF Next
<1>2. QED
  BY <1>1, InitIInv, PTL DEF Spec

-----------------------------------------------------------------------------
\* The variables have their types; no request is at an attempt beyond ATTEMPTS.
THEOREM TypeCorrect == Spec => []TypeOK
<1>1. IInv => TypeOK
  BY DEF IInv
<1>2. QED
  BY <1>1, Inductive, PTL

\* update_annotations: "an agent running but absent from both annotations" does not
\* come about on an id whose requests did not overlap, however many others do.
THEOREM RunsAsListed == Spec => []ListedIsRunning
<1>1. IInv => ListedIsRunning
  BY DEF IInv, ListedIsRunning, Listed, InFlight
<1>2. QED
  BY <1>1, Inductive, PTL

-----------------------------------------------------------------------------
(* The loop implements updates in one step.                                  *)

\* A request owes the update it is at while it is in the loop, and none outside it.
OwedOK ==
  \A r \in Requests :
    IF req[r].pc \in {"read", "patch"}
    THEN Owed[r] = Update(r) /\ Owed[r] \in Sets!Updates /\ Owed[r] # None
    ELSE Owed[r] = None

LEMMA OwedIs == IInv => OwedOK
<1> SUFFICES ASSUME IInv, NEW r \in Requests
             PROVE  IF req[r].pc \in {"read", "patch"}
                    THEN Owed[r] = Update(r) /\ Owed[r] \in Sets!Updates /\ Owed[r] # None
                    ELSE Owed[r] = None
  BY DEF OwedOK
<1>1. req[r].pc \in {"read", "patch"} => Update(r) \in Sets!Updates
  BY Shapes DEF IInv, Update, Sets!Updates, Whats
<1>2. None \notin Sets!Updates
  BY IntegrationsAssumption DEF Sets!Updates
<1>3. QED
  BY <1>1, <1>2 DEF Owed

\* A step that leaves the other requests alone changes what one request owes.
LEMMA OwedMoves ==
  ASSUME NEW r \in Requests, \A q \in Requests \ {r} : req'[q] = req[q]
  PROVE  Owed' = [Owed EXCEPT ![r] = Owed'[r]]
BY DEF Owed, Update

LEMMA StepIsUpdate ==
  ASSUME IInv, OwedOK, OwedOK', NEW r \in Requests, Start(r) \/ Step(r)
  PROVE  [Sets!Next]_<<monitors, versions, Owed>>
<1>1. PICK x : req' = [req EXCEPT ![r] = x]
  BY DEF Start, Step, Engine, Read, Patch, Done, Conflict, RequestFails, PatchFails, Failed
<1>2. req'[r] = x /\ \A q \in Requests \ {r} : req'[q] = req[q]
  BY <1>1, Moves DEF IInv
<1>3. Owed' = [Owed EXCEPT ![r] = Owed'[r]] /\ Owed'[r] \in Sets!Updates \cup {None}
  BY <1>2, OwedMoves DEF OwedOK
<1>4. ASSUME UNCHANGED <<monitors, versions>>, Owed'[r] = Owed[r]
      PROVE  UNCHANGED <<monitors, versions, Owed>>
  BY <1>3, <1>4 DEF Owed
\* Nothing owed before: an update is decided on, or nothing happens.
<1>5. ASSUME UNCHANGED <<monitors, versions>>, Owed[r] = None
      PROVE  [Sets!Next]_<<monitors, versions, Owed>>
  BY <1>3, <1>4, <1>5 DEF Sets!Next, Sets!Owe
\* Something owed before: it is given up, or still owed.
<1>6. ASSUME UNCHANGED <<monitors, versions>>, Owed'[r] \in {Owed[r], None}, Owed[r] # None
      PROVE  [Sets!Next]_<<monitors, versions, Owed>>
  BY <1>3, <1>4, <1>6 DEF Sets!Next, Sets!GiveUp
\* Something owed before: it is made.
<1>7. ASSUME req[r].pc = "patch", r \in fresh, Land(r)
      PROVE  [Sets!Next]_<<monitors, versions, Owed>>
  <2>1. /\ monitors' = Sets!MonitorsAfter(Update(r), monitors)
        /\ versions' = Sets!VersionsAfter(Update(r), versions)
    BY <1>7, LandIsUpdate
  <2>2. Owed[r] = Update(r) /\ Owed[r] # None
    BY <1>7 DEF OwedOK
  <2>3. QED
    BY <1>3, <2>1, <2>2 DEF Sets!Next, Sets!Make
<1>8. CASE Start(r) \/ Engine(r)
  <2>1. UNCHANGED <<monitors, versions>> /\ Owed[r] = None
    BY <1>8 DEF Start, Engine, OwedOK
  <2>2. QED
    BY <1>5, <2>1
<1>9. CASE Read(r) \/ Conflict(r)
  <2>1. UNCHANGED <<monitors, versions>> /\ Owed[r] # None /\ Owed[r] = Update(r)
    BY <1>9 DEF Read, Conflict, OwedOK
  <2>2. \/ req'[r].pc \in {"read", "patch"} /\ req'[r].what = req[r].what /\ req'[r].id = req[r].id
        \/ req'[r].pc = "error"
    BY <1>1, <1>2, <1>9 DEF Read, Conflict, Failed, IInv, TypeOK
  <2>3. Owed'[r] \in {Owed[r], None}
    BY <2>1, <2>2 DEF Owed, Update
  <2>4. QED
    BY <1>6, <2>1, <2>3
<1>10. CASE Patch(r)
  BY <1>7, <1>10 DEF Patch
<1>11. CASE RequestFails(r) \/ PatchFails(r)
  <2>1. req'[r].pc = "error"
    BY <1>11 DEF RequestFails, PatchFails, Failed, IInv, TypeOK
  <2>2. Owed'[r] = None
    BY <2>1 DEF OwedOK
  <2>3. \/ UNCHANGED <<monitors, versions>>
        \/ req[r].pc = "patch" /\ r \in fresh /\ Land(r)
    BY <1>11 DEF RequestFails, PatchFails
  <2>4. QED
    BY <1>5, <1>6, <1>7, <2>2, <2>3
<1>12. QED
  BY <1>8, <1>9, <1>10, <1>11 DEF Step

\* update_annotations: "Read-modify-write of a deployment's annotations that cannot
\* lose an update".  Every behaviour of the loop, retries, refusals and lost responses
\* included, is one of updates made in a single step or not at all.
THEOREM NoUpdateIsLost == Spec => NoUpdateLost
<1>1. Init => Sets!Init
  <2> SUFFICES ASSUME Init PROVE Sets!Init
    OBVIOUS
  <2>1. Owed = [r \in Requests |-> None]
    BY DEF Init, Idle, Owed
  <2>2. QED
    BY <2>1 DEF Init, Sets!Init
<1>2. IInv /\ OwedOK /\ OwedOK' /\ [Next]_vars => [Sets!Next]_<<monitors, versions, Owed>>
  <2> SUFFICES ASSUME IInv, OwedOK, OwedOK', [Next]_vars
               PROVE  [Sets!Next]_<<monitors, versions, Owed>>
    OBVIOUS
  <2>1. CASE OtherWrite \/ UNCHANGED vars
    BY <2>1 DEF OtherWrite, vars, Owed, Update
  <2>2. ASSUME NEW r \in Requests, Start(r) \/ Step(r)
        PROVE  [Sets!Next]_<<monitors, versions, Owed>>
    BY <2>2, StepIsUpdate
  <2>3. QED
    BY <2>1, <2>2 DEF Next
<1>3. QED
  BY <1>1, <1>2, OwedIs, Inductive, PTL DEF Spec, NoUpdateLost, Sets!Spec
-----------------------------------------------------------------------------
(* Retention.                                                                  *)

RetValues == Days \cup {None, Shipped}
RetStamps == [R!Policies -> Nat \cup {None}]
RetSources == {"default", "override", None}

RetPasses ==
  [kind : {None, "apply", "reset", "install", "save"},
   pc : {"idle", "carry", "manifest", "profile", "drop", "get", "create", "put", "settle",
         "record"},
   at : R!Policies \cup {None}, days : RetValues, force : BOOLEAN, stamps : RetStamps,
   seen : Nat \cup {None}, out : {None, "written", "kept", "customized"},
   purpose : R!Purposes \cup {None}, value : RetValues, source : RetSources]

RetDocs ==
  [seq : Nat, age : RetValues, says : RetValues, by : {"velox", "reset", "user"},
   hidden : BOOLEAN]

\* Versions are given out in turn.
Given(stamp) == stamp # None => stamp <= seqs

\* A pass past its reading of the CR.
Works(q) == q.pc \in {"get", "create", "put", "settle"}

\* A document a user wrote, which nobody takes for velox's.
Theirs(p) == live[p] # None /\ live[p].by = "user" /\ ~live[p].hidden
NotOurs(stamp, doc) == stamp # doc.seq /\ (doc.age = doc.says => stamp # None)

PassOK(q) ==
  /\ q \in RetPasses
  /\ Given(q.seen) /\ \A p \in R!Policies : Given(q.stamps[p])
  /\ q.pc # "idle" =>
       /\ q.kind \in {"apply", "reset", "install", "save"}
       /\ Works(q) => q.at \in R!Policies
       /\ q.pc \in {"carry", "manifest", "profile", "drop"} => q.kind = "save"
       /\ q.pc \in {"carry", "manifest"} => q.purpose \in R!Purposes
       /\ q.pc = "record" => q.kind \in {"apply", "reset"}
       /\ q.pc \in {"put", "settle"} => q.seen # None
       /\ q.pc = "settle" => q.out \in {"written", "kept"}
       /\ Works(q) => (q.force <=> q.kind = "reset")
       /\ q.kind \in {"apply", "reset"} => q.days \in Days
       /\ q.kind = "install" => q.at = "otel"
       /\ q.kind = "save" /\ Works(q) => q.at = "log"
  /\ \A p \in R!Policies : Theirs(p) =>
       /\ Works(q) => NotOurs(q.stamps[p], live[p])
       /\ q.pc = "put" /\ q.at = p /\ ~q.force => q.seen # live[p].seq
       /\ q.pc = "settle" /\ q.at = p => q.seen # live[p].seq

LiveOK ==
  /\ default \in Days /\ seqs \in Nat
  /\ live \in [R!Policies -> RetDocs \cup {None}]
  /\ \A p \in R!Policies : live[p] # None => live[p].seq <= seqs

CrOK ==
  /\ cr \in [purpose : R!Purposes, value : RetValues, source : RetSources, stamp : RetStamps]
  /\ \A p \in R!Policies : Given(cr.stamp[p])
  /\ \A p \in R!Policies : Theirs(p) => NotOurs(cr.stamp[p], live[p])

RetInv ==
  /\ R!RetentionAssumption
  /\ LiveOK /\ CrOK
  /\ retPass \in [Requests -> RetPasses]
  /\ \A r \in Requests : PassOK(retPass[r])

LEMMA IdleOK == RetInv => PassOK(R!Idle)
  BY
  DEF RetInv, R!RetentionAssumption, R!Idle, R!Policies, PassOK, RetPasses, RetValues, RetStamps,
      RetSources, Works, Given

LEMMA InitRetInv == R!RetentionAssumption /\ R!Init => RetInv
<1> SUFFICES ASSUME R!RetentionAssumption, R!Init PROVE RetInv
  OBVIOUS
<1>1. LiveOK /\ \A p \in R!Policies : ~Theirs(p)
  <2>1. live \in [R!Policies -> RetDocs \cup {None}]
    BY DEF R!Init, RetDocs, RetValues
  <2>2. \A p \in R!Policies : live[p] # None => live[p].seq = 1 /\ live[p].by = "velox"
    BY DEF R!Init
  <2>3. default \in Days /\ seqs = 1
    BY DEF R!Init
  <2>4. QED
    BY <2>1, <2>2, <2>3 DEF LiveOK, Theirs
<1>2. CrOK
  <2>1. cr \in [purpose : R!Purposes, value : RetValues, source : RetSources, stamp : RetStamps]
    BY DEF R!Init, R!Purposes, RetValues, RetStamps, RetSources
  <2>2. QED
    BY <1>1, <2>1 DEF R!Init, CrOK, Given
<1>3. R!Idle \in RetPasses /\ PassOK(R!Idle)
  BY <1>1
  DEF R!RetentionAssumption, R!Idle, PassOK, RetPasses, RetValues, RetStamps, RetSources, Works, Given
<1>4. retPass = [r \in Requests |-> R!Idle]
  BY DEF R!Init
<1>5. QED
  BY <1>1, <1>2, <1>3, <1>4 DEF RetInv

\* A pass moves on, and the policies stay.
LEMMA PassMoves ==
  ASSUME RetInv, NEW r \in Requests, NEW q, retPass' = [retPass EXCEPT ![r] = q], PassOK(q),
         UNCHANGED <<default, live, seqs>>, CrOK'
  PROVE  RetInv'
<1>1. PassOK(q)'
  BY DEF PassOK, Given, Theirs
<1>2. ASSUME NEW s \in Requests PROVE PassOK(retPass[s])'
  BY <1>1, <1>2 DEF RetInv, PassOK, Given, Theirs
<1>3. LiveOK'
  BY DEF RetInv, LiveOK
<1>4. retPass' \in [Requests -> RetPasses]
  BY DEF RetInv, PassOK
<1>5. QED
  BY <1>2, <1>3, <1>4 DEF RetInv

\* The CR keeps its stamps.
LEMMA CrStays ==
  ASSUME RetInv, UNCHANGED <<live, seqs>>, cr'.stamp = cr.stamp,
         cr' \in [purpose : R!Purposes, value : RetValues, source : RetSources, stamp : RetStamps]
  PROVE  CrOK'
  BY DEF RetInv, CrOK, Given, Theirs

LEMMA ReadsType ==
  ASSUME R!Idle \in RetPasses, NEW k \in {"apply", "reset", "install", "save"},
         NEW d \in RetValues, NEW f \in BOOLEAN, NEW a \in R!Policies, NEW s \in RetStamps
  PROVE  [R!Idle EXCEPT !.kind = k, !.pc = "get", !.days = d, !.force = f, !.at = a,
                        !.stamps = s] \in RetPasses
  BY ZenonT(30) DEF RetPasses

LEMMA SaveType ==
  ASSUME R!Idle \in RetPasses, NEW p \in R!Purposes, NEW d \in RetValues
  PROVE  [R!Idle EXCEPT !.kind = "save", !.pc = "carry", !.purpose = p, !.days = d] \in RetPasses
  BY ZenonT(30) DEF RetPasses

LEMMA ReadsRetInv ==
  ASSUME RetInv, UNCHANGED <<default, cr, live, seqs>>, NEW r \in Requests,
         NEW k \in {"apply", "reset", "install", "save"}, NEW d \in RetValues, NEW f \in BOOLEAN,
         k \in {"apply", "reset"} => d \in Days, f <=> k = "reset", R!Reads(r, k, d, f)
  PROVE  RetInv'
<1>1. PICK q : /\ q = [R!Idle EXCEPT !.kind = k, !.pc = "get", !.days = d, !.force = f,
                         !.at = IF k = "install" THEN "otel" ELSE "log", !.stamps = cr.stamp]
               /\ retPass' = [retPass EXCEPT ![r] = q]
  BY Zenon DEF R!Reads, R!Set
<1>2. R!Idle \in RetPasses /\ R!Idle.seen = None
  BY IdleOK DEF PassOK, R!Idle
<1>3. cr.stamp \in RetStamps /\ \A p \in R!Policies : Given(cr.stamp[p])
  BY DEF RetInv, CrOK
<1>4. (IF k = "install" THEN "otel" ELSE "log") \in R!Policies
  BY DEF R!Policies
<1>5. q \in RetPasses
  BY <1>1, <1>2, <1>3, <1>4, ReadsType, Zenon
<1>6. /\ q.kind = k /\ q.pc = "get" /\ q.days = d /\ q.force = f /\ q.stamps = cr.stamp
      /\ q.at = (IF k = "install" THEN "otel" ELSE "log") /\ q.seen = None
  BY <1>1, <1>2 DEF RetPasses
<1>7. PassOK(q)
  BY <1>3, <1>4, <1>5, <1>6 DEF RetInv, CrOK, PassOK, Works, Given
<1>8. CrOK'
  BY CrStays DEF RetInv, CrOK
<1>9. QED
  BY <1>1, <1>7, <1>8, PassMoves

LEMMA BeginsRetInv ==
  ASSUME RetInv, NEW r \in Requests, R!Begin(r) PROVE RetInv'
<1>2. CASE R!BeginApply(r)
  BY <1>2, ReadsRetInv DEF R!BeginApply, RetInv, LiveOK, RetValues
<1>3. CASE R!BeginReset(r)
  BY <1>3, ReadsRetInv DEF R!BeginReset, RetInv, LiveOK, RetValues
<1>4. CASE R!BeginInstall(r)
  <2>1. R!OtelDays(cr.value) \in RetValues
    BY DEF R!OtelDays, RetInv, LiveOK, CrOK, RetValues
  <2>2. QED
    BY <1>4, <2>1, ReadsRetInv DEF R!BeginInstall
<1>5. CASE R!BeginSave(r)
  <2>1. PICK p, q :
          /\ p \in R!Purposes
          /\ q = [R!Idle EXCEPT !.kind = "save", !.pc = "carry", !.purpose = p,
                    !.days = IF p = cr.purpose THEN None ELSE R!ForPurpose(p)]
          /\ retPass' = [retPass EXCEPT ![r] = q]
    BY <1>5, Zenon DEF R!BeginSave, R!Set
  <2>2. UNCHANGED <<default, cr, live, seqs>>
    BY <1>5 DEF R!BeginSave
  <2>3. R!Idle \in RetPasses /\ R!Idle.seen = None
        /\ R!Idle.stamps = [s \in R!Policies |-> None]
    BY IdleOK DEF PassOK, R!Idle
  <2>4. (IF p = cr.purpose THEN None ELSE R!ForPurpose(p)) \in RetValues
    BY <2>1 DEF RetInv, LiveOK, R!ForPurpose, RetValues
  <2>9. q \in RetPasses
    BY <2>1, <2>3, <2>4, SaveType, Zenon
  <2>5. /\ q \in RetPasses /\ q.kind = "save" /\ q.pc = "carry" /\ q.seen = None
        /\ q.purpose = p /\ q.stamps = [s \in R!Policies |-> None]
    BY <2>1, <2>3, <2>9 DEF RetPasses
  <2>6. PassOK(q)
    BY <2>1, <2>5 DEF PassOK, Works, Given
  <2>7. CrOK'
    BY <2>2, CrStays DEF RetInv, CrOK
  <2>8. QED
    BY <2>1, <2>2, <2>6, <2>7, PassMoves
<1>6. QED
  BY <1>2, <1>3, <1>4, <1>5 DEF R!Begin

RetPcs == {"idle", "carry", "manifest", "profile", "drop", "get", "create", "put", "settle",
           "record"}
RetOuts == {None, "written", "kept", "customized"}

Follows(x, q, at, pc, seen_, out) ==
  /\ x \in RetPasses
  /\ x.kind = q.kind /\ x.days = q.days /\ x.force = q.force /\ x.stamps = q.stamps
  /\ x.purpose = q.purpose
  /\ x.at = at /\ x.pc = pc /\ x.seen = seen_ /\ x.out = out

\* The updates of a pass.
LEMMA PcType ==
  ASSUME NEW q \in RetPasses, NEW pc \in RetPcs, NEW x, x = [q EXCEPT !.pc = pc]
  PROVE  Follows(x, q, q.at, pc, q.seen, q.out)
<1>1. [q EXCEPT !.pc = pc] \in RetPasses
  BY ZenonT(30) DEF RetPasses, RetPcs
<1>2. QED
  BY <1>1 DEF RetPasses, Follows

LEMMA AtType ==
  ASSUME NEW q \in RetPasses, NEW pc \in RetPcs, NEW a \in R!Policies, NEW o \in RetOuts,
         NEW x, x = [q EXCEPT !.at = a, !.pc = pc, !.out = o]
  PROVE  Follows(x, q, a, pc, q.seen, o)
<1>1. [q EXCEPT !.at = a, !.pc = pc, !.out = o] \in RetPasses
  BY ZenonT(30) DEF RetPasses, RetPcs, RetOuts
<1>2. QED
  BY <1>1 DEF RetPasses, Follows

LEMMA SeenType ==
  ASSUME NEW q \in RetPasses, NEW pc \in RetPcs, NEW n \in Nat \cup {None},
         NEW x, x = [q EXCEPT !.pc = pc, !.seen = n]
  PROVE  Follows(x, q, q.at, pc, n, q.out)
<1>1. [q EXCEPT !.pc = pc, !.seen = n] \in RetPasses
  BY ZenonT(30) DEF RetPasses, RetPcs
<1>2. QED
  BY <1>1 DEF RetPasses, Follows

LEMMA OutType ==
  ASSUME NEW q \in RetPasses, NEW pc \in RetPcs, NEW n \in Nat \cup {None}, NEW o \in RetOuts,
         NEW x, x = [q EXCEPT !.pc = pc, !.seen = n, !.out = o]
  PROVE  Follows(x, q, q.at, pc, n, o)
<1>1. [q EXCEPT !.pc = pc, !.seen = n, !.out = o] \in RetPasses
  BY ZenonT(30) DEF RetPasses, RetPcs, RetOuts
<1>2. QED
  BY <1>1 DEF RetPasses, Follows

LEMMA ValueType ==
  ASSUME NEW q \in RetPasses, NEW pc \in RetPcs, NEW v \in RetValues, NEW s \in RetSources,
         NEW x, x = [q EXCEPT !.pc = pc, !.value = v, !.source = s]
  PROVE  Follows(x, q, q.at, pc, q.seen, q.out)
<1>1. [q EXCEPT !.pc = pc, !.value = v, !.source = s] \in RetPasses
  BY ZenonT(30) DEF RetPasses, RetPcs
<1>2. QED
  BY <1>1 DEF RetPasses, Follows

\* A pass may go on so.
MayFollow(q, at, pc, n, out) ==
  /\ q.pc # "idle" /\ pc # "idle"
  /\ pc \in {"get", "create", "put", "settle"} => Works(q) /\ at \in R!Policies
  /\ pc \in {"carry", "manifest", "profile", "drop"} => q.kind = "save"
  /\ pc \in {"carry", "manifest"} => q.purpose \in R!Purposes
  /\ pc = "record" => q.kind \in {"apply", "reset"}
  /\ pc \in {"put", "settle"} => n # None
  /\ pc = "settle" => out \in {"written", "kept"}
  /\ Given(n)
  /\ at = q.at \/ q.kind \in {"apply", "reset"}
  /\ \A p \in R!Policies : Theirs(p) /\ at = p =>
       /\ pc = "put" /\ ~q.force => n # live[p].seq
       /\ pc = "settle" => n # live[p].seq

\* A pass takes a step that leaves the policies.
LEMMA FollowsRetInv ==
  ASSUME RetInv, NEW r \in Requests, NEW x, NEW at, NEW pc, NEW n, NEW out,
         Follows(x, retPass[r], at, pc, n, out), retPass' = [retPass EXCEPT ![r] = x],
         default' = default, live' = live, seqs' = seqs, CrOK',
         MayFollow(retPass[r], at, pc, n, out)
  PROVE  RetInv'
<1>1. PassOK(retPass[r])
  BY DEF RetInv
<1>2. x.pc = pc /\ x \in RetPasses
  BY DEF Follows
<1>3. PassOK(x)
  BY <1>1, <1>2 DEF Follows, MayFollow, PassOK, Works
<1>4. QED
  BY <1>3, PassMoves

LEMMA OverRetInv ==
  ASSUME RetInv, NEW r \in Requests, R!Over(r), UNCHANGED <<default, live, seqs>>, CrOK'
  PROVE  RetInv'
  BY IdleOK, PassMoves DEF R!Over, R!Set

LEMMA AfterRetInv ==
  ASSUME RetInv, NEW r \in Requests, Works(retPass[r]),
         NEW out \in {"written", "kept", "customized", "error"}, R!After(r, out),
         default' = default, live' = live, seqs' = seqs, CrOK'
  PROVE  RetInv'
<1> DEFINE me == retPass[r]
<1>1. PassOK(me) /\ me \in RetPasses /\ me.pc # "idle"
  BY DEF RetInv, PassOK, Works
<1>2. /\ me.kind \in {"apply", "reset", "install", "save"} /\ me.at \in R!Policies
      /\ me.seen \in Nat \cup {None} /\ me.out \in RetOuts /\ Given(me.seen)
      /\ me.value \in RetValues /\ me.source \in RetSources
  BY <1>1 DEF PassOK, RetPasses, RetOuts
<1>3. CASE R!Over(r)
  BY <1>3, OverRetInv
<1>4. CASE R!Set(r, [me EXCEPT !.pc = "profile"]) /\ me.kind = "save"
  <2>1. PICK x : x = [me EXCEPT !.pc = "profile"] /\ retPass' = [retPass EXCEPT ![r] = x]
    BY <1>4, Zenon DEF R!Set
  <2>2. Follows(x, me, me.at, "profile", me.seen, me.out)
    <3>1. "profile" \in RetPcs
      BY DEF RetPcs
    <3>2. QED
      BY <1>1, <2>1, <3>1, PcType, Zenon
  <2>3. MayFollow(me, me.at, "profile", me.seen, me.out)
    BY <1>1, <1>2, <1>4 DEF MayFollow, Works, R!Policies
  <2>4. QED
    BY <2>1, <2>2, <2>3, FollowsRetInv, Zenon
<1>5. CASE /\ R!Set(r, [me EXCEPT !.at = "otel", !.pc = "get", !.out = out])
           /\ me.kind \in {"apply", "reset"} /\ out # "error"
  <2>1. PICK x : /\ x = [me EXCEPT !.at = "otel", !.pc = "get", !.out = out]
                 /\ retPass' = [retPass EXCEPT ![r] = x]
    BY <1>5, Zenon DEF R!Set
  <2>2. Follows(x, me, "otel", "get", me.seen, out)
    <3>1. "get" \in RetPcs /\ out \in RetOuts /\ "otel" \in R!Policies
      BY <1>5 DEF RetPcs, RetOuts, R!Policies
    <3>2. QED
      BY <1>1, <2>1, <3>1, AtType, Zenon
  <2>3. MayFollow(me, "otel", "get", me.seen, out)
    BY <1>1, <1>2, <1>5 DEF MayFollow, Works, R!Policies
  <2>4. QED
    BY <2>1, <2>2, <2>3, FollowsRetInv, Zenon
<1>6. CASE R!Set(r, [me EXCEPT !.pc = "record"]) /\ me.kind \in {"apply", "reset"}
  <2>1. PICK x : x = [me EXCEPT !.pc = "record"] /\ retPass' = [retPass EXCEPT ![r] = x]
    BY <1>6, Zenon DEF R!Set
  <2>2. Follows(x, me, me.at, "record", me.seen, me.out)
    <3>1. "record" \in RetPcs
      BY DEF RetPcs
    <3>2. QED
      BY <1>1, <2>1, <3>1, PcType, Zenon
  <2>3. MayFollow(me, me.at, "record", me.seen, me.out)
    BY <1>1, <1>2, <1>6 DEF MayFollow, Works, R!Policies
  <2>4. QED
    BY <2>1, <2>2, <2>3, FollowsRetInv, Zenon
<1>7. \/ R!Over(r)
      \/ R!Set(r, [me EXCEPT !.pc = "profile"]) /\ me.kind = "save"
      \/ /\ R!Set(r, [me EXCEPT !.at = "otel", !.pc = "get", !.out = out])
         /\ me.kind \in {"apply", "reset"} /\ out # "error"
      \/ R!Set(r, [me EXCEPT !.pc = "record"]) /\ me.kind \in {"apply", "reset"}
  BY Zenon DEF R!After
<1>8. QED
  BY <1>3, <1>4, <1>5, <1>6, <1>7

LEMMA RequestOK ==
  ASSUME RetInv, NEW r \in Requests, retPass[r].pc # "idle"
  PROVE  /\ PassOK(retPass[r]) /\ retPass[r] \in RetPasses
         /\ retPass[r].kind \in {"apply", "reset", "install", "save"}
         /\ retPass[r].at \in R!Policies \cup {None}
         /\ retPass[r].seen \in Nat \cup {None} /\ retPass[r].out \in RetOuts
         /\ Given(retPass[r].seen)
         /\ retPass[r].value \in RetValues /\ retPass[r].source \in RetSources
         /\ retPass[r].days \in RetValues /\ retPass[r].purpose \in R!Purposes \cup {None}
  BY DEF RetInv, PassOK, RetPasses, RetOuts

LEMMA CarryRetInv == ASSUME RetInv, NEW r \in Requests, R!Carry(r) PROVE RetInv'
<1> DEFINE me == retPass[r]
<1>1. me.pc = "carry"
  BY DEF R!Carry
<1>2. /\ PassOK(me) /\ me \in RetPasses /\ me.kind = "save" /\ Given(me.seen)
      /\ me.purpose \in R!Purposes
  BY <1>1, RequestOK DEF PassOK
<1>3. cr.value \in RetValues /\ cr.source \in RetSources
  BY DEF RetInv, CrOK
<1>4. PICK x : /\ x = [me EXCEPT !.pc = "manifest", !.value = cr.value, !.source = cr.source]
               /\ retPass' = [retPass EXCEPT ![r] = x]
  BY Zenon DEF R!Carry, R!Set
<1>5. "manifest" \in RetPcs
  BY DEF RetPcs
<1>6. Follows(x, me, me.at, "manifest", me.seen, me.out)
  BY <1>2, <1>3, <1>4, <1>5, ValueType, Zenon
<1>7. MayFollow(me, me.at, "manifest", me.seen, me.out)
  BY <1>1, <1>2 DEF MayFollow
<1>8. default' = default /\ live' = live /\ seqs' = seqs /\ cr' = cr
  BY DEF R!Carry
<1>9. CrOK'
  BY <1>8, CrStays DEF RetInv, CrOK
<1>10. QED
  BY <1>4, <1>6, <1>7, <1>8, <1>9, FollowsRetInv, Zenon

LEMMA ManifestRetInv == ASSUME RetInv, NEW r \in Requests, R!Manifest(r) PROVE RetInv'
<1> DEFINE me == retPass[r]
<1>1. me.pc = "manifest"
  BY DEF R!Manifest
<1>2. /\ PassOK(me) /\ me \in RetPasses /\ me.kind = "save" /\ Given(me.seen)
      /\ me.value \in RetValues /\ me.source \in RetSources /\ me.days \in RetValues
  BY <1>1, RequestOK DEF PassOK
<1>4. PICK x : x = [me EXCEPT !.pc = "profile"] /\ retPass' = [retPass EXCEPT ![r] = x]
  BY Zenon DEF R!Manifest, R!Set
<1>5. "profile" \in RetPcs
  BY DEF RetPcs
<1>6. Follows(x, me, me.at, "profile", me.seen, me.out)
  BY <1>2, <1>4, <1>5, PcType, Zenon
<1>7. MayFollow(me, me.at, "profile", me.seen, me.out)
  BY <1>1, <1>2 DEF MayFollow
<1>8. default' = default /\ live' = live /\ seqs' = seqs
  BY DEF R!Manifest
<1>9. CrOK'
  <2>1. cr' = [cr EXCEPT !.purpose = me.purpose,
                 !.value = IF me.days = None THEN me.value ELSE me.days,
                 !.source = IF me.days = None THEN me.source ELSE "default"]
    BY Zenon DEF R!Manifest
  <2>2. cr \in [purpose : R!Purposes, value : RetValues, source : RetSources, stamp : RetStamps]
    BY DEF RetInv, CrOK
  <2>3. me.purpose \in R!Purposes
    BY <1>1, <1>2 DEF PassOK
  <2>4. (IF me.days = None THEN me.value ELSE me.days) \in RetValues
        /\ (IF me.days = None THEN me.source ELSE "default") \in RetSources
    BY <1>2 DEF RetSources
  <2>5. QED
    BY <1>8, <2>1, <2>2, <2>3, <2>4, CrStays
<1>10. QED
  BY <1>4, <1>6, <1>7, <1>8, <1>9, FollowsRetInv, Zenon

LEMMA ProfileRetInv == ASSUME RetInv, NEW r \in Requests, R!Profile(r) PROVE RetInv'
<1> DEFINE me == retPass[r]
<1>1. me.pc = "profile"
  BY DEF R!Profile
<1>2. /\ PassOK(me) /\ me \in RetPasses /\ me.kind = "save" /\ Given(me.seen)
  BY <1>1, RequestOK DEF PassOK
<1>8. default' = default /\ live' = live /\ seqs' = seqs /\ cr' = cr
  BY DEF R!Profile
<1>9. CrOK'
  BY <1>8, CrStays DEF RetInv, CrOK
<1>3. CASE R!Set(r, [me EXCEPT !.pc = "drop"])
  <2>1. PICK x : x = [me EXCEPT !.pc = "drop"] /\ retPass' = [retPass EXCEPT ![r] = x]
    BY <1>3, Zenon DEF R!Set
  <2>2. "drop" \in RetPcs
    BY DEF RetPcs
  <2>3. Follows(x, me, me.at, "drop", me.seen, me.out)
    BY <1>2, <2>1, <2>2, PcType, Zenon
  <2>4. MayFollow(me, me.at, "drop", me.seen, me.out)
    BY <1>1, <1>2 DEF MayFollow
  <2>5. QED
    BY <1>8, <1>9, <2>1, <2>3, <2>4, FollowsRetInv, Zenon
<1>4. CASE R!Reads(r, "save", R!Effective(cr.value), FALSE)
  <2>1. R!Effective(cr.value) \in RetValues
    BY DEF RetInv, CrOK, R!Effective, RetValues
  <2>2. QED
    BY <1>4, <1>8, <2>1, ReadsRetInv
<1>5. QED
  BY <1>3, <1>4 DEF R!Profile

LEMMA DropRetInv == ASSUME RetInv, NEW r \in Requests, R!Drop(r) PROVE RetInv'
<1>1. /\ live' = [live EXCEPT !["log"] = None] /\ R!Over(r)
      /\ default' = default /\ cr' = cr /\ seqs' = seqs
  BY DEF R!Drop
<1>2. \A p \in R!Policies : live'[p] = live[p] \/ live'[p] = None
  BY <1>1 DEF RetInv, LiveOK
<1>3. LiveOK'
  BY <1>1, <1>2 DEF RetInv, LiveOK, R!Policies
<1>4. \A p \in R!Policies : Theirs(p)' => Theirs(p) /\ live'[p] = live[p]
  BY <1>2 DEF Theirs
<1>5. CrOK'
  BY <1>1, <1>4 DEF RetInv, CrOK, Given
<1>6. \A q \in RetPasses : PassOK(q) => PassOK(q)'
  BY <1>1, <1>4 DEF PassOK, Given
<1>7. PassOK(R!Idle) /\ retPass' = [retPass EXCEPT ![r] = R!Idle]
  BY <1>1, IdleOK DEF R!Over, R!Set
<1>8. QED
  BY <1>3, <1>5, <1>6, <1>7 DEF RetInv, PassOK

LEMMA GetRetInv == ASSUME RetInv, NEW r \in Requests, R!Get(r) PROVE RetInv'
<1> DEFINE me == retPass[r]
           doc == live[me.at]
<1>1. me.pc = "get" /\ Works(me)
  BY DEF R!Get, Works
<1>2. /\ PassOK(me) /\ me \in RetPasses /\ Given(me.seen) /\ me.at \in R!Policies
      /\ me.force \in BOOLEAN /\ me.stamps \in RetStamps /\ me.seen \in Nat \cup {None}
      /\ me.out \in RetOuts
  BY <1>1, RequestOK DEF PassOK, RetPasses
<1>8. default' = default /\ live' = live /\ seqs' = seqs /\ cr' = cr
  BY DEF R!Get
<1>9. CrOK'
  BY <1>8, CrStays DEF RetInv, CrOK
<1>3. doc = None \/ (doc \in RetDocs /\ doc.seq \in Nat /\ doc.seq # None /\ Given(doc.seq))
  BY <1>2 DEF RetInv, LiveOK, RetDocs, R!RetentionAssumption, Given
<1>4. CASE doc = None /\ R!Set(r, [me EXCEPT !.pc = "create"])
  <2>1. PICK x : x = [me EXCEPT !.pc = "create"] /\ retPass' = [retPass EXCEPT ![r] = x]
    BY <1>4, Zenon DEF R!Set
  <2>2. "create" \in RetPcs
    BY DEF RetPcs
  <2>3. Follows(x, me, me.at, "create", me.seen, me.out)
    BY <1>2, <2>1, <2>2, PcType, Zenon
  <2>4. MayFollow(me, me.at, "create", me.seen, me.out)
    BY <1>1, <1>2 DEF MayFollow
  <2>5. QED
    BY <1>8, <1>9, <2>1, <2>3, <2>4, FollowsRetInv, Zenon
<1>5. CASE R!After(r, "customized")
  BY <1>1, <1>5, <1>8, <1>9, AfterRetInv
<1>6. CASE /\ doc # None /\ ~me.force /\ ~R!Customized(doc, me.stamps[me.at])
           /\ R!Set(r, [me EXCEPT !.pc = "settle", !.seen = doc.seq, !.out = "kept"])
  <2>1. PICK x : /\ x = [me EXCEPT !.pc = "settle", !.seen = doc.seq, !.out = "kept"]
                 /\ retPass' = [retPass EXCEPT ![r] = x]
    BY <1>6, Zenon DEF R!Set
  <2>2. "settle" \in RetPcs /\ "kept" \in RetOuts /\ doc.seq \in Nat \cup {None}
    BY <1>3, <1>6 DEF RetPcs, RetOuts
  <2>3. Follows(x, me, me.at, "settle", doc.seq, "kept")
    BY <1>2, <2>1, <2>2, OutType, Zenon
  <2>4. ~Theirs(me.at)
    BY <1>1, <1>2, <1>6 DEF PassOK, NotOurs, R!Customized, Theirs
  <2>5. MayFollow(me, me.at, "settle", doc.seq, "kept")
    BY <1>1, <1>2, <1>3, <1>6, <2>4 DEF MayFollow
  <2>6. QED
    BY <1>8, <1>9, <2>1, <2>3, <2>5, FollowsRetInv, Zenon
<1>7. CASE /\ doc # None /\ (me.force \/ ~R!Customized(doc, me.stamps[me.at]))
           /\ R!Set(r, [me EXCEPT !.pc = "put", !.seen = doc.seq])
  <2>1. PICK x : /\ x = [me EXCEPT !.pc = "put", !.seen = doc.seq]
                 /\ retPass' = [retPass EXCEPT ![r] = x]
    BY <1>7, Zenon DEF R!Set
  <2>2. "put" \in RetPcs /\ doc.seq \in Nat \cup {None}
    BY <1>3, <1>7 DEF RetPcs
  <2>3. Follows(x, me, me.at, "put", doc.seq, me.out)
    BY <1>2, <2>1, <2>2, SeenType, Zenon
  <2>4. ~me.force => ~Theirs(me.at)
    BY <1>1, <1>2, <1>7 DEF PassOK, NotOurs, R!Customized, Theirs
  <2>5. MayFollow(me, me.at, "put", doc.seq, me.out)
    BY <1>1, <1>2, <1>3, <1>7, <2>4 DEF MayFollow
  <2>6. QED
    BY <1>8, <1>9, <2>1, <2>3, <2>5, FollowsRetInv, Zenon
<1>10. QED
  BY <1>4, <1>5, <1>6, <1>7, Zenon DEF R!Get

LEMMA PutRetInv == ASSUME RetInv, NEW r \in Requests, R!Put(r) PROVE RetInv'
<1>0. PICK me, n : me \in RetPasses /\ me = retPass[r] /\ n = seqs + 1
  BY DEF RetInv
<1> DEFINE doc == [seq |-> n, age |-> me.days, says |-> me.days,
                   by |-> IF me.force THEN "reset" ELSE "velox", hidden |-> FALSE]
<1>1. me.pc \in {"create", "put"} /\ Works(me)
  BY <1>0 DEF R!Put, Works
<1>2. /\ PassOK(me) /\ me \in RetPasses /\ me.at \in R!Policies /\ me.days \in RetValues
      /\ me.kind \in {"apply", "reset", "install", "save"}
  BY <1>0, <1>1, RequestOK DEF PassOK, RetPasses
<1>3. /\ default' = default /\ cr' = cr /\ seqs' = n /\ n = seqs + 1 /\ seqs \in Nat
      /\ live' = [live EXCEPT ![me.at] = doc]
  BY <1>0 DEF R!Put, RetInv, LiveOK
<1>4. doc \in RetDocs
  BY <1>2, <1>3 DEF RetDocs
<1>5. live'[me.at] = doc /\ \A p \in R!Policies : p # me.at => live'[p] = live[p]
  BY <1>2, <1>3 DEF RetInv, LiveOK
<1>6. LiveOK'
  BY <1>2, <1>3, <1>4, <1>5 DEF RetInv, LiveOK, RetDocs
<1>7. \A p \in R!Policies : Theirs(p)' => Theirs(p) /\ live'[p] = live[p]
  BY <1>5 DEF Theirs
<1>8. \A v : Given(v) /\ v \in Nat \cup {None} => Given(v)'
  BY <1>3 DEF Given, RetInv, R!RetentionAssumption
<1>9. CrOK'
  BY <1>3, <1>7, <1>8 DEF RetInv, CrOK, RetStamps
<1>10. \A q \in RetPasses : PassOK(q) => PassOK(q)'
  BY <1>7, <1>8 DEF PassOK, RetPasses, RetStamps
<1>11. PICK x : /\ x = [me EXCEPT !.pc = "settle", !.seen = n, !.out = "written"]
                /\ retPass' = [retPass EXCEPT ![r] = x]
  BY <1>0, <1>3, Zenon DEF R!Put, R!Set
<1>12. "settle" \in RetPcs /\ "written" \in RetOuts /\ n \in Nat \cup {None}
       /\ n \in Nat /\ n # None
  BY <1>3 DEF RetPcs, RetOuts, RetInv, R!RetentionAssumption
<1>13. Follows(x, me, me.at, "settle", n, "written")
  BY <1>2, <1>11, <1>12, OutType, Zenon
<1>14. ~Theirs(me.at)' /\ Given(n)'
  BY <1>3, <1>5 DEF Theirs, Given
<1>15. PassOK(me)' /\ me.pc # "idle" /\ Works(me)
  BY <1>1, <1>2, <1>10 DEF Works
<1>16. PassOK(x)'
  BY <1>2, <1>12, <1>13, <1>14, <1>15 DEF Follows, PassOK, Works
<1>17. QED
  BY <1>6, <1>9, <1>10, <1>11, <1>16 DEF RetInv, PassOK

LEMMA RefusedRetInv == ASSUME RetInv, NEW r \in Requests, R!Refused(r) PROVE RetInv'
<1>1. Works(retPass[r]) /\ R!After(r, "error")
  BY DEF R!Refused, Works
<1>2. default' = default /\ live' = live /\ seqs' = seqs /\ cr' = cr
  BY DEF R!Refused
<1>3. CrOK'
  BY <1>2, CrStays DEF RetInv, CrOK
<1>4. QED
  BY <1>1, <1>2, <1>3, AfterRetInv

\* The stamp of the pass's own version goes on the CR.
LEMMA StampsCr ==
  ASSUME RetInv, NEW r \in Requests, retPass[r].pc = "settle",
         default' = default, live' = live, seqs' = seqs,
         cr' = [cr EXCEPT !.stamp[retPass[r].at] = retPass[r].seen]
  PROVE  CrOK'
<1> DEFINE me == retPass[r]
<1>1. /\ PassOK(me) /\ me.at \in R!Policies /\ me.seen \in Nat /\ Given(me.seen)
      /\ Theirs(me.at) => me.seen # live[me.at].seq
  BY RequestOK DEF PassOK, Works
<1>2. /\ cr \in [purpose : R!Purposes, value : RetValues, source : RetSources,
                 stamp : RetStamps]
  BY DEF RetInv, CrOK
<1>3. cr'.stamp = [cr.stamp EXCEPT ![me.at] = me.seen]
  BY <1>2
<1>4. cr'.stamp \in RetStamps
  BY <1>1, <1>2, <1>3 DEF RetStamps
<1>5. cr' \in [purpose : R!Purposes, value : RetValues, source : RetSources,
               stamp : RetStamps]
  BY <1>2, <1>3, <1>4
<1>6. \A p \in R!Policies : cr'.stamp[p] = IF p = me.at THEN me.seen ELSE cr.stamp[p]
  BY <1>1, <1>2, <1>3 DEF RetStamps
<1>7. me.seen # None
  BY <1>1 DEF RetInv, R!RetentionAssumption
<1>8. QED
  BY <1>1, <1>5, <1>6, <1>7 DEF RetInv, CrOK, Given, Theirs, NotOurs

LEMMA SettleRetInv ==
  ASSUME RetInv, NEW r \in Requests, R!Settle(r) \/ R!SettleFails(r) PROVE RetInv'
<1>1. /\ retPass[r].pc = "settle" /\ Works(retPass[r])
      /\ default' = default /\ live' = live /\ seqs' = seqs
      /\ R!After(r, retPass[r].out)
      /\ cr' = cr \/ cr' = [cr EXCEPT !.stamp[retPass[r].at] = retPass[r].seen]
  BY DEF R!Settle, R!SettleFails, Works
<1>2. retPass[r].out \in {"written", "kept"}
  BY <1>1, RequestOK DEF PassOK
<1>3. CrOK'
  <2>1. CASE cr' = cr
    BY <1>1, <2>1, CrStays DEF RetInv, CrOK
  <2>2. CASE cr' = [cr EXCEPT !.stamp[retPass[r].at] = retPass[r].seen]
    BY <1>1, <2>2, StampsCr
  <2>3. QED
    BY <1>1, <2>1, <2>2
<1>4. QED
  BY <1>1, <1>2, <1>3, AfterRetInv

LEMMA EndsRetInv ==
  ASSUME RetInv, NEW r \in Requests, R!Record(r) \/ R!Ends(r) \/ R!DropFails(r) PROVE RetInv'
<1>1. default' = default /\ live' = live /\ seqs' = seqs /\ R!Over(r)
  BY DEF R!Record, R!Ends, R!DropFails
<1>2. CASE cr' = cr
  BY <1>1, <1>2, CrStays, OverRetInv DEF RetInv, CrOK
<1>3. CASE R!Record(r)
  <2>1. retPass[r].days \in RetValues /\ retPass[r].pc = "record"
    BY <1>3, RequestOK DEF R!Record
  <2>2. cr' = [cr EXCEPT !.value = retPass[r].days, !.source = "default"]
    BY <1>3 DEF R!Record
  <2>3. CrOK'
    BY <1>1, <2>1, <2>2, CrStays DEF RetInv, CrOK, RetSources
  <2>4. QED
    BY <1>1, <2>3, OverRetInv
<1>4. QED
  BY <1>2, <1>3 DEF R!Ends, R!DropFails

LEMMA SetDefaultRetInv == ASSUME RetInv, R!SetDefault PROVE RetInv'
<1>1. default' \in Days /\ UNCHANGED <<cr, live, seqs, retPass>>
  BY DEF R!SetDefault
<1>2. LiveOK'
  BY <1>1 DEF RetInv, LiveOK
<1>3. CrOK'
  BY <1>1 DEF RetInv, CrOK, Given, Theirs
<1>4. QED
  BY <1>1, <1>2, <1>3 DEF RetInv, PassOK, Given, Theirs

LEMMA UserEditRetInv == ASSUME RetInv, R!UserEdit PROVE RetInv'
<1>1. PICK p \in R!Policies, age \in Days, says \in Days :
        /\ live[p] # None /\ says \in {live[p].says, age}
        /\ live' = [live EXCEPT ![p] =
             [seq |-> seqs + 1, age |-> age, says |-> says, by |-> "user",
              hidden |-> R!Unstamped(p) /\ age = says]]
  BY DEF R!UserEdit
<1>2. seqs' = seqs + 1 /\ default' = default /\ cr' = cr /\ retPass' = retPass /\ seqs \in Nat
  BY DEF R!UserEdit, RetInv, LiveOK
<1>0. PICK h \in BOOLEAN : h = (R!Unstamped(p) /\ age = says)
  BY Zenon DEF R!Unstamped
<1>11. (age = says /\ ~h) => ~R!Unstamped(p)
  BY <1>0, Zenon
<1> DEFINE doc == [seq |-> seqs + 1, age |-> age, says |-> says, by |-> "user", hidden |-> h]
<1>3. doc \in RetDocs /\ doc.seq = seqs + 1
  BY <1>2 DEF RetDocs, RetValues
<1>12. live' = [live EXCEPT ![p] = doc]
  BY <1>0, <1>1, Zenon
<1>4. live'[p] = doc /\ \A q \in R!Policies : q # p => live'[q] = live[q]
  BY <1>12 DEF RetInv, LiveOK
<1>5. LiveOK'
  BY <1>1, <1>2, <1>3, <1>4 DEF RetInv, LiveOK, RetDocs
<1>6. \A v \in Nat \cup {None} : Given(v) => Given(v)' /\ (v # None => v # seqs + 1)
                                          /\ v # seqs + 1
  BY <1>2 DEF Given, RetInv, R!RetentionAssumption
<1>7. Theirs(p)' /\ age = says => ~R!Unstamped(p)
  BY <1>4, <1>11 DEF Theirs
<1>8. CrOK'
  <2>1. Theirs(p)' => NotOurs(cr.stamp[p], doc)
    BY <1>3, <1>6, <1>7 DEF RetInv, CrOK, NotOurs, R!Unstamped, RetStamps
  <2>2. \A q \in R!Policies : q # p /\ Theirs(q)' => Theirs(q) /\ live'[q] = live[q]
    BY <1>4 DEF Theirs
  <2>3. QED
    BY <1>2, <1>4, <1>6, <2>1, <2>2 DEF RetInv, CrOK, RetStamps
<1>9. ASSUME NEW r \in Requests PROVE PassOK(retPass[r])'
  <2> DEFINE me == retPass[r]
  <2>1. PassOK(me) /\ me \in RetPasses /\ (\A q \in R!Policies : Given(me.stamps[q])) /\ me.stamps \in RetStamps /\ me.seen \in Nat \cup {None}
        /\ Given(me.seen)
    BY DEF RetInv, PassOK, RetPasses
  <2>2. \A q \in R!Policies : q # p /\ Theirs(q)' => Theirs(q) /\ live'[q] = live[q]
    BY <1>4 DEF Theirs
  <2>3. Theirs(p)' /\ Works(me) => NotOurs(me.stamps[p], doc)
    <3>1. Works(me) => r \in R!Active
      BY DEF R!Active, Works
    <3>2. QED
      BY <1>3, <1>6, <1>7, <2>1, <3>1 DEF NotOurs, R!Unstamped, RetStamps, Works
  <2>4. me.seen # doc.seq
    BY <1>3, <1>6, <2>1 DEF PassOK
  <2>5. Given(me.seen)' /\ \A q \in R!Policies : Given(me.stamps[q])'
    <3>1. \A q \in R!Policies : me.stamps[q] \in Nat \cup {None}
      BY <2>1 DEF RetStamps
    <3>2. retPass' = retPass /\ (\A v \in Nat \cup {None} : Given(v) => v = None \/ v <= seqs')
      BY <1>2, <1>6 DEF Given
    <3>3. QED
      BY <1>2, <2>1, <3>1, <3>2 DEF Given
  <2>6. QED
    BY <1>2, <1>3, <1>4, <2>1, <2>2, <2>3, <2>4, <2>5 DEF PassOK, Works
<1>10. QED
  BY <1>2, <1>5, <1>8, <1>9 DEF RetInv

LEMMA StepsRetInv == RetInv /\ R!Next => RetInv'
<1> SUFFICES ASSUME RetInv, R!Next PROVE RetInv'
  OBVIOUS
<1>1. ASSUME NEW r \in Requests, R!Begin(r) \/ R!Steps(r) \/ R!Fails(r) PROVE RetInv'
  BY <1>1, BeginsRetInv, CarryRetInv, ManifestRetInv, ProfileRetInv, DropRetInv, GetRetInv,
     PutRetInv, RefusedRetInv, SettleRetInv, EndsRetInv, Zenon
  DEF R!Steps, R!Fails
<1>2. QED
  BY <1>1, SetDefaultRetInv, UserEditRetInv, Zenon DEF R!Next

\* A step of the passes writes no policy of a user's by itself.
LEMMA StepKeepsEdits ==
  ASSUME RetInv, R!Next \/ UNCHANGED live PROVE R!KeepsEdits
<1> SUFFICES ASSUME NEW p \in R!Policies, Theirs(p), live'[p] # None, live'[p].by = "velox"
             PROVE  FALSE
  BY DEF R!KeepsEdits, Theirs
<1>1. ~UNCHANGED live
  BY DEF Theirs
<1>2. ASSUME NEW r \in Requests, R!Put(r) PROVE FALSE
  <2>1. /\ Works(retPass[r]) /\ retPass[r].pc \in {"create", "put"} /\ R!Fresh(r)
        /\ live' = [live EXCEPT ![retPass[r].at] =
             [seq |-> seqs', age |-> retPass[r].days, says |-> retPass[r].days,
              by |-> IF retPass[r].force THEN "reset" ELSE "velox", hidden |-> FALSE]]
    BY <1>2 DEF R!Put, Works
  <2>2. PassOK(retPass[r]) /\ retPass[r].at \in R!Policies
    BY <2>1, RequestOK DEF PassOK, Works
  <2>3. retPass[r].at = p /\ ~retPass[r].force
    BY <2>1 DEF Theirs, RetInv, LiveOK
  <2>4. QED
    BY <2>1, <2>2, <2>3 DEF PassOK, R!Fresh, Theirs
<1>3. ASSUME NEW r \in Requests, R!Drop(r) PROVE FALSE
  BY <1>3 DEF R!Drop, RetInv, LiveOK, Theirs
<1>4. ASSUME R!UserEdit PROVE FALSE
  <2>1. PICK q \in R!Policies, age \in Days, says \in Days :
          live' = [live EXCEPT ![q] = [seq |-> seqs + 1, age |-> age, says |-> says,
                     by |-> "user", hidden |-> R!Unstamped(q) /\ age = says]]
    BY <1>4 DEF R!UserEdit
  <2>2. PICK h : h = (R!Unstamped(q) /\ age = says)
    OBVIOUS
  <2>3. live' = [live EXCEPT ![q] = [seq |-> seqs + 1, age |-> age, says |-> says,
                                     by |-> "user", hidden |-> h]]
    BY <2>1, <2>2, Zenon
  <2>4. QED
    BY <2>3 DEF RetInv, LiveOK, Theirs
<1>5. ASSUME NEW r \in Requests, R!Begin(r) PROVE FALSE
  <2>1. live' = live
    BY <1>5, Zenon DEF R!Begin, R!BeginApply, R!BeginReset, R!BeginInstall, R!BeginSave
  <2>2. QED
    BY <1>1, <2>1
<1>6. ASSUME NEW r \in Requests, R!Steps(r) \/ R!Fails(r) PROVE FALSE
  BY <1>1, <1>2, <1>3, <1>6
  DEF R!Steps, R!Fails, R!Carry, R!Manifest, R!Profile, R!Get, R!Refused, R!Settle, R!Record,
      R!DropFails, R!SettleFails, R!Ends
<1>7. QED
  BY <1>1, <1>4, <1>5, <1>6 DEF R!Next, R!SetDefault

\* Only the retention moves in a behaviour that is about it.
LEMMA RetentionSteps ==
  part = "retention" /\ [AllNext]_allVars =>
    part' = part /\ (R!Next \/ UNCHANGED retVars)
<1> SUFFICES ASSUME part = "retention", [AllNext]_allVars
             PROVE  part' = part /\ (R!Next \/ UNCHANGED retVars)
  OBVIOUS
<1>1. CASE UNCHANGED allVars
  BY <1>1 DEF allVars
<1>2. CASE AnnNext \/ ProvNext \/ ColNext \/ CatNext
  BY <1>2 DEF AnnNext, ProvNext, ColNext, CatNext, Ann, Prov, Col, Cat
<1>3. CASE RetNext
  BY <1>3, Zenon DEF RetNext, Ret, R!Next, R!Begin, R!Steps, R!Fails
<1>4. QED
  BY <1>1, <1>2, <1>3 DEF AllNext

LEMMA RetInvariant == AllSpec => [](part = "retention" => RetInv)
<1>1. AllInit => (part = "retention" => RetInv)
  BY PartsAssumption, InitRetInv DEF AllInit, R!RetentionAssumption
<1>2. (part = "retention" => RetInv) /\ [AllNext]_allVars => (part = "retention" => RetInv)'
  <2> SUFFICES ASSUME part = "retention" => RetInv, [AllNext]_allVars, part' = "retention"
               PROVE  RetInv'
    BY Zenon
  <2>1. part' = part
    BY DEF AllNext, allVars, AnnNext, ProvNext, RetNext, ColNext, CatNext, Ann, Prov, Ret, Col, Cat
  <2>2. R!Next \/ UNCHANGED retVars
    BY <2>1, RetentionSteps
  <2>3. CASE UNCHANGED retVars
    BY <2>1, <2>3
    DEF retVars, RetInv, LiveOK, CrOK, PassOK, Given, Theirs
  <2>4. QED
    BY <2>1, <2>2, <2>3, StepsRetInv
<1>3. QED
  BY <1>1, <1>2, PTL DEF AllSpec

\* apply_once, by if_seq_no and if_primary_term and the stamps: whichever passes overlap
\* and fail, an edit that a stamp or a description can tell stays until "restore default".
THEOREM EditsAreKept == AllSpec => EditsStand
<1>1. (part = "retention" => RetInv) /\ [AllNext]_allVars
        => [part = "retention" => R!KeepsEdits]_retVars
  BY RetentionSteps, StepKeepsEdits DEF retVars
<1>2. QED
  BY <1>1, RetInvariant, PTL DEF AllSpec, EditsStand

-----------------------------------------------------------------------------
(* The CR and the policy.  A pass that runs alone and without trouble knows what the  *)
(* log policy will have to be when it ends.                                    *)

Ours == R!Managed("log") /\ ~live["log"].hidden
AgeIs(d) == Ours => live["log"].age = d
Good == cr.purpose # "search" => AgeIs(R!Effective(cr.value))
Rests == Good /\ ~behind

Moved(out) == out \in {"written", "kept"}

AgreeAt(q) ==
  /\ q.pc # "settle" \/ q.at = "log" => ~behind
  /\ q.pc = "drop" => cr.purpose = "search"
  /\ q.kind = "install" => Good
  /\ Works(q) /\ q.at = "log" => q.stamps["log"] = cr.stamp["log"]
  /\ Works(q) /\ q.kind = "save" => q.days = R!Effective(cr.value)
  /\ q.pc = "settle" /\ q.at = "log" =>
       (live["log"] # None /\ live["log"].seq = q.seen => live["log"].age = q.days)
  /\ q.kind \in {"apply", "reset"} /\ ((Works(q) /\ q.at = "otel") \/ q.pc = "record") =>
       AgeIs(q.days)
  /\ q.kind = "apply" /\ Works(q) /\ q.at = "otel" /\ ~Moved(q.out) => ~Ours

Quiet == ~retCrossed /\ ~retAmiss

AgreeInv ==
  /\ behind \in BOOLEAN /\ retCrossed \in BOOLEAN /\ retAmiss \in BOOLEAN
  /\ Quiet =>
       /\ \A q, r \in R!Active : q = r
       /\ \A r \in R!Active : AgreeAt(retPass[r])
       /\ R!Active = {} => Rests

LEMMA InitAgreeInv == R!RetentionAssumption /\ R!Init => AgreeInv
<1> SUFFICES ASSUME R!RetentionAssumption, R!Init PROVE AgreeInv
  OBVIOUS
<1>1. R!Active = {}
  BY DEF R!Init, R!Active, R!Idle
<1>2. behind = FALSE /\ retCrossed = FALSE /\ retAmiss = FALSE
  BY DEF R!Init
<1>3. Good
  BY DEF R!Init, R!RetentionAssumption, Good, AgeIs, Ours, R!Managed, R!Effective, R!Policies
<1>4. QED
  BY <1>1, <1>2, <1>3 DEF AgreeInv, Rests

\* The step of the only pass at work.
LEMMA OneMoves ==
  ASSUME RetInv, AgreeInv, Quiet, NEW r \in Requests, r \in R!Active,
         NEW x, retPass' = [retPass EXCEPT ![r] = x],
         behind' \in BOOLEAN, retCrossed' \in BOOLEAN, retAmiss' \in BOOLEAN,
         x.pc # "idle" => AgreeAt(x)', x.pc = "idle" => Rests'
  PROVE  AgreeInv'
<1>1. \A q \in R!Active : q = r
  BY DEF AgreeInv
<1>2. \A q \in Requests \ {r} : retPass[q].pc = "idle" /\ retPass'[q] = retPass[q]
  BY <1>1 DEF R!Active, RetInv
<1>3. retPass'[r] = x
  BY DEF RetInv
<1>4. R!Active' = IF x.pc = "idle" THEN {} ELSE {r}
  BY <1>2, <1>3 DEF R!Active
<1>5. CASE x.pc = "idle"
  BY <1>4, <1>5 DEF AgreeInv
<1>6. CASE x.pc # "idle"
  BY <1>3, <1>4, <1>6 DEF AgreeInv
<1>7. QED
  BY <1>5, <1>6

\* Out of quiet nothing is claimed, and nothing leads back.
LEMMA Loud ==
  ASSUME behind' \in BOOLEAN, retCrossed' \in BOOLEAN, retAmiss' \in BOOLEAN, ~Quiet'
  PROVE  AgreeInv'
  BY DEF AgreeInv

LEMMA AgreeBooleans ==
  ASSUME AgreeInv, R!Next
  PROVE  /\ behind' \in BOOLEAN /\ retCrossed' \in BOOLEAN /\ retAmiss' \in BOOLEAN
         /\ Quiet' => Quiet
<1>1. CASE R!SetDefault \/ R!UserEdit
  BY <1>1 DEF R!SetDefault, R!UserEdit, AgreeInv, Quiet
<1>2. ASSUME NEW r \in Requests, R!Begin(r)
      PROVE  /\ behind' = behind /\ retAmiss' = retAmiss
             /\ retCrossed' = (retCrossed \/ R!Active # {})
  BY <1>2, Zenon DEF R!Begin, R!BeginApply, R!BeginReset, R!BeginInstall, R!BeginSave, R!Starts
<1>3. ASSUME NEW r \in Requests, R!Steps(r) \/ R!Fails(r)
      PROVE  /\ retCrossed' = retCrossed
             /\ retAmiss' = retAmiss \/ retAmiss' = TRUE
  BY <1>3, Zenon
  DEF R!Steps, R!Fails, R!Carry, R!Manifest, R!Profile, R!Drop, R!Get, R!Put, R!Refused, R!Settle,
      R!Record, R!DropFails, R!SettleFails, R!Ends, R!Trouble
<1>4. ASSUME NEW r \in Requests, R!Steps(r) \/ R!Fails(r)
      PROVE  \/ behind' = behind \/ \E b \in BOOLEAN : behind' = (behind \/ b)
             \/ \E b \in BOOLEAN : behind' = (behind /\ b)
  <2>1. CASE R!Put(r)
    BY <2>1 DEF R!Put, AgreeInv
  <2>2. CASE R!Settle(r) \/ R!SettleFails(r)
    BY <2>2 DEF R!Settle, R!SettleFails, AgreeInv
  <2>3. QED
    BY <1>4, <2>1, <2>2, Zenon
    DEF R!Steps, R!Fails, R!Carry, R!Manifest, R!Profile, R!Drop, R!Get, R!Refused,
        R!Record, R!DropFails, R!Ends
<1>5. ASSUME NEW r \in Requests, R!Begin(r)
      PROVE  retCrossed' \in BOOLEAN /\ behind' \in BOOLEAN /\ retAmiss' \in BOOLEAN /\ (Quiet' => Quiet)
  BY <1>2, <1>5 DEF AgreeInv, Quiet
<1>6. ASSUME NEW r \in Requests, R!Steps(r) \/ R!Fails(r)
      PROVE  retCrossed' \in BOOLEAN /\ behind' \in BOOLEAN /\ retAmiss' \in BOOLEAN /\ (Quiet' => Quiet)
  <2>1. behind' \in BOOLEAN
    BY <1>4, <1>6 DEF AgreeInv
  <2>2. QED
    BY <1>3, <1>6, <2>1 DEF AgreeInv, Quiet
<1>7. QED
  BY <1>1, <1>5, <1>6, Zenon DEF R!Next

LEMMA ReadsAgree ==
  ASSUME RetInv, NEW r \in Requests, NEW k \in {"apply", "reset", "install", "save"},
         NEW d \in RetValues, NEW f \in BOOLEAN, R!Reads(r, k, d, f),
         UNCHANGED <<cr, live, behind>>, ~behind,
         k = "install" => Good, k = "save" => d = R!Effective(cr.value)
  PROVE  \E x : x.pc = "get" /\ retPass' = [retPass EXCEPT ![r] = x] /\ AgreeAt(x)'
<1>1. PICK q : /\ q = [R!Idle EXCEPT !.kind = k, !.pc = "get", !.days = d, !.force = f,
                         !.at = IF k = "install" THEN "otel" ELSE "log", !.stamps = cr.stamp]
               /\ retPass' = [retPass EXCEPT ![r] = q]
  BY Zenon DEF R!Reads, R!Set
<1>2. R!Idle \in RetPasses
  BY IdleOK DEF PassOK
<1>3. cr.stamp \in RetStamps
  BY DEF RetInv, CrOK
<1>4. (IF k = "install" THEN "otel" ELSE "log") \in R!Policies
  BY DEF R!Policies
<1>5. q \in RetPasses
  BY <1>1, <1>2, <1>3, <1>4, ReadsType, Zenon
<1>6. /\ q.kind = k /\ q.pc = "get" /\ q.days = d /\ q.stamps = cr.stamp
      /\ q.at = IF k = "install" THEN "otel" ELSE "log"
  BY <1>1, <1>2 DEF RetPasses
<1>7. AgreeAt(q)'
  BY <1>6 DEF AgreeAt, Good, AgeIs, Ours, R!Managed, Works
<1>8. QED
  BY <1>1, <1>6, <1>7

LEMMA BeginAgree ==
  ASSUME RetInv, AgreeInv, NEW r \in Requests, R!Begin(r), Quiet' PROVE AgreeInv'
<1>1. /\ behind' \in BOOLEAN /\ retCrossed' \in BOOLEAN /\ retAmiss' \in BOOLEAN /\ Quiet
  BY AgreeBooleans, Zenon DEF R!Next
<1>2. /\ retCrossed' = (retCrossed \/ R!Active # {})
      /\ UNCHANGED <<cr, live, behind>> /\ retPass[r].pc = "idle"
  BY Zenon DEF R!Begin, R!BeginApply, R!BeginReset, R!BeginInstall, R!BeginSave, R!Starts
<1>3. R!Active = {} /\ Rests
  BY <1>1, <1>2 DEF Quiet, AgreeInv
<1>4. \E x : x.pc # "idle" /\ retPass' = [retPass EXCEPT ![r] = x] /\ AgreeAt(x)'
  <2>1. default \in RetValues /\ R!OtelDays(cr.value) \in RetValues /\ ~behind /\ Good
    BY <1>3 DEF RetInv, LiveOK, CrOK, RetValues, R!OtelDays, Rests
  <2>2. CASE R!BeginApply(r)
    BY <1>2, <2>1, <2>2, ReadsAgree DEF R!BeginApply
  <2>3. CASE R!BeginReset(r)
    BY <1>2, <2>1, <2>3, ReadsAgree DEF R!BeginReset
  <2>4. CASE R!BeginInstall(r)
    BY <1>2, <2>1, <2>4, ReadsAgree DEF R!BeginInstall
  <2>5. CASE R!BeginSave(r)
    <3>1. PICK p, q :
          /\ p \in R!Purposes
          /\ q = [R!Idle EXCEPT !.kind = "save", !.pc = "carry", !.purpose = p,
                    !.days = IF p = cr.purpose THEN None ELSE R!ForPurpose(p)]
          /\ retPass' = [retPass EXCEPT ![r] = q]
      BY <2>5, Zenon DEF R!BeginSave, R!Set
    <3>2. R!Idle \in RetPasses
      BY IdleOK DEF PassOK
    <3>3. (IF p = cr.purpose THEN None ELSE R!ForPurpose(p)) \in RetValues
      BY <3>1 DEF RetInv, LiveOK, R!ForPurpose, RetValues
    <3>4. q \in RetPasses
      BY <3>1, <3>2, <3>3, SaveType, Zenon
    <3>5. q.pc = "carry" /\ q.kind = "save"
      BY <3>1, <3>2, <3>4 DEF RetPasses
    <3>6. AgreeAt(q)'
      BY <1>2, <2>1, <3>5 DEF AgreeAt, Works
    <3>7. QED
      BY <3>1, <3>5, <3>6
  <2>6. QED
    BY <2>2, <2>3, <2>4, <2>5 DEF R!Begin
<1>5. PICK x : x.pc # "idle" /\ retPass' = [retPass EXCEPT ![r] = x] /\ AgreeAt(x)'
  BY <1>4
<1>6. \A q \in Requests \ {r} : retPass'[q].pc = "idle"
  BY <1>3, <1>5 DEF R!Active, RetInv
<1>7. retPass'[r] = x
  BY <1>5 DEF RetInv
<1>8. R!Active' = {r}
  BY <1>5, <1>6, <1>7 DEF R!Active
<1>9. QED
  BY <1>1, <1>5, <1>7, <1>8 DEF AgreeInv

LEMMA OverAgree ==
  ASSUME RetInv, AgreeInv, Quiet, NEW r \in Requests, r \in R!Active, R!Over(r), Rests',
         behind' \in BOOLEAN, retCrossed' \in BOOLEAN, retAmiss' \in BOOLEAN
  PROVE  AgreeInv'
  BY OneMoves DEF R!Over, R!Set, R!Idle

\* What the pass leaves at a policy decides where it goes.
LEMMA AfterAgree ==
  ASSUME RetInv, AgreeInv, Quiet, NEW r \in Requests, NEW me \in RetPasses, me = retPass[r],
         Works(me), NEW out \in {"written", "kept", "customized"}, R!After(r, out),
         behind' \in BOOLEAN, retCrossed' \in BOOLEAN, retAmiss' \in BOOLEAN, ~behind',
         me.at = "log" => AgeIs(me.days)' /\ (out = "customized" => ~Ours'),
         me.kind = "save" => me.days = R!Effective(cr'.value),
         me.kind = "install" => Good',
         me.kind \in {"apply", "reset"} /\ me.at = "otel" => AgeIs(me.days)',
         me.kind = "apply" /\ me.at = "otel" /\ ~Moved(out) /\ ~Moved(me.out) => ~Ours'
  PROVE  AgreeInv'
<1>1. PassOK(me) /\ r \in R!Active
  BY DEF RetInv, Works, R!Active
<1>2. /\ me.kind \in {"apply", "reset", "install", "save"} /\ me.at \in R!Policies
      /\ me.kind = "save" => me.at = "log"
  BY <1>1 DEF PassOK, Works
<1>3. CASE R!Over(r) /\ Rests'
  BY <1>1, <1>3, OverAgree
<1>4. CASE /\ R!Set(r, [me EXCEPT !.at = "otel", !.pc = "get", !.out = out])
           /\ me.kind \in {"apply", "reset"} /\ me.at = "log"
  <2>1. PICK x : /\ x = [me EXCEPT !.at = "otel", !.pc = "get", !.out = out]
                 /\ retPass' = [retPass EXCEPT ![r] = x]
    BY <1>4, Zenon DEF R!Set
  <2>2. Follows(x, me, "otel", "get", me.seen, out)
    <3>1. "get" \in RetPcs /\ out \in RetOuts /\ "otel" \in R!Policies
      BY <1>4 DEF RetPcs, RetOuts, R!Policies
    <3>2. QED
      BY <1>1, <2>1, <3>1, AtType, Zenon
  <2>3. AgreeAt(x)'
    BY <1>4, <2>2 DEF Follows, AgreeAt, Works, Moved
  <2>4. x.pc # "idle"
    BY <2>2 DEF Follows
  <2>5. QED
    BY <1>1, <2>1, <2>3, <2>4, OneMoves
<1>5. CASE /\ R!Set(r, [me EXCEPT !.pc = "record"])
           /\ me.kind \in {"apply", "reset"} /\ me.at = "otel"
  <2>1. PICK x : x = [me EXCEPT !.pc = "record"] /\ retPass' = [retPass EXCEPT ![r] = x]
    BY <1>5, Zenon DEF R!Set
  <2>2. Follows(x, me, me.at, "record", me.seen, me.out)
    <3>1. "record" \in RetPcs
      BY DEF RetPcs
    <3>2. QED
      BY <1>1, <2>1, <3>1, PcType, Zenon
  <2>3. AgreeAt(x)'
    BY <1>5, <2>2 DEF Follows, AgreeAt, Works
  <2>4. x.pc # "idle"
    BY <2>2 DEF Follows
  <2>5. QED
    BY <1>1, <2>1, <2>3, <2>4, OneMoves
<1>6. CASE R!Over(r) /\ me.kind = "install"
  BY <1>3, <1>6 DEF Rests
<1>7. CASE R!Over(r) /\ me.kind = "save"
  BY <1>2, <1>3, <1>7 DEF Rests, Good
<1>8. CASE /\ R!Over(r) /\ me.kind = "apply" /\ me.at = "otel"
           /\ ~Moved(out) /\ ~Moved(me.out)
  BY <1>3, <1>8 DEF Rests, Good, AgeIs
<1>9. QED
  BY <1>2, <1>4, <1>5, <1>6, <1>7, <1>8, Zenon DEF R!After, Moved

\* A pass at work, in quiet.
LEMMA Alone1 ==
  ASSUME RetInv, AgreeInv, Quiet, NEW r \in Requests, retPass[r].pc # "idle"
  PROVE  /\ r \in R!Active
         /\ \E me \in RetPasses : me = retPass[r] /\ AgreeAt(me) /\ PassOK(me)
  BY DEF RetInv, AgreeInv, R!Active

LEMMA StepsAgree ==
  ASSUME RetInv, AgreeInv, NEW r \in Requests, R!Steps(r) \/ R!Fails(r), Quiet'
  PROVE  AgreeInv'
<1>1. /\ behind' \in BOOLEAN /\ retCrossed' \in BOOLEAN /\ retAmiss' \in BOOLEAN /\ Quiet
  BY AgreeBooleans, Zenon DEF R!Next
<1>2. ~R!Fails(r) /\ ~R!Refused(r)
  BY DEF R!Fails, R!DropFails, R!SettleFails, R!Ends, R!Refused, R!Trouble, Quiet
<1>3. retPass[r].pc # "idle"
  BY <1>2
  DEF R!Steps, R!Carry, R!Manifest, R!Profile, R!Drop, R!Get, R!Put, R!Settle, R!Record
<1>4. r \in R!Active
  BY <1>1, <1>3, Alone1
<1>5. PICK me \in RetPasses : me = retPass[r] /\ AgreeAt(me) /\ PassOK(me)
  BY <1>1, <1>3, Alone1
<1>6. /\ me.kind \in {"apply", "reset", "install", "save"} /\ me.days \in RetValues
      /\ me.seen \in Nat \cup {None} /\ me.out \in RetOuts /\ me.stamps \in RetStamps
      /\ me.value \in RetValues /\ me.source \in RetSources /\ me.force \in BOOLEAN
      /\ Works(me) => me.at \in R!Policies
      /\ Works(me) /\ me.kind = "save" => me.at = "log"
      /\ me.kind = "install" => me.at = "otel"
      /\ me.kind \in {"apply", "reset"} => me.days \in Days
  BY <1>3, <1>5 DEF PassOK, RetPasses, RetOuts
<1>7. ASSUME NEW x, retPass' = [retPass EXCEPT ![r] = x], x.pc # "idle", AgreeAt(x)'
      PROVE  AgreeInv'
  BY <1>1, <1>4, <1>7, OneMoves
<1>11. CASE R!Carry(r)
  <2>1. PICK x : /\ x = [me EXCEPT !.pc = "manifest", !.value = cr.value, !.source = cr.source]
                 /\ retPass' = [retPass EXCEPT ![r] = x]
    BY <1>5, <1>11, Zenon DEF R!Carry, R!Set
  <2>2. cr.value \in RetValues /\ cr.source \in RetSources /\ "manifest" \in RetPcs
    BY DEF RetInv, CrOK, RetPcs
  <2>3. Follows(x, me, me.at, "manifest", me.seen, me.out)
    BY <1>5, <2>1, <2>2, ValueType, Zenon
  <2>4. me.pc = "carry" /\ me.kind = "save" /\ behind' = behind
    BY <1>5, <1>11 DEF R!Carry, PassOK
  <2>5. AgreeAt(x)' /\ x.pc # "idle"
    BY <1>5, <2>3, <2>4 DEF Follows, AgreeAt, Works
  <2>6. QED
    BY <1>7, <2>1, <2>5
<1>12. CASE R!Manifest(r)
  <2>1. PICK x : x = [me EXCEPT !.pc = "profile"] /\ retPass' = [retPass EXCEPT ![r] = x]
    BY <1>5, <1>12, Zenon DEF R!Manifest, R!Set
  <2>2. "profile" \in RetPcs
    BY DEF RetPcs
  <2>3. Follows(x, me, me.at, "profile", me.seen, me.out)
    BY <1>5, <2>1, <2>2, PcType, Zenon
  <2>4. me.pc = "manifest" /\ me.kind = "save" /\ behind' = behind
    BY <1>5, <1>12 DEF R!Manifest, PassOK
  <2>5. AgreeAt(x)' /\ x.pc # "idle"
    BY <1>5, <2>3, <2>4 DEF Follows, AgreeAt, Works
  <2>6. QED
    BY <1>7, <2>1, <2>5
<1>13. CASE R!Profile(r)
  <2>1. me.pc = "profile" /\ me.kind = "save" /\ UNCHANGED <<behind, cr, live>>
    BY <1>5, <1>13 DEF R!Profile, PassOK
  <2>2. ~behind
    BY <1>5, <2>1 DEF AgreeAt
  <2>3. CASE cr.purpose = "search" /\ R!Set(r, [me EXCEPT !.pc = "drop"])
    <3>1. PICK x : x = [me EXCEPT !.pc = "drop"] /\ retPass' = [retPass EXCEPT ![r] = x]
      BY <2>3, Zenon DEF R!Set
    <3>2. "drop" \in RetPcs
      BY DEF RetPcs
    <3>3. Follows(x, me, me.at, "drop", me.seen, me.out)
      BY <1>5, <3>1, <3>2, PcType, Zenon
    <3>5. AgreeAt(x)' /\ x.pc # "idle"
      BY <2>1, <2>2, <2>3, <3>3 DEF Follows, AgreeAt, Works
    <3>6. QED
      BY <1>7, <3>1, <3>5
  <2>4. CASE R!Reads(r, "save", R!Effective(cr.value), FALSE)
    <3>1. R!Effective(cr.value) \in RetValues
      BY DEF RetInv, CrOK, R!Effective, RetValues
    <3>2. \E x : x.pc = "get" /\ retPass' = [retPass EXCEPT ![r] = x] /\ AgreeAt(x)'
      BY <2>1, <2>2, <2>4, <3>1, ReadsAgree
    <3>3. PICK x : x.pc = "get" /\ retPass' = [retPass EXCEPT ![r] = x] /\ AgreeAt(x)'
      BY <3>2
    <3>4. QED
      BY <1>7, <3>3
  <2>5. QED
    BY <1>5, <1>13, <2>3, <2>4 DEF R!Profile
<1>14. CASE R!Drop(r)
  <2>1. me.pc = "drop" /\ R!Over(r) /\ behind' = behind /\ cr' = cr
    BY <1>5, <1>14 DEF R!Drop
  <2>2. Rests'
    BY <1>5, <2>1 DEF AgreeAt, Rests, Good
  <2>3. QED
    BY <1>1, <1>4, <2>1, <2>2, OverAgree
<1>15. CASE R!Get(r)
  <2> DEFINE doc == live[me.at]
  <2>1. me.pc = "get" /\ Works(me) /\ UNCHANGED <<behind, cr, live>>
    BY <1>5, <1>15 DEF R!Get, Works
  <2>2. ~behind /\ me.at \in R!Policies
    BY <1>5, <1>6, <2>1 DEF AgreeAt
  <2>3. doc = None \/ doc.seq \in Nat
    BY <2>2 DEF RetInv, LiveOK, RetDocs
  <2>4. ASSUME NEW pc \in {"create", "put"}, NEW n, NEW x, Follows(x, me, me.at, pc, n, me.out)
        PROVE  AgreeAt(x)' /\ x.pc # "idle"
    BY <1>5, <2>1, <2>2, <2>4
    DEF Follows, AgreeAt, Works, Moved, AgeIs, Ours, Good, R!Managed
  <2>5. CASE doc = None /\ R!Set(r, [me EXCEPT !.pc = "create"])
    <3>1. PICK x : x = [me EXCEPT !.pc = "create"] /\ retPass' = [retPass EXCEPT ![r] = x]
      BY <2>5, Zenon DEF R!Set
    <3>2. "create" \in RetPcs
      BY DEF RetPcs
    <3>3. Follows(x, me, me.at, "create", me.seen, me.out)
      BY <1>5, <3>1, <3>2, PcType, Zenon
    <3>4. AgreeAt(x)' /\ x.pc # "idle"
      BY <2>4, <3>3
    <3>5. QED
      BY <1>7, <3>1, <3>4
  <2>6. CASE doc # None /\ R!Set(r, [me EXCEPT !.pc = "put", !.seen = doc.seq])
    <3>0. PICK n \in Nat \cup {None} : n = doc.seq
      BY <2>3, <2>6
    <3>1. PICK x :
            x = [me EXCEPT !.pc = "put", !.seen = n] /\ retPass' = [retPass EXCEPT ![r] = x]
      BY <2>6, <3>0, Zenon DEF R!Set
    <3>2. "put" \in RetPcs
      BY DEF RetPcs
    <3>3. Follows(x, me, me.at, "put", n, me.out)
      BY <1>5, <3>1, <3>2, SeenType, Zenon
    <3>4. AgreeAt(x)' /\ x.pc # "idle"
      BY <2>4, <3>3
    <3>5. QED
      BY <1>7, <3>1, <3>4
  <2>7. CASE /\ doc # None /\ R!Current(doc, me.days) /\ ~me.force
             /\ R!Set(r, [me EXCEPT !.pc = "settle", !.seen = doc.seq, !.out = "kept"])
    <3>0. PICK n \in Nat \cup {None} : n = doc.seq
      BY <2>3, <2>7
    <3>1. PICK x : /\ x = [me EXCEPT !.pc = "settle", !.seen = n, !.out = "kept"]
                   /\ retPass' = [retPass EXCEPT ![r] = x]
      BY <2>7, <3>0, Zenon DEF R!Set
    <3>2. "settle" \in RetPcs /\ "kept" \in RetOuts
      BY DEF RetPcs, RetOuts
    <3>3. Follows(x, me, me.at, "settle", n, "kept")
      BY <1>5, <3>1, <3>2, OutType, Zenon
    <3>4. AgreeAt(x)' /\ x.pc # "idle"
      BY <1>5, <2>1, <2>2, <2>7, <3>0, <3>1, <3>3
      DEF Follows, AgreeAt, Works, Moved, AgeIs, Ours, Good, R!Managed, R!Current
    <3>5. QED
      BY <1>7, <3>1, <3>4
  <2>8. CASE /\ doc # None /\ R!Customized(doc, me.stamps[me.at]) /\ ~me.force
             /\ R!After(r, "customized")
    <3>1. me.at = "log" => ~Ours'
      BY <1>5, <2>1, <2>8 DEF AgreeAt, Ours, R!Managed
    <3>2. me.kind = "save" => me.days = R!Effective(cr'.value)
      BY <1>5, <2>1 DEF AgreeAt
    <3>3. me.kind = "install" => Good'
      BY <1>5, <2>1 DEF AgreeAt, Good, AgeIs, Ours, R!Managed
    <3>4. /\ me.kind \in {"apply", "reset"} /\ me.at = "otel" => AgeIs(me.days)'
          /\ me.kind = "apply" /\ me.at = "otel" /\ ~Moved(me.out) => ~Ours'
      BY <1>5, <2>1 DEF AgreeAt, AgeIs, Ours, R!Managed
    <3>5. me.at = "log" => AgeIs(me.days)'
      BY <3>1 DEF AgeIs
    <3>6. ~behind'
      BY <2>1, <2>2
    <3>7. QED
      BY <1>1, <1>5, <2>1, <2>8, <3>1, <3>2, <3>3, <3>4, <3>5, <3>6, AfterAgree
  <2>9. QED
    BY <1>5, <1>6, <1>15, <2>5, <2>6, <2>7, <2>8, Zenon DEF R!Get
<1>16. CASE R!Put(r)
  <2>1. /\ me.pc \in {"create", "put"} /\ Works(me) /\ cr' = cr
        /\ behind' = (behind \/ (me.at = "otel" /\ me.pc = "put"))
        /\ live' = [live EXCEPT ![me.at] =
             [seq |-> seqs', age |-> me.days, says |-> me.days,
              by |-> IF me.force THEN "reset" ELSE "velox", hidden |-> FALSE]]
        /\ seqs' \in Nat
    BY <1>5, <1>16 DEF R!Put, Works, RetInv, LiveOK
  <2>2. /\ ~behind /\ me.at \in R!Policies
    BY <1>5, <1>6, <2>1 DEF AgreeAt
  <2>9. PICK n \in Nat \cup {None} : n = seqs'
    BY <2>1
  <2>3. PICK x : /\ x = [me EXCEPT !.pc = "settle", !.seen = n, !.out = "written"]
                 /\ retPass' = [retPass EXCEPT ![r] = x]
    BY <1>5, <1>16, <2>9, Zenon DEF R!Put, R!Set
  <2>4. "settle" \in RetPcs /\ "written" \in RetOuts
    BY DEF RetPcs, RetOuts
  <2>5. Follows(x, me, me.at, "settle", n, "written")
    BY <1>5, <2>3, <2>4, OutType, Zenon
  <2>6. CASE me.at = "log"
    <3>1. live'["log"].age = me.days /\ behind' = behind
      BY <1>1, <2>1, <2>2, <2>6 DEF RetInv, LiveOK, AgreeInv
    <3>2. me.kind # "install"
      BY <1>6, <2>6
    <3>3. AgreeAt(x)' /\ x.pc # "idle"
      BY <1>5, <2>1, <2>2, <2>5, <2>6, <3>1, <3>2 DEF Follows, AgreeAt, Works
    <3>4. QED
      BY <1>7, <2>3, <3>3
  <2>7. CASE me.at = "otel"
    <3>1. live'["log"] = live["log"]
      BY <2>1, <2>2, <2>7 DEF RetInv, LiveOK, R!Policies
    <3>2. AgreeAt(x)' /\ x.pc # "idle"
      BY <1>5, <2>1, <2>2, <2>5, <2>7, <3>1
      DEF Follows, AgreeAt, Works, Moved, AgeIs, Ours, Good, R!Managed
    <3>3. QED
      BY <1>7, <2>3, <3>2
  <2>8. QED
    BY <2>2, <2>6, <2>7 DEF R!Policies
<1>17. CASE R!Settle(r)
  <2>1. /\ me.pc = "settle" /\ Works(me) /\ live' = live
        /\ behind' = (behind /\ me.at # "otel") /\ R!After(r, me.out)
        /\ cr' = [cr EXCEPT !.stamp[me.at] = me.seen]
    BY <1>5, <1>17 DEF R!Settle, Works
  <2>2. me.at \in R!Policies /\ me.out \in {"written", "kept"} /\ me.seen # None
    BY <1>5, <1>6, <2>1 DEF PassOK
  <2>13. ~behind'
    <3>1. me.at = "log" \/ me.at = "otel"
      BY <2>2 DEF R!Policies
    <3>2. me.at = "log" => ~behind
      BY <1>5 DEF AgreeAt
    <3>3. QED
      BY <2>1, <3>1, <3>2
  <2>3. cr \in [purpose : R!Purposes, value : RetValues, source : RetSources, stamp : RetStamps]
    BY DEF RetInv, CrOK
  <2>4. /\ cr'.purpose = cr.purpose /\ cr'.value = cr.value
        /\ cr'.stamp = [cr.stamp EXCEPT ![me.at] = me.seen] /\ cr.stamp \in RetStamps
    BY <2>1, <2>3
  <2>5. /\ cr'.stamp[me.at] = me.seen
        /\ \A p \in R!Policies : p # me.at => cr'.stamp[p] = cr.stamp[p]
    BY <2>2, <2>4 DEF RetStamps
  <2>6. me.at = "log" => AgeIs(me.days)'
    BY <1>5, <2>1, <2>2, <2>5 DEF AgreeAt, AgeIs, Ours, R!Managed, R!Customized
  <2>7. me.at = "otel" => cr'.stamp["log"] = cr.stamp["log"]
    BY <2>5 DEF R!Policies
  <2>8. me.kind = "save" => me.days = R!Effective(cr'.value)
    BY <1>5, <2>1, <2>4 DEF AgreeAt
  <2>9. me.kind = "install" => Good'
    BY <1>5, <1>6, <2>1, <2>4, <2>7 DEF AgreeAt, Good, AgeIs, Ours, R!Managed
  <2>10. me.kind \in {"apply", "reset"} /\ me.at = "otel" => AgeIs(me.days)'
    BY <1>5, <2>1, <2>7 DEF AgreeAt, AgeIs, Ours, R!Managed
  <2>11. Moved(me.out) /\ me.out # "customized"
    BY <2>2 DEF Moved
  <2>12. QED
    BY <1>1, <1>5, <2>1, <2>2, <2>6, <2>8, <2>9, <2>10, <2>11, <2>13, AfterAgree
<1>18. CASE R!Record(r)
  <2>1. /\ me.pc = "record" /\ R!Over(r) /\ UNCHANGED <<live, behind>>
        /\ cr' = [cr EXCEPT !.value = me.days, !.source = "default"]
    BY <1>5, <1>18 DEF R!Record
  <2>2. me.kind \in {"apply", "reset"} /\ me.days \in Days /\ ~behind /\ AgeIs(me.days)
    BY <1>5, <2>1 DEF AgreeAt, PassOK
  <2>3. cr'.value = me.days /\ cr'.stamp = cr.stamp
    BY <2>1 DEF RetInv, CrOK
  <2>4. Rests'
    BY <2>1, <2>2, <2>3
    DEF Rests, Good, AgeIs, Ours, R!Managed, R!Effective, RetInv, R!RetentionAssumption
  <2>5. QED
    BY <1>1, <1>4, <2>1, <2>4, OverAgree
<1>20. QED
  BY <1>2, <1>11, <1>12, <1>13, <1>14, <1>15, <1>16, <1>17, <1>18, Zenon DEF R!Steps

\* A user's edit is not velox's, and no pass left it.
LEMMA EditAgree == ASSUME RetInv, AgreeInv, R!UserEdit, Quiet' PROVE AgreeInv'
<1>1. PICK p \in R!Policies, age \in Days, says \in Days :
        live' = [live EXCEPT ![p] = [seq |-> seqs + 1, age |-> age, says |-> says,
                   by |-> "user", hidden |-> R!Unstamped(p) /\ age = says]]
  BY DEF R!UserEdit
<1>2. PICK h \in BOOLEAN : h = (R!Unstamped(p) /\ age = says)
  BY Zenon DEF R!Unstamped
<1>3. live' = [live EXCEPT ![p] = [seq |-> seqs + 1, age |-> age, says |-> says,
                                   by |-> "user", hidden |-> h]]
  BY <1>1, <1>2, Zenon
<1>4. UNCHANGED <<cr, retPass, behind, retCrossed, retAmiss>> /\ Quiet
  BY DEF R!UserEdit, Quiet
<1>5. cr.stamp["log"] = None /\ p = "log" => R!Unstamped(p)
  BY DEF R!Unstamped
<1>6. CASE p # "log"
  <2>1. live'["log"] = live["log"]
    BY <1>3, <1>6 DEF RetInv, LiveOK, R!Policies
  <2>2. QED
    BY <1>4, <2>1
    DEF AgreeInv, R!Active, Quiet, AgreeAt, Works, AgeIs, Ours, R!Managed, Good, Rests, Moved
<1>7. CASE p = "log"
  <2>1. /\ live'["log"].seq = seqs + 1 /\ live'["log"].age = age /\ live'["log"].says = says
        /\ live'["log"].hidden = h
    BY <1>3, <1>7 DEF RetInv, LiveOK
  <2>2. cr.stamp["log"] # seqs + 1
    BY DEF RetInv, CrOK, LiveOK, Given, RetStamps, R!Policies, R!RetentionAssumption
  <2>3. cr.stamp["log"] = None /\ age = says => h
    BY <1>2, <1>5, <1>7, Zenon
  <2>4. ~Ours'
    BY <1>4, <2>1, <2>2, <2>3 DEF Ours, R!Managed, R!Customized
  <2>5. Good' /\ \A d : AgeIs(d)'
    BY <2>4 DEF Good, AgeIs
  <2>6. \A r \in Requests : retPass[r].seen # seqs + 1
    BY DEF RetInv, PassOK, LiveOK, Given, RetPasses, R!RetentionAssumption
  <2>7. \A r \in R!Active : AgreeAt(retPass[r]) => AgreeAt(retPass[r])'
    BY <1>4, <2>1, <2>4, <2>5, <2>6 DEF AgreeAt, R!Active, Works
  <2>8. QED
    BY <1>4, <2>5, <2>7 DEF AgreeInv, R!Active, Quiet, Rests
<1>8. QED
  BY <1>6, <1>7

LEMMA NextAgree == RetInv /\ AgreeInv /\ R!Next => AgreeInv'
<1> SUFFICES ASSUME RetInv, AgreeInv, R!Next PROVE AgreeInv'
  OBVIOUS
<1>1. CASE ~Quiet'
  BY <1>1, AgreeBooleans, Loud
<1>2. CASE Quiet'
  <2>1. ASSUME NEW r \in Requests, R!Begin(r) \/ R!Steps(r) \/ R!Fails(r) PROVE AgreeInv'
    BY <1>2, <2>1, BeginAgree, StepsAgree, Zenon
  <2>2. CASE R!SetDefault
    BY <2>2
    DEF R!SetDefault, AgreeInv, R!Active, Quiet, AgreeAt, Works, AgeIs, Ours, R!Managed, Good,
        Rests, Moved
  <2>3. CASE R!UserEdit
    BY <1>2, <2>3, EditAgree
  <2>4. QED
    BY <2>1, <2>2, <2>3, Zenon DEF R!Next
<1>3. QED
  BY <1>1, <1>2

\* apply_default_retention and reset_retention, and the profile of a save: left to itself
\* a pass ends with the log policy at the age the CR says, unless a user wrote it.
THEOREM CrIsWhatPolicySays == AllSpec => []CrAndPolicyAgree
<1>1. AllInit => (part = "retention" => AgreeInv)
  BY PartsAssumption, InitAgreeInv DEF AllInit
<1>2. /\ part = "retention" => RetInv
      /\ part = "retention" => AgreeInv
      /\ [AllNext]_allVars
      => (part = "retention" => AgreeInv)'
  <2> SUFFICES ASSUME part = "retention" => RetInv /\ AgreeInv, [AllNext]_allVars,
                      part' = "retention"
               PROVE  AgreeInv'
    BY Zenon
  <2>1. part' = part
    BY DEF AllNext, allVars, AnnNext, ProvNext, RetNext, ColNext, CatNext, Ann, Prov, Ret, Col, Cat
  <2>2. R!Next \/ UNCHANGED retVars
    BY <2>1, RetentionSteps
  <2>3. CASE UNCHANGED retVars
    BY <2>1, <2>3
    DEF retVars, AgreeInv, R!Active, Quiet, AgreeAt, Works, AgeIs, Ours, R!Managed, Good, Rests,
        Moved
  <2>4. QED
    BY <2>1, <2>2, <2>3, NextAgree
<1>3. (part = "retention" => AgreeInv) => CrAndPolicyAgree
  BY DEF AgreeInv, CrAndPolicyAgree, R!CrAndPolicyAgree, Quiet, Rests, Good, AgeIs, Ours
<1>4. QED
  BY <1>1, <1>2, <1>3, RetInvariant, PTL DEF AllSpec

-----------------------------------------------------------------------------
(* Provisioning, whose proofs are in ProvisioningProofs.                        *)

PO == INSTANCE ProvisioningProofs WITH
        Users <- Requests, Monitors <- Ids, Kinds <- ProvKinds,
        Purposes <- Uses, Trouble <- ProvTrouble, req <- provReq, troubles <- provTroubles

LEMMA PartAssumed == PO!Assumed
  BY PartsAssumption
  DEF PO!Assumed, P!ProvisioningAssumption, PO!ProvisioningAssumption, P!NoneAssumption,
      PO!NoneAssumption, P!Items, PO!Items, P!Wants, PO!Wants, P!Records, PO!Records

\* The two instances of Provisioning are one.
LEMMA SameProvisioning ==
  /\ P!Init = PO!Init /\ P!Next = PO!Next
  /\ \A t \in Appliers : P!ApplyMonitor(t) = PO!ApplyMonitor(t)
<1>1. P!Init = PO!Init
  BY
  DEF P!Init, PO!Init, P!Starters, PO!Starters, P!Waiting, PO!Waiting, P!At, PO!At, P!OffTask,
      PO!OffTask, P!Blank, PO!Blank
<1>2. P!Next = PO!Next
  BY
  DEF P!Next, PO!Next, P!Goes, PO!Goes, P!AtRest, PO!AtRest, P!InTurn,
      PO!InTurn, P!Starters, PO!Starters, P!Fresh, PO!Fresh, P!Parse,
      PO!Parse, P!Pending, PO!Pending, P!Restart, PO!Restart, P!MarkFailed, PO!MarkFailed,
      P!WithDone, PO!WithDone, P!RearmEligible, PO!RearmEligible, P!Writes, PO!Writes,
      P!WriteFails, PO!WriteFails, P!Write, PO!Write, P!At, PO!At, P!Waiting, PO!Waiting,
      P!Blank, PO!Blank, P!Reading, PO!Reading, P!OffTask, PO!OffTask, P!MayStart, PO!MayStart,
      P!Starts, PO!Starts, P!Ends, PO!Ends, P!Save, PO!Save, P!Retry, PO!Retry, P!Toggle,
      PO!Toggle, P!ToggleMarks, PO!ToggleMarks, P!Rearm, PO!Rearm, P!Begin, PO!Begin,
      P!MarkRecord, PO!MarkRecord, P!MarkFails, PO!MarkFails, P!Spawn, PO!Spawn, P!Move,
      PO!Move, P!Again, PO!Again, P!ReadDeferred, PO!ReadDeferred, P!RunsOut, PO!RunsOut,
      P!ReadFails, PO!ReadFails, P!GiveUp, PO!GiveUp, P!TimesOut, PO!TimesOut, P!Settles,
      PO!Settles, P!MarkDone, PO!MarkDone, P!ApplyProfile, PO!ApplyProfile, P!ApplyMonitor,
      PO!ApplyMonitor, P!ItemFails, PO!ItemFails, P!PassEnds, PO!PassEnds, P!Moves, PO!Moves,
      P!Crash, PO!Crash, P!UserStarts, PO!UserStarts, P!RequestGoesOn, PO!RequestGoesOn,
      P!Applier, PO!Applier
<1>3. ASSUME NEW t \in Appliers PROVE P!ApplyMonitor(t) = PO!ApplyMonitor(t)
  BY DEF P!ApplyMonitor, PO!ApplyMonitor, P!MarkDone, PO!MarkDone, P!Move, PO!Move, P!WithDone,
         PO!WithDone
<1>4. QED
  BY <1>1, <1>2, <1>3

LEMMA ProvisioningSteps ==
  ASSUME [AllNext]_allVars, part = "provisioning"
  PROVE  part' = part /\ (PO!Next \/ UNCHANGED provVars)
<1>1. CASE ProvNext
  <2>1. P!Next
    BY <1>1, Zenon DEF ProvNext, Prov, P!Next, P!UserStarts, P!RequestGoesOn, P!Applier
  <2>2. QED
    BY <1>1, <2>1, SameProvisioning DEF ProvNext, Prov
<1>2. ~(AnnNext \/ RetNext \/ ColNext \/ CatNext)
  BY DEF AnnNext, RetNext, ColNext, CatNext, Ann, Ret, Col, Cat
<1>3. CASE UNCHANGED allVars
  BY <1>3 DEF allVars
<1>4. QED
  BY <1>1, <1>2, <1>3 DEF AllNext

\* plan and run_deferred_provisioning: whatever appliers, requests and failures overlap,
\* and however old the record, an applier's monitor finds the profile installed.
THEOREM MonitorsFindProfile == AllSpec => MonitorsAfterProfile
<1> DEFINE Held == part = "provisioning" => PO!IInv
<1>1. AllInit => Held
  BY PartAssumed, SameProvisioning, PO!InitIInv DEF AllInit
<1>2. Held /\ [AllNext]_allVars => Held'
  <2>1. SUFFICES ASSUME Held, [AllNext]_allVars, part' = "provisioning"
                 PROVE  PO!IInv'
    OBVIOUS
  <2>2. part = "provisioning"
    BY <2>1
    DEF AllNext, AnnNext, ProvNext, RetNext, ColNext, CatNext, Ann, Prov, Ret, Col, Cat, allVars
  <2>3. PO!IInv /\ [PO!Next]_provVars
    BY <2>1, <2>2, ProvisioningSteps
  <2>4. QED
    BY <2>3, PO!NextIInv DEF PO!vars, provVars
<1>3. Held /\ [AllNext]_allVars =>
        [(part = "provisioning" /\ \E t \in Appliers : P!ApplyMonitor(t))
           => installed.profile # None]_provVars
  <2> SUFFICES ASSUME PO!IInv, NEW t \in Appliers, P!ApplyMonitor(t)
               PROVE  installed.profile # None
    OBVIOUS
  <2>1. QED
    BY SameProvisioning, PO!MonitorNeedsProfile
<1>4. QED
  BY <1>1, <1>2, <1>3, PTL DEF AllSpec, MonitorsAfterProfile

-----------------------------------------------------------------------------
(* The logins of the collectors.                                               *)

ColPcs == {"idle", "creds", "login", "config", "workload", "delete", "last", "drop", "look",
           "probe", "secret", "stamp", "stack", "exporter", "prepper", "end"}

ColPasses ==
  [kind : {None, "tick", "install", "remove", "rotate"}, pc : ColPcs, at : Stacks \cup {None},
   pw : K!Passwords, want : K!Passwords, plain : SUBSET Stacks, stale : SUBSET Stacks,
   otel : BOOLEAN]

ColState ==
  /\ K!CollectorsAssumption
  /\ admin \in Nat /\ accepted \in Nat /\ resets \in Nat
  /\ login \in [{"agents", "stack"} -> K!Passwords]
  /\ made \in [K!Collectors -> K!Templates \cup {None}]
  /\ colCrossed \in BOOLEAN /\ torn \in BOOLEAN /\ ticked \in {"no", "running", "yes"}

\* A new password is newer than all, and OpenSearch takes it or an older one.
Passes == accepted <= admin /\ admin <= resets

\* What a Secret holds was once accepted.
LoginOK == \A g \in {"agents", "stack"} : login[g] # None => login[g] <= accepted

\* A hash beside the variable is never ahead of the Secret, nor the pods behind it.
MadeOK(c) ==
  made[c] # None =>
    /\ made[c].run # None => made[c].run <= accepted
    /\ made[c].plain # None => made[c].plain <= accepted
    /\ c \in K!Parts => made[c].env
    /\ made[c].env =>
         /\ made[c].plain = None /\ made[c].hash # None
         /\ login[K!Group(c)] # None /\ made[c].hash <= login[K!Group(c)]
         /\ ~made[c].due => made[c].run # None /\ made[c].hash <= made[c].run

StackOK ==
  \A c \in K!Parts :
    /\ made[c] # None <=> login["stack"] # None
    /\ made[c] # None /\ ~torn => made[c].hash = login["stack"]

\* Where a pass is, what it read is no newer than what it has written or has seen taken.
Asked(q) == q.want # None /\ q.want <= accepted /\ (login["stack"] # None => login["stack"] <= q.want)

ColPassOK(q) ==
  /\ q.pc # "idle" => q.kind \in {"tick", "install", "remove", "rotate"}
  /\ q.kind = "install" => q.pc \in {"idle", "creds", "login", "config", "workload"}
  /\ q.kind = "remove" => q.pc \in {"idle", "delete", "last", "drop"}
  /\ q.kind = "rotate" => q.pc \in {"idle", "creds", "login", "exporter", "prepper"}
  /\ q.pc \in {"config", "workload"} => q.kind # "rotate"
  /\ q.kind = "tick" => q.pc \notin {"delete", "last", "drop"}
  /\ q.pc \in {"config", "workload", "delete"} \/ (q.pc = "login" /\ q.kind # "rotate")
       \/ (q.pc = "creds" /\ q.kind # "rotate") => q.at \in Stacks
  /\ q.pc = "login" => q.pw # None
  /\ q.pc \in {"config", "workload"} =>
       q.pw # None /\ login["agents"] # None /\ q.pw <= login["agents"]
  /\ q.pc = "drop" => K!Own = {}
  /\ q.kind = "tick" /\ q.pc = "probe" => q.want # None
  /\ q.kind = "tick" /\ q.pc \notin {"idle", "look", "probe", "end"} => Asked(q)
  /\ q.kind = "tick" /\ q.pc \notin {"idle", "look"} /\ q.otel => login["stack"] # None
  /\ q.pc = "stamp" => login["agents"] # None /\ q.want <= login["agents"]
  /\ q.pc = "stack" => q.otel
  /\ q.kind = "rotate" /\ q.pc # "idle" => login["stack"] # None
  /\ q.pc \in K!Parts => q.want # None /\ login["stack"] = q.want

Exclusive ==
  \A q, r \in Requests :
    /\ colPass[q].pc # "idle" /\ colPass[r].pc # "idle" /\ colPass[q].kind \in {"remove", "rotate"}
         => q = r
    /\ colPass[q].pc # "idle" /\ colPass[r].pc # "idle" /\ colPass[q].kind = "tick"
         /\ colPass[r].kind = "tick" => q = r

\* What is left to do of what a tick that runs alone has found.
Settled(c) == made[c] # None => made[c].plain = None /\ made[c].hash = admin
LeftTo(q) ==
  /\ q.want = admin
  /\ \A c \in Stacks : made[c] # None =>
       /\ made[c].plain # None => c \in q.plain
       /\ made[c].plain = None /\ made[c].hash # admin
            => c \in q.stale \/ (q.pc = "workload" /\ c = q.at)
  /\ ~q.otel => login["stack"] \in {None, admin}
  /\ q.pc \in {"login", "config", "workload"} => q.pw = admin
  /\ q.pc \in {"secret", "stamp", "stack", "exporter", "prepper", "end"} => q.plain = {}
  /\ q.pc \in {"stack", "exporter", "prepper", "end"} => q.stale = {}
  /\ q.pc = "end" => login["stack"] \in {None, admin}

TickOK ==
  /\ ticked = "running" =>
       \A q, r \in K!Active :
         q = r /\ colPass[r].kind = "tick" /\ (colPass[r].pc # "look" => LeftTo(colPass[r]))
  /\ ticked = "yes" =>
       /\ K!Active = {}
       /\ \A c \in Stacks : Settled(c)
       /\ login["stack"] \in {None, admin}

ColInv ==
  /\ ColState /\ Passes /\ colPass \in [Requests -> ColPasses]
  /\ ~colCrossed =>
       /\ LoginOK /\ StackOK /\ \A c \in K!Collectors : MadeOK(c)
       /\ \A r \in Requests : ColPassOK(colPass[r])
       /\ Exclusive /\ TickOK

\* A collector whose ConfigMap alone was applied is one that a pass is about to apply, or
\* was left so.
Half(c) == made[c] # None /\ made[c].plain = None /\ ~made[c].env
Mid(r, c) == colPass[r].pc = "workload" /\ colPass[r].at = c
HalfInv == \A c \in Stacks : Half(c) => c \in cut \/ \E r \in Requests : Mid(r, c)

LEMMA ColInvIs == ColInv /\ HalfInv => K!TickSettlesLogins
<1> SUFFICES ASSUME ColInv, HalfInv, ticked = "yes", ~colCrossed,
                    NEW c \in K!Collectors \ cut, made[c] # None,
                    ~(torn /\ c \in K!Parts)
             PROVE  /\ made[c].env /\ made[c].hash = admin /\ made[c].plain = None
                    /\ login[K!Group(c)] = admin
                    /\ made[c].due \/ made[c].run = admin
  BY DEF K!TickSettlesLogins
<1>1. /\ made[c] \in K!Templates /\ MadeOK(c) /\ LoginOK /\ accepted <= admin
      /\ login \in [{"agents", "stack"} -> K!Passwords] /\ admin \in Nat /\ accepted \in Nat
      /\ None \notin Nat
  BY DEF ColInv, ColState, Passes, K!CollectorsAssumption
<1>2. made[c].hash = admin /\ made[c].plain = None
  <2>1. CASE c \in K!Parts
    <3>1. made[c].hash = login["stack"] /\ login["stack"] # None
      BY <2>1 DEF ColInv, StackOK
    <3>2. login["stack"] = admin
      BY <3>1 DEF ColInv, TickOK
    <3>3. QED
      BY <1>1, <2>1, <3>1, <3>2 DEF MadeOK
  <2>2. CASE c \in Stacks
    BY <2>2 DEF ColInv, TickOK, Settled
  <2>3. QED
    BY <2>1, <2>2 DEF K!Collectors
<1>3. K!Group(c) \in {"agents", "stack"}
  BY DEF K!Group
<1>7. made[c].env
  <2>1. CASE c \in K!Parts
    BY <1>1, <2>1 DEF MadeOK
  <2>2. CASE c \in Stacks
    <3>1. \A r \in Requests : ~Mid(r, c)
      BY DEF ColInv, TickOK, K!Active, Mid
    <3>2. QED
      BY <1>2, <2>2, <3>1 DEF HalfInv, Half
  <2>3. QED
    BY <2>1, <2>2 DEF K!Collectors
<1>4. login[K!Group(c)] = admin
  BY <1>1, <1>2, <1>3, <1>7 DEF MadeOK, LoginOK, K!Passwords
<1>5. made[c].due \/ made[c].run = admin
  BY <1>1, <1>2, <1>7 DEF MadeOK, K!Templates, K!Passwords
<1>6. QED
  BY <1>2, <1>4, <1>5, <1>7

LEMMA ColIdleOK == K!CollectorsAssumption => K!Idle \in ColPasses /\ K!Idle.pc = "idle" /\ K!Idle.kind = None
  BY ZenonT(30) DEF K!CollectorsAssumption, K!Idle, ColPasses, ColPcs, K!Passwords

LEMMA InitColInv == K!CollectorsAssumption /\ K!Init => ColInv
<1> SUFFICES ASSUME K!CollectorsAssumption, K!Init PROVE ColInv
  OBVIOUS
<1>1. K!Idle \in ColPasses /\ K!Idle.pc = "idle" /\ K!Idle.kind = None
  BY ColIdleOK
<1>2. colPass = [r \in Requests |-> K!Idle]
  BY DEF K!Init
<1>3. PICK old \in SUBSET Stacks, stack \in BOOLEAN :
       /\ login = [agents |-> None, stack |-> IF stack THEN 0 ELSE None]
       /\ made = [c \in K!Collectors |->
            IF c \in old
            THEN [hash |-> None, env |-> FALSE, plain |-> 0, run |-> 0, due |-> FALSE]
            ELSE IF c \in K!Parts /\ stack
            THEN [hash |-> 0, env |-> TRUE, plain |-> None, run |-> 0, due |-> FALSE]
            ELSE None]
  BY DEF K!Init
<1>4. /\ admin = 0 /\ accepted = 0 /\ resets = 0
      /\ colCrossed = FALSE /\ torn = FALSE /\ ticked = "no"
  BY DEF K!Init
<1>5. login \in [{"agents", "stack"} -> K!Passwords]
  BY <1>3 DEF K!Passwords
<1>12. PICK old0, new0 \in K!Templates :
         /\ old0 = [hash |-> None, env |-> FALSE, plain |-> 0, run |-> 0, due |-> FALSE]
         /\ new0 = [hash |-> 0, env |-> TRUE, plain |-> None, run |-> 0, due |-> FALSE]
  BY DEF K!Templates, K!Passwords
<1>13. made = [c \in K!Collectors |->
                 IF c \in old THEN old0 ELSE IF c \in K!Parts /\ stack THEN new0 ELSE None]
  BY <1>3, <1>12, Zenon
<1>6. made \in [K!Collectors -> K!Templates \cup {None}]
  BY <1>12, <1>13
<1>14. /\ old0.hash = None /\ ~old0.env /\ old0.plain = 0 /\ old0.run = 0 /\ old0 # None
       /\ new0.hash = 0 /\ new0.env /\ new0.plain = None /\ new0.run = 0 /\ new0 # None
       /\ None \notin Nat
  BY <1>12 DEF K!CollectorsAssumption
<1>15. login["agents"] = None /\ login["stack"] = IF stack THEN 0 ELSE None
  BY <1>3
<1>7. LoginOK /\ StackOK
  BY <1>4, <1>13, <1>14, <1>15 DEF LoginOK, StackOK, K!Parts, K!Collectors, K!CollectorsAssumption
<1>8. ASSUME NEW c \in K!Collectors PROVE MadeOK(c)
  <2>1. CASE c \in old
    BY <1>4, <1>13, <1>14, <2>1 DEF MadeOK, K!CollectorsAssumption
  <2>2. CASE c \notin old /\ c \in K!Parts /\ stack
    BY <1>4, <1>13, <1>14, <1>15, <2>2 DEF MadeOK, K!Group
  <2>3. CASE c \notin old /\ ~(c \in K!Parts /\ stack)
    BY <1>13, <2>3 DEF MadeOK
  <2>4. QED
    BY <2>1, <2>2, <2>3
<1>9. ASSUME NEW r \in Requests PROVE ColPassOK(colPass[r])
  BY <1>1, <1>2 DEF ColPassOK, K!CollectorsAssumption, K!Parts
<1>10. Exclusive /\ TickOK
  BY <1>1, <1>2, <1>4 DEF Exclusive, TickOK
<1>11. QED
  <2>1. ColState /\ colPass \in [Requests -> ColPasses]
    BY <1>1, <1>2, <1>4, <1>5, <1>6 DEF ColState
  <2>2. Passes
    BY <1>4 DEF Passes
  <2>3. QED
    BY <1>7, <1>8, <1>9, <1>10, <2>1, <2>2, Zenon DEF ColInv

-----------------------------------------------------------------------------
(* The updates of a pass.                                                      *)

ColBecomes(x, q, pc, at, pw, want, plain, stale, otel) ==
  /\ x \in ColPasses
  /\ x.kind = q.kind /\ x.pc = pc /\ x.at = at /\ x.pw = pw /\ x.want = want
  /\ x.plain = plain /\ x.stale = stale /\ x.otel = otel

LEMMA ColPc ==
  ASSUME NEW q \in ColPasses, NEW pc \in ColPcs, NEW x, x = [q EXCEPT !.pc = pc]
  PROVE  ColBecomes(x, q, pc, q.at, q.pw, q.want, q.plain, q.stale, q.otel)
<1>1. [q EXCEPT !.pc = pc] \in ColPasses
  BY ZenonT(30) DEF ColPasses
<1>2. QED
  BY <1>1 DEF ColPasses, ColBecomes

LEMMA ColRead ==
  ASSUME NEW q \in ColPasses, NEW pc \in ColPcs, NEW w \in K!Passwords,
         NEW x, x = [q EXCEPT !.pc = pc, !.pw = w]
  PROVE  ColBecomes(x, q, pc, q.at, w, q.want, q.plain, q.stale, q.otel)
<1>1. [q EXCEPT !.pc = pc, !.pw = w] \in ColPasses
  BY ZenonT(30) DEF ColPasses
<1>2. QED
  BY <1>1 DEF ColPasses, ColBecomes

LEMMA ColWant ==
  ASSUME NEW q \in ColPasses, NEW pc \in ColPcs, NEW w \in K!Passwords,
         NEW x, x = [q EXCEPT !.pc = pc, !.want = w]
  PROVE  ColBecomes(x, q, pc, q.at, q.pw, w, q.plain, q.stale, q.otel)
<1>1. [q EXCEPT !.pc = pc, !.want = w] \in ColPasses
  BY ZenonT(30) DEF ColPasses
<1>2. QED
  BY <1>1 DEF ColPasses, ColBecomes

LEMMA ColAt ==
  ASSUME NEW q \in ColPasses, NEW pc \in ColPcs, NEW a \in Stacks,
         NEW x, x = [q EXCEPT !.pc = pc, !.at = a]
  PROVE  ColBecomes(x, q, pc, a, q.pw, q.want, q.plain, q.stale, q.otel)
<1>1. [q EXCEPT !.pc = pc, !.at = a] \in ColPasses
  BY ZenonT(30) DEF ColPasses
<1>2. QED
  BY <1>1 DEF ColPasses, ColBecomes

LEMMA ColPlain ==
  ASSUME NEW q \in ColPasses, NEW s \in SUBSET Stacks, NEW x, x = [q EXCEPT !.plain = s]
  PROVE  ColBecomes(x, q, q.pc, q.at, q.pw, q.want, s, q.stale, q.otel)
<1>1. [q EXCEPT !.plain = s] \in ColPasses
  BY ZenonT(30) DEF ColPasses
<1>2. QED
  BY <1>1 DEF ColPasses, ColBecomes

LEMMA ColStale ==
  ASSUME NEW q \in ColPasses, NEW s \in SUBSET Stacks, NEW pc \in ColPcs,
         NEW x, x = [q EXCEPT !.stale = s, !.pc = pc]
  PROVE  ColBecomes(x, q, pc, q.at, q.pw, q.want, q.plain, s, q.otel)
<1>1. [q EXCEPT !.stale = s, !.pc = pc] \in ColPasses
  BY ZenonT(30) DEF ColPasses
<1>2. QED
  BY <1>1 DEF ColPasses, ColBecomes

LEMMA ColLook ==
  ASSUME NEW q \in ColPasses, NEW w \in K!Passwords, NEW p \in SUBSET Stacks,
         NEW s \in SUBSET Stacks, NEW o \in BOOLEAN, NEW pc \in ColPcs,
         NEW x, x = [q EXCEPT !.want = w, !.plain = p, !.stale = s, !.otel = o, !.pc = pc]
  PROVE  ColBecomes(x, q, pc, q.at, q.pw, w, p, s, o)
<1>1. [q EXCEPT !.want = w, !.plain = p, !.stale = s, !.otel = o, !.pc = pc] \in ColPasses
  BY ZenonT(30) DEF ColPasses
<1>2. QED
  BY <1>1 DEF ColPasses, ColBecomes

\* What a tick does next.
LEMMA ColTurn ==
  ASSUME NEW q \in ColPasses, NEW x \in K!Turn(q)
  PROVE  \E pc \in ColPcs, at \in Stacks \cup {None} :
           /\ ColBecomes(x, q, pc, at, q.pw, q.want, q.plain, q.stale, q.otel)
           /\ pc \in {"creds", "secret", "stack", "end"}
           /\ pc = "creds" <=> q.plain # {}
           /\ pc = "creds" => at \in q.plain
           /\ pc = "secret" => q.stale # {}
           /\ pc \in {"stack", "end"} => q.stale = {}
           /\ pc = "stack" => q.otel
           /\ pc = "end" => ~q.otel
<1>1. /\ q.plain \in SUBSET Stacks /\ q.stale \in SUBSET Stacks /\ q.otel \in BOOLEAN
      /\ q.at \in Stacks \cup {None}
  BY DEF ColPasses
<1>2. CASE q.plain # {}
  <2>1. PICK c \in q.plain : x = [q EXCEPT !.pc = "creds", !.at = c]
    BY <1>2, Zenon DEF K!Turn
  <2>2. "creds" \in ColPcs /\ c \in Stacks
    BY <1>1, <2>1 DEF ColPcs
  <2>3. ColBecomes(x, q, "creds", c, q.pw, q.want, q.plain, q.stale, q.otel)
    BY <2>1, <2>2, ColAt, Zenon
  <2>4. QED
    BY <1>2, <2>1, <2>2, <2>3
<1>3. CASE q.plain = {}
  <2>1. PICK pc : /\ x = [q EXCEPT !.pc = pc]
                  /\ pc = IF q.stale # {} THEN "secret" ELSE IF q.otel THEN "stack" ELSE "end"
    BY <1>3, Zenon DEF K!Turn
  <2>2. pc \in ColPcs /\ pc \in {"secret", "stack", "end"}
    BY <2>1 DEF ColPcs
  <2>3. ColBecomes(x, q, pc, q.at, q.pw, q.want, q.plain, q.stale, q.otel)
    BY <2>1, <2>2, ColPc, Zenon
  <2>4. QED
    BY <1>1, <1>3, <2>1, <2>2, <2>3
<1>4. QED
  BY <1>2, <1>3

-----------------------------------------------------------------------------
(* The steps of a pass.  What a pass knows survives the steps of the passes that may  *)
(* run beside it: an install beside anything but a removal or rotation, one tick.     *)

Parallel(q) == q.kind \in {"tick", "install"}

LEMMA OthersOK ==
  ASSUME NEW q \in ColPasses, ColPassOK(q), q.pc # "idle" => Parallel(q), ColState, ColState',
         accepted' = accepted, login["agents"] # None => login'["agents"] # None,
         login["agents"] # None => login["agents"] <= login'["agents"],
         q.kind = "install" \/ login'["stack"] = login["stack"]
  PROVE  ColPassOK(q)'
<1>1. /\ None \notin Nat /\ q.pw \in K!Passwords /\ q.want \in K!Passwords
      /\ login["agents"] \in K!Passwords /\ login'["agents"] \in K!Passwords
  BY DEF ColPasses, ColState, K!CollectorsAssumption
<1>2. CASE q.pc = "idle"
  BY <1>2 DEF ColPassOK, K!Parts
<1>3. CASE q.kind = "install"
  BY <1>1, <1>3 DEF ColPassOK, K!Parts, K!Passwords
<1>4. CASE q.kind = "tick"
  BY <1>1, <1>4 DEF ColPassOK, K!Parts, K!Passwords, Asked
<1>5. QED
  BY <1>2, <1>3, <1>4 DEF Parallel

LEMMA TickMoves ==
  ASSUME ColInv, ~colCrossed, NEW r \in Requests, colPass[r].pc # "idle", NEW x,
         colPass' = [colPass EXCEPT ![r] = x], ticked' = ticked,
         x.pc # "idle" => x.kind = colPass[r].kind,
         ticked = "running" /\ x.pc # "idle" => x.pc = "look" \/ LeftTo(x)'
  PROVE  TickOK'
<1>1. r \in K!Active
  BY DEF K!Active
<1>2. \A s \in Requests : colPass'[s] = IF s = r THEN x ELSE colPass[s]
  BY DEF ColInv
<1>3. ticked # "yes"
  BY <1>1 DEF ColInv, TickOK
<1>4. CASE ticked = "running"
  <2>1. \A s \in Requests : s # r => colPass'[s].pc = "idle"
    BY <1>1, <1>2, <1>4 DEF ColInv, TickOK, K!Active
  <2>2. \A s \in Requests : s # r => s \notin K!Active'
    BY <2>1 DEF K!Active
  <2>3. colPass[r].kind = "tick" /\ colPass'[r] = x
    BY <1>1, <1>2, <1>4 DEF ColInv, TickOK
  <2>4. K!Active' \subseteq {r} /\ (r \in K!Active' => x.pc # "idle")
    BY <2>2, <2>3 DEF K!Active
  <2>5. QED
    BY <1>4, <2>3, <2>4 DEF TickOK
<1>5. QED
  BY <1>3, <1>4 DEF TickOK

\* A pass at work takes a step.
LEMMA ColMoves ==
  ASSUME ColInv, NEW r \in Requests, colPass[r].pc # "idle", NEW x \in ColPasses,
         colPass' = [colPass EXCEPT ![r] = x], ColState', Passes', accepted' = accepted,
         ~colCrossed' => ~colCrossed,
         ~colCrossed' =>
           /\ LoginOK' /\ StackOK' /\ \A c \in K!Collectors : MadeOK(c)'
           /\ ColPassOK(x)' /\ (x.pc # "idle" => x.kind = colPass[r].kind)
           /\ TickOK'
           /\ Parallel(colPass[r]) =>
                /\ login["agents"] # None => login'["agents"] # None
                /\ login["agents"] # None => login["agents"] <= login'["agents"]
                /\ colPass[r].kind = "tick" \/ login'["stack"] = login["stack"]
  PROVE  ColInv'
<1>1. \A s \in Requests : colPass'[s] = IF s = r THEN x ELSE colPass[s]
  BY DEF ColInv
<1>2. colPass' \in [Requests -> ColPasses]
  BY DEF ColInv
<1>3. ASSUME ~colCrossed', NEW s \in Requests, s # r PROVE ColPassOK(colPass[s])'
  <2>1. PICK q \in ColPasses : q = colPass[s] /\ colPass'[s] = q
    BY <1>1, <1>3 DEF ColInv
  <2>2. ColPassOK(q) /\ ~colCrossed
    BY <1>3, <2>1 DEF ColInv
  <2>3. q.pc # "idle" => /\ Parallel(q) /\ Parallel(colPass[r])
                         /\ ~(q.kind = "tick" /\ colPass[r].kind = "tick")
    <3>1. ASSUME q.pc # "idle"
          PROVE  /\ q.kind \notin {"remove", "rotate"}
                 /\ colPass[r].kind \notin {"remove", "rotate"}
                 /\ ~(q.kind = "tick" /\ colPass[r].kind = "tick")
      BY <1>3, <2>1, <2>2, <3>1 DEF ColInv, Exclusive
    <3>2. q.pc # "idle" => q.kind \in {"tick", "install", "remove", "rotate"}
      BY <2>2 DEF ColPassOK
    <3>3. colPass[r].kind \in {"tick", "install", "remove", "rotate"}
      BY <2>2 DEF ColInv, ColPassOK
    <3>4. QED
      BY <3>1, <3>2, <3>3 DEF Parallel
  <2>4. CASE q.pc = "idle"
    BY <2>1, <2>2, <2>4 DEF ColPassOK, K!Parts
  <2>5. CASE q.pc # "idle"
    <3>1. q.kind = "install" \/ login'["stack"] = login["stack"]
      BY <1>3, <2>3, <2>5 DEF Parallel
    <3>2. ColPassOK(q)'
      BY <1>3, <2>2, <2>3, <2>5, <3>1, OthersOK DEF ColInv
    <3>3. QED
      BY <2>1, <3>2
  <2>6. QED
    BY <2>4, <2>5
<1>4. ASSUME ~colCrossed' PROVE ColPassOK(colPass[r])'
  <2>1. ColPassOK(x)'
    BY <1>4
  <2>2. QED
    BY <1>1, <2>1
<1>5. ~colCrossed' => Exclusive'
  BY <1>1 DEF ColInv, Exclusive
<1>6. ~colCrossed' => \A s \in Requests : ColPassOK(colPass[s])'
  BY <1>3, <1>4
<1>7. QED
  BY <1>2, <1>5, <1>6 DEF ColInv

-----------------------------------------------------------------------------
(* The admin password, the pods, and the beginnings.                           *)

LEMMA PasswordColInv ==
  ASSUME ColInv, K!Reset \/ K!Job \/ K!Backstop PROVE ColInv'
<1>1. /\ UNCHANGED <<login, made, colPass, colCrossed, torn>> /\ ticked' = "no"
      /\ resets' \in Nat /\ admin' \in Nat /\ accepted' \in Nat /\ Passes'
      /\ accepted <= accepted' /\ accepted \in Nat
  BY DEF K!Reset, K!Job, K!Backstop, ColInv, ColState, Passes
<1>2. ColState' /\ colPass' \in [Requests -> ColPasses]
  BY <1>1 DEF ColInv, ColState
<1>3. ASSUME ~colCrossed PROVE LoginOK' /\ StackOK'
  BY <1>1, <1>3 DEF ColInv, ColState, LoginOK, StackOK, K!Passwords
<1>4. ASSUME ~colCrossed, NEW c \in K!Collectors PROVE MadeOK(c)'
  <2>1. made[c] # None => made[c].run \in K!Passwords /\ made[c].plain \in K!Passwords
    BY DEF ColInv, ColState, K!Templates
  <2>2. QED
    BY <1>1, <1>4, <2>1 DEF ColInv, ColState, MadeOK, K!Passwords
<1>5. ASSUME ~colCrossed, NEW r \in Requests PROVE ColPassOK(colPass[r])'
  <2>1. colPass[r].want \in K!Passwords /\ ColPassOK(colPass[r])
    BY <1>5 DEF ColInv, ColPasses
  <2>2. UNCHANGED <<login, colPass, K!Own>>
    BY <1>1 DEF K!Own
  <2>3. Asked(colPass[r]) => Asked(colPass[r])'
    BY <1>1, <2>1, <2>2 DEF Asked, K!Passwords
  <2>4. QED
    BY <2>1, <2>2, <2>3 DEF ColPassOK
<1>6. Exclusive => Exclusive'
  BY <1>1 DEF Exclusive
<1>7. TickOK'
  BY <1>1 DEF TickOK
<1>8. QED
  BY <1>1, <1>2, <1>3, <1>4, <1>5, <1>6, <1>7 DEF ColInv

LEMMA StartColInv ==
  ASSUME ColInv, NEW c \in K!Collectors, K!Start(c) PROVE ColInv'
<1>0. PICK pw : pw = IF made[c].env THEN login[K!Group(c)] ELSE made[c].plain
  OBVIOUS
<1>1. /\ made[c] # None /\ made[c].due /\ (made[c].env => login[K!Group(c)] # None)
      /\ made' = [made EXCEPT ![c] = [made[c] EXCEPT !.run = pw, !.due = FALSE]]
      /\ UNCHANGED <<admin, accepted, resets, login, colPass, colCrossed, torn, ticked>>
  BY <1>0, Zenon DEF K!Start
<1>2. K!Group(c) \in {"agents", "stack"} /\ pw \in K!Passwords
  BY <1>0, <1>1 DEF K!Group, ColInv, ColState, K!Templates
<1>3. PICK m \in K!Templates : m = made[c]
  BY <1>1 DEF ColInv, ColState
<1>4. PICK n : n = [m EXCEPT !.run = pw, !.due = FALSE] /\ made' = [made EXCEPT ![c] = n]
  BY <1>1, <1>3, Zenon
<1>5. /\ n \in K!Templates /\ n.hash = m.hash /\ n.plain = m.plain /\ n.run = pw /\ n.due = FALSE
      /\ n.env = m.env
  BY <1>2, <1>3, <1>4 DEF K!Templates
<1>6. n # None /\ \A d \in K!Collectors : made'[d] = IF d = c THEN n ELSE made[d]
  BY <1>4, <1>5 DEF ColInv, ColState, K!CollectorsAssumption
<1>7. ColState' /\ Passes' /\ colPass' \in [Requests -> ColPasses]
  BY <1>1, <1>4, <1>5 DEF ColInv, ColState, Passes
<1>8. \A d \in K!Collectors : /\ made'[d] # None <=> made[d] # None
                              /\ made[d] # None => /\ made'[d].hash = made[d].hash
                                                   /\ made'[d].plain = made[d].plain
  BY <1>1, <1>3, <1>5, <1>6
<1>9. ASSUME ~colCrossed PROVE LoginOK' /\ StackOK'
  BY <1>1, <1>8, <1>9 DEF ColInv, LoginOK, StackOK, K!Collectors
<1>10. ASSUME ~colCrossed, NEW d \in K!Collectors PROVE MadeOK(d)'
  <2>1. CASE d # c
    BY <1>1, <1>6, <1>10, <2>1 DEF ColInv, MadeOK
  <2>2. CASE d = c
    <3>1. MadeOK(c) /\ (pw # None => pw <= accepted) /\ (m.env => pw # None)
      BY <1>0, <1>1, <1>2, <1>3, <1>10 DEF ColInv, LoginOK, MadeOK
    <3>2. QED
      BY <1>0, <1>1, <1>3, <1>5, <1>6, <2>2, <3>1 DEF MadeOK
  <2>3. QED
    BY <2>1, <2>2
<1>11. UNCHANGED K!Own
  BY <1>8 DEF K!Own, K!Collectors
<1>12. ASSUME ~colCrossed, NEW r \in Requests PROVE ColPassOK(colPass[r])'
  BY <1>1, <1>11, <1>12 DEF ColInv, ColPassOK, Asked
<1>13. Exclusive => Exclusive'
  BY <1>1 DEF Exclusive
<1>14. \A q : LeftTo(q) => LeftTo(q)'
  BY <1>1, <1>8 DEF LeftTo, K!Collectors
<1>15. TickOK => TickOK'
  <2>1. \A d \in Stacks : Settled(d) => Settled(d)'
    BY <1>1, <1>8 DEF Settled, K!Collectors
  <2>2. UNCHANGED <<colPass, K!Active, ticked, login, admin>>
    BY <1>1 DEF K!Active
  <2>3. QED
    BY <1>14, <2>1, <2>2 DEF TickOK
<1>16. QED
  BY <1>1, <1>7, <1>9, <1>10, <1>12, <1>13, <1>15 DEF ColInv

LEMMA BeginColInv ==
  ASSUME ColInv, NEW r \in Requests,
         NEW k \in {"tick", "install", "remove", "rotate"}, NEW pc \in ColPcs,
         NEW a \in Stacks \cup {None}, K!Begin(r, k, pc, a),
         \/ k = "tick" /\ pc = "look" /\ \A q \in K!Active : colPass[q].kind # "tick"
         \/ k = "install" /\ pc = "creds" /\ a \in Stacks
         \/ k = "remove" /\ pc = "delete" /\ a \in Stacks
         \/ k = "rotate" /\ pc = "creds" /\ login["stack"] # None
  PROVE  ColInv'
<1>1. K!Idle \in ColPasses
  BY ColIdleOK DEF ColInv, ColState
<1>2. PICK x : x = [K!Idle EXCEPT !.kind = k, !.pc = pc, !.at = a] /\ colPass' = [colPass EXCEPT ![r] = x]
  BY Zenon DEF K!Begin, K!Set
<1>3. /\ x \in ColPasses /\ x.kind = k /\ x.pc = pc /\ x.at = a
  <2>1. PICK q \in ColPasses : q = K!Idle
    BY <1>1
  <2>2. x = [q EXCEPT !.kind = k, !.pc = pc, !.at = a]
    BY <1>2, <2>1, Zenon
  <2>3. QED
    <3>1. [q EXCEPT !.kind = k, !.pc = pc, !.at = a] \in ColPasses
      BY ZenonT(30) DEF ColPasses
    <3>2. QED
      BY <2>2, <3>1 DEF ColPasses
<1>4. /\ UNCHANGED <<admin, accepted, resets, login, made, torn>> /\ colPass[r].pc = "idle"
      /\ colCrossed' = (colCrossed \/
           \E q \in K!Active : {"remove", "rotate"} \cap {k, colPass[q].kind} # {})
      /\ ticked' = IF k = "tick" /\ K!Active = {} THEN "running" ELSE "no"
  BY DEF K!Begin
<1>5. colCrossed' \in BOOLEAN /\ (~colCrossed' => ~colCrossed)
  BY <1>4 DEF ColInv, ColState
<1>6. ~colCrossed' => \A q \in K!Active : k \notin {"remove", "rotate"}
                                          /\ colPass[q].kind \notin {"remove", "rotate"}
  BY <1>4
<1>7. \A s \in Requests : colPass'[s] = IF s = r THEN x ELSE colPass[s]
  BY <1>2 DEF ColInv
<1>8. ColState' /\ Passes' /\ colPass' \in [Requests -> ColPasses]
  BY <1>2, <1>3, <1>4, <1>5 DEF ColInv, ColState, Passes
<1>9. ASSUME ~colCrossed'
      PROVE  LoginOK' /\ StackOK' /\ \A c \in K!Collectors : MadeOK(c)'
  BY <1>4, <1>5, <1>9 DEF ColInv, LoginOK, StackOK, MadeOK
<1>10. UNCHANGED K!Own
  BY <1>4 DEF K!Own
<1>11. ASSUME ~colCrossed', NEW s \in Requests PROVE ColPassOK(colPass[s])'
  <2>1. CASE s # r
    BY <1>4, <1>5, <1>7, <1>10, <1>11, <2>1 DEF ColInv, ColPassOK, Asked
  <2>2. ColPassOK(x)'
    BY <1>3, <1>4 DEF ColPassOK, K!Parts
  <2>3. CASE s = r
    BY <1>7, <2>2, <2>3
  <2>4. QED
    BY <2>1, <2>3
<1>12. ASSUME ~colCrossed' PROVE Exclusive'
  <2>1. \A s \in Requests : s # r /\ colPass'[s].pc # "idle" => s \in K!Active /\ colPass'[s] = colPass[s]
    BY <1>7 DEF K!Active
  <2>2. \A s \in K!Active : /\ k \notin {"remove", "rotate"}
                            /\ colPass[s].kind \notin {"remove", "rotate"}
                            /\ k = "tick" => colPass[s].kind # "tick"
    BY <1>6, <1>12
  <2>3. colPass'[r].kind = k
    BY <1>3, <1>7
  <2>4. Exclusive
    BY <1>5, <1>12 DEF ColInv
  <2>5. QED
    BY <1>7, <2>1, <2>2, <2>3, <2>4 DEF Exclusive, K!Active
<1>13. TickOK'
  <2>1. CASE k = "tick" /\ K!Active = {}
    <3>1. \A s \in K!Active' : s = r
      BY <1>7, <2>1 DEF K!Active
    <3>2. QED
      BY <1>3, <1>4, <1>7, <2>1, <3>1 DEF TickOK
  <2>2. CASE ~(k = "tick" /\ K!Active = {})
    BY <1>4, <2>2 DEF TickOK
  <2>3. QED
    BY <2>1, <2>2
<1>14. QED
  BY <1>8, <1>9, <1>11, <1>12, <1>13 DEF ColInv

LEMMA BeginsColInv ==
  ASSUME ColInv, NEW r \in Requests,
         K!BeginTick(r) \/ K!BeginInstall(r) \/ K!BeginRemove(r) \/ K!BeginRotate(r)
           \/ K!BeginRepair(r)
  PROVE  ColInv'
<1>1. {"look", "creds", "delete"} \subseteq ColPcs
  BY DEF ColPcs
<1>2. CASE K!BeginTick(r)
  BY <1>1, <1>2, BeginColInv DEF K!BeginTick
<1>3. CASE K!BeginInstall(r)
  BY <1>1, <1>3, BeginColInv DEF K!BeginInstall
<1>4. CASE K!BeginRemove(r)
  BY <1>1, <1>4, BeginColInv DEF K!BeginRemove
<1>5. CASE K!BeginRotate(r)
  BY <1>1, <1>5, BeginColInv DEF K!BeginRotate, K!Installed
<1>6. CASE K!BeginRepair(r)
  BY <1>1, <1>6, BeginColInv DEF K!BeginRepair, K!Own
<1>7. QED
  BY <1>2, <1>3, <1>4, <1>5, <1>6

-----------------------------------------------------------------------------
(* The steps of a pass, one by one.                                            *)

LEMMA Running ==
  ASSUME ColInv, ~colCrossed, ticked = "running", NEW r \in Requests, NEW q,
         q = colPass[r], q.pc # "idle"
  PROVE  q.kind = "tick" /\ (q.pc # "look" => LeftTo(q))
BY DEF ColInv, TickOK, K!Active

\* A step that reads and decides.
LEMMA ColThinks ==
  ASSUME ColInv, NEW r \in Requests, colPass[r].pc # "idle", NEW x \in ColPasses,
         colPass' = [colPass EXCEPT ![r] = x],
         UNCHANGED <<admin, accepted, resets, login, made, colCrossed, torn, ticked>>,
         ~colCrossed =>
           /\ ColPassOK(x) /\ (x.pc # "idle" => x.kind = colPass[r].kind)
           /\ ticked = "running" /\ x.pc # "idle" => LeftTo(x)
  PROVE  ColInv'
<1>1. ColState' /\ Passes'
  BY DEF ColInv, ColState, Passes
<1>2. UNCHANGED K!Own
  BY DEF K!Own
<1>3. ASSUME ~colCrossed
      PROVE  LoginOK' /\ StackOK' /\ \A c \in K!Collectors : MadeOK(c)'
  BY <1>3 DEF ColInv, LoginOK, StackOK, MadeOK
<1>4. ASSUME ~colCrossed PROVE ColPassOK(x)'
  BY <1>2, <1>4 DEF ColPassOK, Asked
<1>5. ASSUME ~colCrossed PROVE TickOK'
  <2>1. LeftTo(x) => LeftTo(x)'
    BY DEF LeftTo
  <2>2. QED
    BY <1>5, <2>1, TickMoves
<1>6. login["agents"] # None => login["agents"] <= login'["agents"]
  BY DEF ColInv, ColState, K!Passwords
<1>7. QED
  BY <1>1, <1>3, <1>4, <1>5, <1>6, ColMoves

LEMMA OverOK ==
  ASSUME ColState PROVE K!Idle \in ColPasses /\ K!Idle.pc = "idle" /\ ColPassOK(K!Idle)
BY ColIdleOK DEF ColState, ColPassOK, K!Parts, K!CollectorsAssumption

LEMMA ReadsColInv ==
  ASSUME ColInv, NEW r \in Requests, K!ReadCreds(r) \/ K!Last(r) \/ K!Ends(r) PROVE ColInv'
<1>1. PICK me \in ColPasses : me = colPass[r]
  BY DEF ColInv
<1>2. ~colCrossed => ColPassOK(me)
  BY <1>1 DEF ColInv
<1>3. /\ UNCHANGED <<admin, accepted, resets, login, made, colCrossed, torn, ticked>>
      /\ me.pc # "idle"
  BY <1>1 DEF K!ReadCreds, K!Last, K!Ends, K!Active
<1>4. CASE K!Over(r)
  <2>1. PICK x \in ColPasses : x = K!Idle /\ x.pc = "idle" /\ ColPassOK(x)
    BY OverOK DEF ColInv
  <2>2. colPass' = [colPass EXCEPT ![r] = x]
    BY <1>4, <2>1 DEF K!Over, K!Set
  <2>3. QED
    BY <1>1, <1>3, <2>1, <2>2, ColThinks
<1>5. CASE K!ReadCreds(r)
  <2>1. PICK x : x = [me EXCEPT !.pc = "login", !.pw = admin] /\ colPass' = [colPass EXCEPT ![r] = x]
    BY <1>1, <1>5, Zenon DEF K!ReadCreds, K!Set
  <2>2. "login" \in ColPcs /\ admin \in K!Passwords /\ admin # None
    BY DEF ColPcs, ColInv, ColState, K!Passwords, K!CollectorsAssumption
  <2>3. ColBecomes(x, me, "login", me.at, admin, me.want, me.plain, me.stale, me.otel)
    BY <2>1, <2>2, ColRead, Zenon
  <2>4. me.pc = "creds"
    BY <1>1, <1>5 DEF K!ReadCreds
  <2>5. ASSUME ~colCrossed PROVE ColPassOK(x)
    BY <1>2, <2>2, <2>3, <2>4, <2>5 DEF ColPassOK, ColBecomes, Asked, K!Parts
  <2>6. ASSUME ~colCrossed, ticked = "running" PROVE LeftTo(x)
    <3>1. LeftTo(me)
      BY <1>1, <2>4, <2>6, Running
    <3>2. QED
      BY <2>3, <2>4, <3>1 DEF LeftTo, ColBecomes
  <2>7. QED
    BY <1>1, <1>3, <2>1, <2>3, <2>5, <2>6, ColThinks DEF ColBecomes
<1>6. CASE K!Last(r) /\ K!Own = {}
  <2>1. PICK x : x = [me EXCEPT !.pc = "drop"] /\ colPass' = [colPass EXCEPT ![r] = x]
    BY <1>1, <1>6, Zenon DEF K!Last, K!Set
  <2>2. "drop" \in ColPcs
    BY DEF ColPcs
  <2>3. ColBecomes(x, me, "drop", me.at, me.pw, me.want, me.plain, me.stale, me.otel)
    BY <2>1, <2>2, ColPc, Zenon
  <2>4. me.pc = "last"
    BY <1>1, <1>6 DEF K!Last
  <2>5. ASSUME ~colCrossed PROVE ColPassOK(x) /\ me.kind = "remove"
    BY <1>2, <1>6, <2>3, <2>4, <2>5 DEF ColPassOK, ColBecomes, Asked, K!Parts
  <2>6. ~(~colCrossed /\ ticked = "running")
    BY <1>1, <2>4, <2>5, Running
  <2>7. QED
    BY <1>1, <1>3, <2>1, <2>3, <2>5, <2>6, ColThinks DEF ColBecomes
<1>7. QED
  BY <1>4, <1>5, <1>6, Zenon DEF K!Last, K!Ends

LEMMA LookColInv == ASSUME ColInv, NEW r \in Requests, K!Look(r) PROVE ColInv'
<1>1. PICK me \in ColPasses : me = colPass[r]
  BY DEF ColInv
<1>2. me.pc = "look" /\ (~colCrossed => ColPassOK(me))
  BY <1>1 DEF ColInv, K!Look
<1> DEFINE Plain == {c \in K!Own : made[c].plain # None}
           Behind == {c \in K!Own \ Plain : K!Stale(c, admin)}
<1>3. PICK p \in SUBSET Stacks, s \in SUBSET Stacks, w \in K!Passwords :
        p = Plain /\ s = Behind /\ w = admin
  BY DEF K!Own, ColInv, ColState, K!Passwords
<1>4. PICK o \in BOOLEAN : o = (login["stack"] \notin {None, admin})
  OBVIOUS
<1>5. PICK pc \in {"end", "probe"} :
        pc = IF p = {} /\ s = {} /\ ~o THEN "end" ELSE "probe"
  OBVIOUS
<1>6. PICK x : /\ x = [me EXCEPT !.want = w, !.plain = p, !.stale = s, !.otel = o, !.pc = pc]
               /\ colPass' = [colPass EXCEPT ![r] = x]
  BY <1>1, <1>3, <1>4, <1>5, Zenon DEF K!Look, K!Set
<1>7. pc \in ColPcs
  BY DEF ColPcs
<1>8. ColBecomes(x, me, pc, me.at, me.pw, w, p, s, o)
  BY <1>6, <1>7, ColLook, Zenon
<1>9. /\ w # None /\ (o => login["stack"] # None)
      /\ UNCHANGED <<admin, accepted, resets, login, made, colCrossed, torn, ticked>>
  BY <1>3, <1>4 DEF K!Look, ColInv, ColState, K!CollectorsAssumption
<1>10. ASSUME ~colCrossed PROVE ColPassOK(x)
  BY <1>2, <1>8, <1>9, <1>10 DEF ColPassOK, ColBecomes, K!Parts
<1>11. LeftTo(x)
  <2>1. \A c \in Stacks : made[c] # None =>
          /\ made[c].plain # None => c \in p
          /\ made[c].plain = None /\ made[c].hash # admin => c \in s
    BY <1>3 DEF K!Own, K!Stale
  <2>2. QED
    BY <1>3, <1>4, <1>5, <1>8, <2>1 DEF LeftTo, ColBecomes
<1>12. QED
  BY <1>1, <1>2, <1>6, <1>8, <1>9, <1>10, <1>11, ColThinks DEF ColBecomes

\* What a tick of its own kind has left after it turned to the next.
LEMMA TurnOK ==
  ASSUME NEW q \in ColPasses, NEW x \in K!Turn(q), ColState, q.kind = "tick", Asked(q),
         q.otel => login["stack"] # None
  PROVE  x \in ColPasses /\ ColPassOK(x) /\ x.kind = q.kind
<1>1. PICK pc \in ColPcs, at \in Stacks \cup {None} :
           /\ ColBecomes(x, q, pc, at, q.pw, q.want, q.plain, q.stale, q.otel)
           /\ pc \in {"creds", "secret", "stack", "end"}
           /\ pc = "creds" => at \in q.plain
           /\ pc = "stack" => q.otel
  BY ColTurn, Zenon
<1>2. q.plain \subseteq Stacks
  BY DEF ColPasses
<1>3. QED
  BY <1>1, <1>2 DEF ColBecomes, ColPassOK, Asked, K!Parts

LEMMA TurnLeft ==
  ASSUME NEW q \in ColPasses, NEW x \in K!Turn(q), NEW w,
         q.want = w,
         \A c \in Stacks : made[c] # None =>
           /\ made[c].plain # None => c \in q.plain
           /\ made[c].plain = None /\ made[c].hash # w => c \in q.stale,
         ~q.otel => login["stack"] \in {None, w}, w = admin
  PROVE  LeftTo(x)
<1>1. PICK pc \in ColPcs, at \in Stacks \cup {None} :
           /\ ColBecomes(x, q, pc, at, q.pw, q.want, q.plain, q.stale, q.otel)
           /\ pc \in {"creds", "secret", "stack", "end"}
           /\ pc = "creds" <=> q.plain # {}
           /\ pc \in {"stack", "end"} => q.stale = {}
           /\ pc = "end" => ~q.otel
  BY ColTurn, Zenon
<1>2. QED
  BY <1>1 DEF ColBecomes, LeftTo

LEMMA ProbeColInv == ASSUME ColInv, NEW r \in Requests, K!Probe(r) PROVE ColInv'
<1>1. PICK me \in ColPasses : me = colPass[r]
  BY DEF ColInv
<1>2. /\ me.pc = "probe" /\ (~colCrossed => ColPassOK(me))
      /\ UNCHANGED <<admin, accepted, resets, login, made, colCrossed, torn, ticked>>
  BY <1>1 DEF ColInv, K!Probe
<1>3. CASE me.want = accepted
  <2>1. PICK x \in K!Turn(me) : colPass' = [colPass EXCEPT ![r] = x]
    BY <1>1, <1>3, Zenon DEF K!Probe, K!Set
  <2>2. PICK pc \in ColPcs, at \in Stacks \cup {None} :
          ColBecomes(x, me, pc, at, me.pw, me.want, me.plain, me.stale, me.otel)
    BY <2>1, ColTurn, Zenon
  <2>3. x \in ColPasses /\ x.kind = me.kind
    BY <2>2 DEF ColBecomes
  <2>4. ASSUME ~colCrossed PROVE ColPassOK(x)
    <3>1. me.kind = "tick" /\ (me.otel => login["stack"] # None)
      BY <1>2, <2>4 DEF ColPassOK, K!Parts
    <3>2. Asked(me)
      BY <1>2, <1>3, <2>4, <3>1
      DEF ColPassOK, Asked, ColInv, LoginOK, ColState, K!Passwords
    <3>3. ColState
      BY DEF ColInv
    <3>4. QED
      BY <2>1, <3>1, <3>2, <3>3, TurnOK, Zenon
  <2>5. ASSUME ~colCrossed, ticked = "running" PROVE LeftTo(x)
    <3>1. LeftTo(me)
      BY <1>1, <1>2, <2>5, Running
    <3>2. QED
      BY <1>2, <2>1, <3>1, TurnLeft DEF LeftTo
  <2>6. QED
    BY <1>1, <1>2, <2>1, <2>3, <2>4, <2>5, ColThinks
<1>4. CASE me.want # accepted
  <2>1. PICK x \in ColPasses : x = K!Idle /\ x.pc = "idle" /\ ColPassOK(x)
    BY OverOK DEF ColInv
  <2>2. colPass' = [colPass EXCEPT ![r] = x]
    BY <1>1, <1>4, <2>1 DEF K!Probe, K!Over, K!Set
  <2>3. QED
    BY <1>1, <1>2, <2>1, <2>2, ColThinks
<1>5. QED
  BY <1>3, <1>4

-----------------------------------------------------------------------------
(* The steps that write a login.                                               *)

\* A later login leaves every hash behind it.
LEMMA LoginGrows ==
  ASSUME ColInv, ~colCrossed, NEW g \in {"agents", "stack"}, NEW w \in K!Passwords,
         w # None, w <= accepted, login[g] # None => login[g] <= w,
         torn => torn', g = "stack" => login[g] # None /\ torn',
         login' = [login EXCEPT ![g] = w], UNCHANGED <<accepted, made>>
  PROVE  /\ login' \in [{"agents", "stack"} -> K!Passwords] /\ LoginOK' /\ StackOK'
         /\ \A c \in K!Collectors : MadeOK(c)'
         /\ \A h \in {"agents", "stack"} : login'[h] = IF h = g THEN w ELSE login[h]
<1>1. /\ login \in [{"agents", "stack"} -> K!Passwords] /\ LoginOK /\ StackOK
      /\ accepted \in Nat /\ None \notin Nat
  BY DEF ColInv, ColState, K!CollectorsAssumption
<1>2. login' \in [{"agents", "stack"} -> K!Passwords]
  BY <1>1
<1>3. \A h \in {"agents", "stack"} : login'[h] = IF h = g THEN w ELSE login[h]
  BY <1>1
<1>4. LoginOK'
  BY <1>1, <1>3 DEF LoginOK
<1>5. StackOK'
  BY <1>1, <1>3 DEF StackOK, K!Parts
<1>6. ASSUME NEW c \in K!Collectors PROVE MadeOK(c)'
  <2>1. K!Group(c) \in {"agents", "stack"} /\ UNCHANGED K!Group(c)
    BY DEF K!Group
  <2>2. made[c] # None => made[c].hash \in K!Passwords
    BY DEF ColInv, ColState, K!Templates
  <2>3. QED
    BY <1>1, <1>3, <2>1, <2>2 DEF ColInv, MadeOK, K!Passwords
<1>7. QED
  BY <1>2, <1>3, <1>4, <1>5, <1>6

LEMMA WriteLoginColInv == ASSUME ColInv, NEW r \in Requests, K!WriteLogin(r) PROVE ColInv'
<1>1. PICK me \in ColPasses : me = colPass[r]
  BY DEF ColInv
<1>2. /\ me.pc = "login" /\ (~colCrossed => ColPassOK(me))
      /\ UNCHANGED <<admin, accepted, resets, made, ticked>>
      /\ torn' = (torn \/ me.kind = "rotate")
      /\ colCrossed' = (colCrossed \/ me.pw # accepted)
  BY <1>1 DEF ColInv, K!WriteLogin
<1>3. me.pw \in K!Passwords /\ me.want \in K!Passwords /\ me.at \in Stacks \cup {None}
  BY DEF ColPasses
<1>4. PICK g \in {"agents", "stack"} : g = IF me.kind = "rotate" THEN "stack" ELSE "agents"
  OBVIOUS
<1>5. login' = [login EXCEPT ![g] = me.pw]
  BY <1>1, <1>4, Zenon DEF K!WriteLogin
<1>6. PICK pc \in {"exporter", "config"}, w \in K!Passwords :
        /\ pc = IF me.kind = "rotate" THEN "exporter" ELSE "config"
        /\ w = IF me.kind = "rotate" THEN me.pw ELSE me.want
  BY <1>3
<1>7. PICK x : /\ x = [me EXCEPT !.pc = pc, !.want = w]
               /\ colPass' = [colPass EXCEPT ![r] = x]
  BY <1>1, <1>6, Zenon DEF K!WriteLogin, K!Set
<1>8. pc \in ColPcs
  BY DEF ColPcs
<1>9. ColBecomes(x, me, pc, me.at, me.pw, w, me.plain, me.stale, me.otel)
  BY <1>7, <1>8, ColWant, Zenon
<1>10. ColState' /\ Passes' /\ (~colCrossed' => ~colCrossed /\ me.pw = accepted)
  BY <1>2, <1>3, <1>5 DEF ColInv, ColState, Passes
<1>11. ASSUME ~colCrossed'
       PROVE  /\ LoginOK' /\ StackOK' /\ \A c \in K!Collectors : MadeOK(c)'
              /\ \A h \in {"agents", "stack"} : login'[h] = IF h = g THEN me.pw ELSE login[h]
              /\ login[g] # None => login[g] <= me.pw
  <2>1. ~colCrossed /\ me.pw = accepted /\ me.pw # None
    BY <1>2, <1>10, <1>11 DEF ColPassOK
  <2>2. me.pw <= accepted /\ (login[g] # None => login[g] <= me.pw)
    BY <2>1 DEF ColInv, ColState, LoginOK
  <2>3. g = "stack" => login[g] # None /\ torn'
    BY <1>2, <1>4, <2>1 DEF ColPassOK
  <2>4. QED
    BY <1>2, <1>3, <1>5, <2>1, <2>2, <2>3, LoginGrows
<1>12. ASSUME ~colCrossed' PROVE ColPassOK(x)'
  <2>1. ColPassOK(me) /\ me.pw = accepted /\ me.pw # None /\ accepted \in Nat
    BY <1>2, <1>10, <1>12 DEF ColPassOK, ColInv, ColState
  <2>2. CASE me.kind = "rotate"
    BY <1>2, <1>4, <1>6, <1>9, <1>11, <1>12, <2>1, <2>2
    DEF ColPassOK, ColBecomes, K!Parts
  <2>3. CASE me.kind # "rotate"
    <3>1. login'["stack"] = login["stack"] /\ login'["agents"] = me.pw
      BY <1>4, <1>11, <1>12, <2>3
    <3>2. QED
      BY <1>2, <1>6, <1>9, <2>1, <2>3, <3>1 DEF ColPassOK, ColBecomes, Asked, K!Parts
  <2>4. QED
    BY <2>2, <2>3
<1>13. ASSUME ~colCrossed' PROVE TickOK'
  <2>1. ASSUME ticked = "running" PROVE LeftTo(x)'
    <3>1. LeftTo(me) /\ me.kind = "tick"
      BY <1>1, <1>2, <1>10, <1>13, <2>1, Running
    <3>2. login'["stack"] = login["stack"]
      BY <1>4, <1>11, <1>13, <3>1
    <3>3. QED
      BY <1>2, <1>6, <1>9, <3>1, <3>2 DEF LeftTo, ColBecomes
  <2>2. QED
    BY <1>1, <1>2, <1>7, <1>9, <1>10, <1>13, <2>1, TickMoves DEF ColBecomes
<1>14. ASSUME ~colCrossed', Parallel(me)
       PROVE  /\ login["agents"] # None => login'["agents"] # None
              /\ login["agents"] # None => login["agents"] <= login'["agents"]
              /\ login'["stack"] = login["stack"]
  <2>1. g = "agents" /\ me.pw # None
    BY <1>2, <1>4, <1>10, <1>14 DEF Parallel, ColPassOK
  <2>2. QED
    BY <1>11, <1>14, <2>1
<1>15. QED
  <2>1. x \in ColPasses /\ x.kind = me.kind
    BY <1>9 DEF ColBecomes
  <2>2. QED
    BY <1>1, <1>2, <1>7, <1>10, <1>11, <1>12, <1>13, <1>14, <2>1, ColMoves

LEMMA SecretColInv == ASSUME ColInv, NEW r \in Requests, K!Secret(r) PROVE ColInv'
<1>1. PICK me \in ColPasses : me = colPass[r]
  BY DEF ColInv
<1>2. /\ me.pc = "secret" /\ (~colCrossed => ColPassOK(me))
      /\ UNCHANGED <<admin, accepted, resets, made, torn, ticked>>
      /\ colCrossed' = (colCrossed \/ me.want # accepted)
      /\ login' = [login EXCEPT !["agents"] = me.want] /\ me.want \in K!Passwords
  BY <1>1 DEF ColInv, K!Secret, ColPasses
<1>3. PICK x : x = [me EXCEPT !.pc = "stamp"] /\ colPass' = [colPass EXCEPT ![r] = x]
  BY <1>1, Zenon DEF K!Secret, K!Set
<1>4. "stamp" \in ColPcs
  BY DEF ColPcs
<1>5. ColBecomes(x, me, "stamp", me.at, me.pw, me.want, me.plain, me.stale, me.otel)
  BY <1>3, <1>4, ColPc, Zenon
<1>6. ColState' /\ Passes' /\ (~colCrossed' => ~colCrossed /\ me.want = accepted)
  BY <1>2 DEF ColInv, ColState, Passes
<1>7. ASSUME ~colCrossed'
      PROVE  /\ me.kind = "tick" /\ Asked(me) /\ me.want = accepted
             /\ login["agents"] # None => login["agents"] <= me.want
             /\ LoginOK' /\ StackOK' /\ \A c \in K!Collectors : MadeOK(c)'
             /\ login'["agents"] = me.want /\ login'["stack"] = login["stack"]
  <2>1. me.kind = "tick"
    BY <1>2, <1>6, <1>7 DEF ColPassOK, K!Parts
  <2>2. Asked(me)
    BY <1>2, <1>6, <1>7, <2>1 DEF ColPassOK
  <2>3. login["agents"] # None => login["agents"] <= me.want
    BY <1>6, <1>7 DEF ColInv, LoginOK
  <2>4. /\ LoginOK' /\ StackOK' /\ \A c \in K!Collectors : MadeOK(c)'
        /\ \A h \in {"agents", "stack"} : login'[h] = IF h = "agents" THEN me.want ELSE login[h]
    BY <1>2, <1>6, <1>7, <2>2, <2>3, LoginGrows DEF Asked
  <2>5. QED
    BY <1>6, <1>7, <2>1, <2>2, <2>3, <2>4
<1>8. ASSUME ~colCrossed' PROVE ColPassOK(x)'
  <2>1. me.want <= login'["agents"] /\ login'["agents"] # None
    BY <1>7, <1>8 DEF Asked, ColInv, ColState
  <2>2. QED
    BY <1>2, <1>5, <1>6, <1>7, <1>8, <2>1 DEF ColPassOK, ColBecomes, Asked, K!Parts
<1>9. ASSUME ~colCrossed' PROVE TickOK'
  <2>1. ASSUME ticked = "running" PROVE LeftTo(x)'
    <3>1. LeftTo(me)
      BY <1>1, <1>2, <1>6, <1>9, <2>1, Running
    <3>2. QED
      BY <1>2, <1>5, <1>7, <1>9, <3>1 DEF LeftTo, ColBecomes
  <2>2. QED
    BY <1>1, <1>2, <1>3, <1>5, <1>6, <1>9, <2>1, TickMoves DEF ColBecomes
<1>10. QED
  <2>1. x \in ColPasses /\ x.kind = me.kind
    BY <1>5 DEF ColBecomes
  <2>2. ~colCrossed' => me.want # None
    BY <1>7 DEF Asked
  <2>3. QED
    BY <1>1, <1>2, <1>3, <1>6, <1>7, <1>8, <1>9, <2>1, <2>2, ColMoves

LEMMA SyncSecretColInv == ASSUME ColInv, NEW r \in Requests, K!SyncSecret(r) PROVE ColInv'
<1>1. PICK me \in ColPasses : me = colPass[r]
  BY DEF ColInv
<1>2. /\ me.pc = "stack" /\ (~colCrossed => ColPassOK(me))
      /\ UNCHANGED <<admin, accepted, resets, made, colCrossed, ticked>> /\ torn' = TRUE
      /\ login' = [login EXCEPT !["stack"] = me.want] /\ me.want \in K!Passwords
  BY <1>1 DEF ColInv, K!SyncSecret, ColPasses
<1>3. PICK x : x = [me EXCEPT !.pc = "exporter"] /\ colPass' = [colPass EXCEPT ![r] = x]
  BY <1>1, Zenon DEF K!SyncSecret, K!Set
<1>4. "exporter" \in ColPcs
  BY DEF ColPcs
<1>5. ColBecomes(x, me, "exporter", me.at, me.pw, me.want, me.plain, me.stale, me.otel)
  BY <1>3, <1>4, ColPc, Zenon
<1>6. ColState' /\ Passes' /\ (colCrossed' => colCrossed)
  BY <1>2 DEF ColInv, ColState, Passes
<1>7. ASSUME ~colCrossed
      PROVE  /\ me.kind = "tick" /\ Asked(me) /\ me.otel /\ login["stack"] # None
             /\ LoginOK' /\ StackOK' /\ \A c \in K!Collectors : MadeOK(c)'
             /\ login'["stack"] = me.want /\ login'["agents"] = login["agents"]
  <2>1. me.kind = "tick" /\ me.otel
    BY <1>2, <1>7 DEF ColPassOK, K!Parts
  <2>2. Asked(me) /\ login["stack"] # None
    BY <1>2, <1>7, <2>1 DEF ColPassOK
  <2>4. /\ LoginOK' /\ StackOK' /\ \A c \in K!Collectors : MadeOK(c)'
        /\ \A h \in {"agents", "stack"} : login'[h] = IF h = "stack" THEN me.want ELSE login[h]
    BY <1>2, <1>7, <2>2, LoginGrows DEF Asked
  <2>5. QED
    BY <2>1, <2>2, <2>4
<1>8. ASSUME ~colCrossed PROVE ColPassOK(x)'
  <2>1. Asked(me)'
    BY <1>2, <1>7, <1>8 DEF Asked, ColInv, ColState, K!Passwords
  <2>2. QED
    BY <1>2, <1>5, <1>7, <1>8, <2>1 DEF ColPassOK, ColBecomes, Asked, K!Parts
<1>9. ASSUME ~colCrossed PROVE TickOK'
  <2>1. ASSUME ticked = "running" PROVE LeftTo(x)'
    <3>1. LeftTo(me)
      BY <1>1, <1>2, <1>9, <2>1, Running
    <3>2. QED
      BY <1>2, <1>5, <1>7, <1>9, <3>1 DEF LeftTo, ColBecomes
  <2>2. QED
    BY <1>1, <1>2, <1>3, <1>5, <1>9, <2>1, TickMoves DEF ColBecomes
<1>10. login["agents"] # None => login["agents"] <= login["agents"]
  BY DEF ColInv, ColState, K!Passwords
<1>11. QED
  <2>1. x \in ColPasses /\ x.kind = me.kind
    BY <1>5 DEF ColBecomes
  <2>2. QED
    BY <1>1, <1>2, <1>3, <1>6, <1>7, <1>8, <1>9, <1>10, <2>1, ColMoves

-----------------------------------------------------------------------------
(* The steps that change a collector.                                          *)

LEMMA AppliedIs ==
  ASSUME ColState, NEW c \in K!Collectors, NEW w \in K!Passwords
  PROVE  \E n \in K!Templates :
           /\ n = K!Applied(c, w) /\ n # None /\ n.hash = w /\ n.env
           /\ \/ made[c] # None /\ n = made[c]
              \/ made[c] # None /\ n.plain = None /\ n.due /\ n.run = made[c].run
              \/ made[c] = None /\ n.plain = None /\ n.due /\ n.run = None
<1>1. made[c] \in K!Templates \cup {None} /\ None \notin K!Templates /\ None \in K!Passwords
  BY DEF ColState, K!CollectorsAssumption, K!Passwords
<1>2. PICK run \in K!Passwords : run = IF made[c] = None THEN None ELSE made[c].run
  BY <1>1 DEF K!Templates
<1>3. PICK n \in K!Templates : n = [hash |-> w, env |-> TRUE, plain |-> None, due |-> TRUE, run |-> run]
  BY <1>1 DEF K!Templates
<1>4. CASE made[c] # None /\ made[c].env /\ made[c].hash = w
  <2>1. PICK m \in K!Templates : m = made[c]
    BY <1>1, <1>4
  <2>2. K!Applied(c, w) = m
    BY <1>4, <2>1, Zenon DEF K!Applied
  <2>3. m # None /\ m.hash = w /\ m.env
    BY <1>1, <1>4, <2>1
  <2>4. QED
    BY <1>4, <2>1, <2>2, <2>3, Zenon
<1>5. CASE ~(made[c] # None /\ made[c].env /\ made[c].hash = w)
  <2>1. K!Applied(c, w) = n
    BY <1>2, <1>3, <1>5, Zenon DEF K!Applied
  <2>2. n.hash = w /\ n.env /\ n.plain = None /\ n.due /\ n.run = run /\ n # None
    BY <1>1, <1>3
  <2>3. CASE made[c] = None
    BY <1>2, <2>1, <2>2, <2>3, Zenon
  <2>4. CASE made[c] # None
    BY <1>2, <2>1, <2>2, <2>4, Zenon
  <2>5. QED
    BY <2>3, <2>4
<1>6. QED
  BY <1>4, <1>5

\* A collector is applied, marked, or loses the password in its ConfigMap.
LEMMA MadeGrows ==
  ASSUME ColInv, ~colCrossed, NEW c \in K!Collectors, NEW n \in K!Templates, n # None,
         made' = [made EXCEPT ![c] = n], UNCHANGED <<accepted, login>>,
         n.env => /\ n.plain = None /\ n.hash # None /\ login[K!Group(c)] # None
                  /\ n.hash <= login[K!Group(c)],
         c \in K!Parts => n.env,
         n.plain = None \/ (made[c] # None /\ n.plain = made[c].plain),
         \/ n = made[c]
         \/ made[c] # None /\ ~n.env /\ n.run = made[c].run
         \/ n.due /\ (n.run = None \/ (made[c] # None /\ n.run = made[c].run))
  PROVE  LoginOK' /\ \A d \in K!Collectors : MadeOK(d)' /\ made'[d] = IF d = c THEN n ELSE made[d]
<1>1. \A d \in K!Collectors : made'[d] = IF d = c THEN n ELSE made[d]
  BY DEF ColInv, ColState
<1>2. LoginOK'
  BY DEF ColInv, LoginOK
<1>3. ASSUME NEW d \in K!Collectors PROVE MadeOK(d)'
  <2>1. UNCHANGED K!Group(d) /\ MadeOK(d)
    BY DEF K!Group, ColInv
  <2>2. CASE d # c
    BY <1>1, <2>1, <2>2 DEF MadeOK
  <2>3. CASE d = c
    BY <1>1, <2>1, <2>3 DEF MadeOK
  <2>4. QED
    BY <2>2, <2>3
<1>4. QED
  BY <1>1, <1>2, <1>3

LEMMA ConfigureColInv == ASSUME ColInv, NEW r \in Requests, K!Configure(r) PROVE ColInv'
<1>1. PICK me \in ColPasses : me = colPass[r]
  BY DEF ColInv
<1>2. /\ me.pc = "config" /\ (~colCrossed => ColPassOK(me))
      /\ UNCHANGED <<admin, accepted, resets, login, colCrossed, torn, ticked>>
      /\ made' = IF made[me.at] = None THEN made
                 ELSE [made EXCEPT ![me.at] = [@ EXCEPT !.plain = None]]
  BY <1>1, Zenon DEF ColInv, K!Configure
<1>3. PICK x : x = [me EXCEPT !.pc = "workload"] /\ colPass' = [colPass EXCEPT ![r] = x]
  BY <1>1, Zenon DEF K!Configure, K!Set
<1>4. "workload" \in ColPcs
  BY DEF ColPcs
<1>5. ColBecomes(x, me, "workload", me.at, me.pw, me.want, me.plain, me.stale, me.otel)
  BY <1>3, <1>4, ColPc, Zenon
<1>6. x \in ColPasses /\ x.kind = me.kind
  BY <1>5 DEF ColBecomes
<1>7. ASSUME ~colCrossed PROVE ColPassOK(x)
  BY <1>2, <1>5, <1>7 DEF ColPassOK, ColBecomes, Asked, K!Parts
<1>8. CASE made' = made
  <2>1. ASSUME ~colCrossed, ticked = "running" PROVE LeftTo(x)
    <3>1. LeftTo(me)
      BY <1>1, <1>2, <2>1, Running
    <3>2. QED
      BY <1>2, <1>5, <3>1 DEF LeftTo, ColBecomes
  <2>2. QED
    BY <1>1, <1>2, <1>3, <1>6, <1>7, <1>8, <2>1, ColThinks
<1>9. CASE made' # made
  <2>1. me.at \in K!Collectors /\ made[me.at] # None
    BY <1>2, <1>9 DEF ColInv, ColState
  <2>2. PICK m \in K!Templates : m = made[me.at]
    BY <2>1 DEF ColInv, ColState
  <2>3. PICK n : n = [m EXCEPT !.plain = None] /\ made' = [made EXCEPT ![me.at] = n]
    BY <1>2, <2>1, <2>2, Zenon
  <2>4. /\ n \in K!Templates /\ n # None /\ n.plain = None /\ n.env = m.env
        /\ n.hash = m.hash /\ n.run = m.run /\ n.due = m.due
    BY <2>2, <2>3 DEF K!Templates, K!Passwords, ColInv, ColState, K!CollectorsAssumption
  <2>5. ColState' /\ Passes'
    BY <1>2, <2>3, <2>4 DEF ColInv, ColState, Passes
  <2>6. ASSUME ~colCrossed PROVE me.at \in Stacks /\ me.at \notin K!Parts
    BY <1>2, <2>6 DEF ColPassOK, K!Parts, ColInv, ColState, K!CollectorsAssumption
  <2>7. ASSUME ~colCrossed, m.env PROVE FALSE
    <3>1. m.plain = None
      BY <2>1, <2>2, <2>7 DEF ColInv, MadeOK
    <3>2. n = m
      BY <2>2, <2>3, <3>1 DEF K!Templates
    <3>3. made' = made
      BY <2>2, <2>3, <3>2 DEF ColInv, ColState
    <3>4. QED
      BY <1>9, <3>3
  <2>8. ASSUME ~colCrossed
        PROVE  /\ LoginOK' /\ \A d \in K!Collectors : MadeOK(d)'
               /\ \A d \in K!Collectors : made'[d] = IF d = me.at THEN n ELSE made[d]
    <3>1. UNCHANGED <<accepted, login>> /\ ~n.env /\ n.run = made[me.at].run
      BY <1>2, <2>2, <2>4, <2>7, <2>8
    <3>2. QED
      BY <2>1, <2>3, <2>4, <2>6, <2>8, <3>1, MadeGrows
  <2>9. ASSUME ~colCrossed PROVE StackOK'
    <3>1. \A d \in K!Parts : d \in K!Collectors /\ d # me.at
      BY <2>6, <2>9 DEF K!Collectors
    <3>2. QED
      BY <1>2, <2>8, <2>9, <3>1 DEF StackOK, ColInv
  <2>10. ASSUME ~colCrossed PROVE ColPassOK(x)'
    <3>1. ColPassOK(x) /\ x.pc = "workload"
      BY <1>5, <1>7, <2>10 DEF ColBecomes
    <3>2. QED
      BY <1>2, <3>1 DEF ColPassOK, Asked, K!Parts
  <2>11. ASSUME ~colCrossed PROVE TickOK'
    <3>1. ASSUME ticked = "running" PROVE LeftTo(x)'
      <4>1. LeftTo(me)
        BY <1>1, <1>2, <2>11, <3>1, Running
      <4>2. \A d \in Stacks : d \in K!Collectors
        BY DEF K!Collectors
      <4>3. QED
        BY <1>2, <1>5, <2>4, <2>8, <2>11, <4>1, <4>2 DEF LeftTo, ColBecomes
    <3>2. QED
      BY <1>1, <1>2, <1>3, <1>6, <2>11, <3>1, TickMoves
  <2>12. login["agents"] # None => login["agents"] <= login'["agents"]
    BY <1>2 DEF ColInv, ColState, K!Passwords
  <2>13. QED
    BY <1>1, <1>2, <1>3, <1>6, <2>5, <2>8, <2>9, <2>10, <2>11, <2>12, ColMoves
<1>10. QED
  BY <1>8, <1>9

LEMMA WorkloadColInv == ASSUME ColInv, NEW r \in Requests, K!Workload(r) PROVE ColInv'
<1>1. PICK me \in ColPasses : me = colPass[r]
  BY DEF ColInv
<1>2. /\ me.pc = "workload" /\ (~colCrossed => ColPassOK(me)) /\ me.pw \in K!Passwords
      /\ UNCHANGED <<admin, accepted, resets, login, colCrossed, torn, ticked>>
      /\ made' = [made EXCEPT ![me.at] = K!Applied(me.at, me.pw)]
  BY <1>1 DEF ColInv, K!Workload, ColPasses
<1>3. PICK rest \in SUBSET Stacks : rest = me.plain \ {me.at}
  BY DEF ColPasses
<1>4. PICK y \in ColPasses :
        /\ y = [me EXCEPT !.plain = rest]
        /\ ColBecomes(y, me, me.pc, me.at, me.pw, me.want, rest, me.stale, me.otel)
  <2>1. PICK y : y = [me EXCEPT !.plain = rest]
    OBVIOUS
  <2>2. ColBecomes(y, me, me.pc, me.at, me.pw, me.want, rest, me.stale, me.otel)
    BY <2>1, ColPlain, Zenon
  <2>3. QED
    BY <2>1, <2>2 DEF ColBecomes
<1>5. PICK x \in ColPasses :
        /\ colPass' = [colPass EXCEPT ![r] = x]
        /\ \/ me.kind = "install" /\ x = K!Idle
           \/ me.kind # "install" /\ x \in K!Turn(y)
  <2>1. CASE me.kind = "install"
    BY <1>1, <2>1, OverOK DEF K!Workload, K!Over, K!Set, ColInv
  <2>2. CASE me.kind # "install"
    <3>1. y = [me EXCEPT !.plain = @ \ {me.at}]
      BY <1>3, <1>4
    <3>2. PICK x \in K!Turn(y) : colPass' = [colPass EXCEPT ![r] = x]
      BY <1>1, <2>2, <3>1, Zenon DEF K!Workload, K!Set
    <3>3. x \in ColPasses
      BY <3>2, ColTurn DEF ColBecomes
    <3>4. QED
      BY <2>2, <3>2, <3>3
  <2>3. QED
    BY <2>1, <2>2
<1>6. ASSUME ~colCrossed PROVE me.kind \in {"tick", "install"} /\ me.at \in Stacks /\ me.at \in K!Collectors
  BY <1>2, <1>6 DEF ColPassOK, K!Parts, K!Collectors
<1>7. ColState' /\ Passes'
  <2>1. CASE me.at \in K!Collectors
    <3>1. K!Applied(me.at, me.pw) \in K!Templates
      BY <1>2, <2>1, AppliedIs DEF ColInv
    <3>2. QED
      BY <1>2, <3>1 DEF ColInv, ColState, Passes
  <2>2. CASE me.at \notin K!Collectors
    <3>1. made' = made
      BY <1>2, <2>2 DEF ColInv, ColState
    <3>2. QED
      BY <1>2, <3>1 DEF ColInv, ColState, Passes
  <2>3. QED
    BY <2>1, <2>2
<1>8. ASSUME ~colCrossed
      PROVE  \E n \in K!Templates :
               /\ n # None /\ n.hash = me.pw /\ n.plain = None
               /\ \A d \in K!Collectors : MadeOK(d)' /\ made'[d] = IF d = me.at THEN n ELSE made[d]
               /\ LoginOK'
  <2>1. PICK n \in K!Templates :
           /\ n = K!Applied(me.at, me.pw) /\ n # None /\ n.hash = me.pw /\ n.env
           /\ \/ made[me.at] # None /\ n = made[me.at]
              \/ made[me.at] # None /\ n.plain = None /\ n.due /\ n.run = made[me.at].run
              \/ made[me.at] = None /\ n.plain = None /\ n.due /\ n.run = None
    BY <1>2, <1>6, <1>8, AppliedIs DEF ColInv
  <2>2. /\ K!Group(me.at) = "agents" /\ me.pw # None /\ login["agents"] # None
        /\ me.pw <= login["agents"]
    BY <1>2, <1>6, <1>8 DEF ColPassOK, K!Group, ColInv, ColState, K!CollectorsAssumption
  <2>3. LoginOK' /\ \A d \in K!Collectors : MadeOK(d)' /\ made'[d] = IF d = me.at THEN n ELSE made[d]
    <3>1. made' = [made EXCEPT ![me.at] = n]
      BY <1>2, <2>1
    <3>6. n.plain = None
      BY <1>6, <1>8, <2>1 DEF ColInv, MadeOK
    <3>2. \/ n = made[me.at]
          \/ n.due /\ (n.run = None \/ (made[me.at] # None /\ n.run = made[me.at].run))
      BY <2>1, Zenon
    <3>3. n.hash # None /\ n.hash <= login[K!Group(me.at)] /\ login[K!Group(me.at)] # None
      BY <2>1, <2>2
    <3>4. UNCHANGED <<accepted, login>> /\ me.at \in K!Collectors
      BY <1>2, <1>6, <1>8
    <3>5. QED
      BY <1>8, <2>1, <3>1, <3>2, <3>3, <3>4, <3>6, MadeGrows
  <2>5. n.plain = None
    BY <1>6, <1>8, <2>1 DEF ColInv, MadeOK
  <2>4. QED
    BY <2>1, <2>3, <2>5
<1>9. ASSUME ~colCrossed PROVE StackOK'
  <2>1. \A d \in K!Parts : d \in K!Collectors /\ d # me.at
    BY <1>6, <1>9 DEF K!Collectors, ColInv, ColState, K!CollectorsAssumption
  <2>2. QED
    BY <1>2, <1>8, <1>9, <2>1 DEF StackOK, ColInv
<1>10. ASSUME ~colCrossed PROVE ColPassOK(x)' /\ (x.pc # "idle" => x.kind = me.kind)
  <2>1. CASE me.kind = "install"
    <3>1. x.pc = "idle" /\ x.kind = None
      BY <1>5, <2>1, ColIdleOK DEF ColInv, ColState
    <3>2. QED
      BY <3>1 DEF ColPassOK, K!Parts, ColInv, ColState, K!CollectorsAssumption
  <2>2. CASE me.kind = "tick"
    <3>1. /\ y.kind = "tick" /\ y.want = me.want /\ y.otel = me.otel
      BY <1>4, <2>2 DEF ColBecomes
    <3>2. Asked(y) /\ (y.otel => login["stack"] # None)
      BY <1>2, <1>10, <2>2, <3>1 DEF ColPassOK, Asked
    <3>3. Asked(y)' /\ (y.otel => login'["stack"] # None)
      BY <1>2, <3>2 DEF Asked
    <3>4. PICK pc \in ColPcs, at \in Stacks \cup {None} :
           /\ ColBecomes(x, y, pc, at, y.pw, y.want, y.plain, y.stale, y.otel)
           /\ pc \in {"creds", "secret", "stack", "end"}
           /\ pc = "creds" => at \in y.plain
           /\ pc = "stack" => y.otel
      BY <1>5, <2>2, ColTurn, Zenon
    <3>5. y.plain \subseteq Stacks
      BY DEF ColPasses
    <3>6. QED
      BY <2>2, <3>1, <3>3, <3>4, <3>5 DEF ColBecomes, ColPassOK, Asked, K!Parts
  <2>3. QED
    BY <1>6, <1>10, <2>1, <2>2
<1>11. ASSUME ~colCrossed PROVE TickOK'
  <2>1. ASSUME ticked = "running", x.pc # "idle" PROVE LeftTo(x)'
    <3>1. LeftTo(me) /\ me.kind = "tick" /\ me.pw = admin
      BY <1>1, <1>2, <1>11, <2>1, Running DEF LeftTo
    <3>2. /\ y.want = admin /\ y.otel = me.otel /\ y.stale = me.stale
          /\ y.plain = me.plain \ {me.at}
      BY <1>3, <1>4, <3>1 DEF ColBecomes, LeftTo
    <3>3. \A c \in Stacks : made'[c] # None =>
           /\ made'[c].plain # None => c \in y.plain
           /\ made'[c].plain = None /\ made'[c].hash # admin => c \in y.stale
      BY <1>8, <1>11, <3>1, <3>2 DEF LeftTo, K!Collectors
    <3>4. PICK pc \in ColPcs, at \in Stacks \cup {None} :
           /\ ColBecomes(x, y, pc, at, y.pw, y.want, y.plain, y.stale, y.otel)
           /\ pc \in {"creds", "secret", "stack", "end"}
           /\ pc = "creds" <=> y.plain # {}
           /\ pc \in {"stack", "end"} => y.stale = {}
           /\ pc = "end" => ~y.otel
      BY <1>5, <3>1, ColTurn, Zenon
    <3>5. QED
      BY <1>2, <3>1, <3>2, <3>3, <3>4 DEF ColBecomes, LeftTo
  <2>2. QED
    BY <1>1, <1>2, <1>5, <1>10, <1>11, <2>1, TickMoves
<1>12. login["agents"] # None => login["agents"] <= login'["agents"]
  BY <1>2 DEF ColInv, ColState, K!Passwords
<1>13. QED
  BY <1>1, <1>2, <1>5, <1>7, <1>8, <1>9, <1>10, <1>11, <1>12, ColMoves

LEMMA DropsColInv ==
  ASSUME ColInv, NEW r \in Requests, K!Delete(r) \/ K!Drop(r) PROVE ColInv'
<1>1. PICK me \in ColPasses : me = colPass[r]
  BY DEF ColInv
<1>2. /\ me.pc \in {"delete", "drop"} /\ (~colCrossed => ColPassOK(me))
      /\ UNCHANGED <<admin, accepted, resets, colCrossed, torn, ticked>>
  BY <1>1 DEF ColInv, K!Delete, K!Drop
<1>3. ASSUME ~colCrossed PROVE me.kind = "remove" /\ ~Parallel(me) /\ ticked # "running"
  <2>1. me.kind = "remove"
    BY <1>2, <1>3 DEF ColPassOK, K!Parts
  <2>2. QED
    BY <1>1, <1>2, <1>3, <2>1, Running DEF Parallel
<1>4. CASE K!Delete(r)
  <2>1. /\ me.pc = "delete" /\ made' = [made EXCEPT ![me.at] = None] /\ login' = login
        /\ None \notin K!Templates
    BY <1>1, <1>4 DEF K!Delete, ColInv, ColState, K!CollectorsAssumption
  <2>2. PICK x : x = [me EXCEPT !.pc = "last"] /\ colPass' = [colPass EXCEPT ![r] = x]
    BY <1>1, <1>4, Zenon DEF K!Delete, K!Set
  <2>3. "last" \in ColPcs
    BY DEF ColPcs
  <2>4. ColBecomes(x, me, "last", me.at, me.pw, me.want, me.plain, me.stale, me.otel)
    BY <2>2, <2>3, ColPc, Zenon
  <2>5. ColState' /\ Passes'
    BY <1>2, <2>1 DEF ColInv, ColState, Passes
  <2>6. \A d \in K!Collectors : made'[d] = IF d = me.at THEN None ELSE made[d]
    BY <2>1 DEF ColInv, ColState
  <2>7. ASSUME ~colCrossed PROVE LoginOK' /\ StackOK' /\ \A d \in K!Collectors : MadeOK(d)'
    <3>1. me.at \in Stacks /\ me.at \notin K!Parts /\ K!Parts \subseteq K!Collectors
      BY <1>2, <1>3, <2>1, <2>7
      DEF ColPassOK, ColInv, ColState, K!CollectorsAssumption, K!Collectors
    <3>2. StackOK'
      BY <1>2, <2>1, <2>6, <2>7, <3>1 DEF ColInv, StackOK
    <3>3. ASSUME NEW d \in K!Collectors PROVE MadeOK(d)'
      BY <1>2, <2>1, <2>6, <2>7 DEF ColInv, MadeOK
    <3>4. QED
      BY <1>2, <2>1, <2>7, <3>2, <3>3 DEF ColInv, LoginOK
  <2>8. ASSUME ~colCrossed PROVE ColPassOK(x)'
    BY <1>3, <2>4, <2>8 DEF ColPassOK, ColBecomes, K!Parts
  <2>9. ASSUME ~colCrossed PROVE TickOK'
    BY <1>1, <1>2, <1>3, <2>1, <2>2, <2>4, <2>9, TickMoves DEF ColBecomes
  <2>10. x \in ColPasses /\ x.kind = me.kind
    BY <2>4 DEF ColBecomes
  <2>11. QED
    BY <1>1, <1>2, <1>3, <2>1, <2>2, <2>5, <2>7, <2>8, <2>9, <2>10, ColMoves
<1>5. CASE K!Drop(r)
  <2>1. me.pc = "drop" /\ login' = [login EXCEPT !["agents"] = None] /\ made' = made
    BY <1>1, <1>5 DEF K!Drop
  <2>2. PICK x \in ColPasses : x = K!Idle /\ x.pc = "idle" /\ ColPassOK(x)
    BY OverOK DEF ColInv
  <2>3. colPass' = [colPass EXCEPT ![r] = x]
    BY <1>5, <2>2 DEF K!Drop, K!Over, K!Set
  <2>4. ColState' /\ Passes'
    BY <1>2, <2>1 DEF ColInv, ColState, Passes, K!Passwords
  <2>5. login'["agents"] = None /\ login'["stack"] = login["stack"]
    BY <2>1 DEF ColInv, ColState
  <2>6. ASSUME ~colCrossed PROVE LoginOK' /\ StackOK' /\ \A d \in K!Collectors : MadeOK(d)'
    <3>1. LoginOK' /\ StackOK'
      BY <1>2, <2>1, <2>5, <2>6 DEF ColInv, LoginOK, StackOK
    <3>2. ASSUME NEW d \in K!Collectors PROVE MadeOK(d)'
      <4>1. CASE d \in K!Parts
        <5>1. login'[K!Group(d)'] = login[K!Group(d)]
          BY <2>5, <4>1 DEF K!Group
        <5>2. QED
          BY <1>2, <2>1, <2>6, <5>1 DEF ColInv, MadeOK
      <4>2. CASE d \notin K!Parts
        <5>1. made'[d] = None
          BY <1>2, <2>1, <2>6, <4>2 DEF ColPassOK, K!Own, K!Collectors
        <5>2. QED
          BY <5>1 DEF MadeOK
      <4>3. QED
        BY <4>1, <4>2
    <3>3. QED
      BY <3>1, <3>2
  <2>7. ColPassOK(x)'
    <3>1. x.kind = None
      BY <2>2, ColIdleOK DEF ColInv, ColState
    <3>2. QED
      BY <2>2, <3>1 DEF ColPassOK, K!Parts, ColInv, ColState, K!CollectorsAssumption
  <2>8. ASSUME ~colCrossed PROVE TickOK'
    BY <1>1, <1>2, <2>1, <2>2, <2>3, <2>8, TickMoves
  <2>9. QED
    BY <1>1, <1>2, <1>3, <2>1, <2>2, <2>3, <2>4, <2>6, <2>7, <2>8, ColMoves
<1>6. QED
  BY <1>4, <1>5

LEMMA StampColInv == ASSUME ColInv, NEW r \in Requests, K!Stamp(r) PROVE ColInv'
<1>1. PICK me \in ColPasses : me = colPass[r]
  BY DEF ColInv
<1>2. /\ me.pc = "stamp" /\ (~colCrossed => ColPassOK(me)) /\ me.want \in K!Passwords
      /\ UNCHANGED <<admin, accepted, resets, login, colCrossed, torn, ticked>>
  BY <1>1 DEF ColInv, K!Stamp, ColPasses
<1>3. PICK c \in me.stale :
       IF made[c] = None THEN K!Over(r) /\ made' = made
       ELSE /\ made' = [made EXCEPT ![c] = [made[c] EXCEPT !.hash = me.want, !.due = TRUE]]
            /\ K!Set(r, [me EXCEPT !.stale = me.stale \ {c},
                                   !.pc = IF me.stale \ {c} # {} THEN "stamp"
                                          ELSE IF me.otel THEN "stack" ELSE "end"])
  BY <1>1, Zenon DEF K!Stamp
<1>4. c \in Stacks /\ c \in K!Collectors /\ c \notin K!Parts
  BY DEF ColPasses, K!Collectors, ColInv, ColState, K!CollectorsAssumption
<1>5. CASE made[c] = None
  <2>1. PICK x \in ColPasses : x = K!Idle /\ x.pc = "idle" /\ ColPassOK(x)
    BY OverOK DEF ColInv
  <2>2. colPass' = [colPass EXCEPT ![r] = x] /\ made' = made
    BY <1>3, <1>5, <2>1 DEF K!Over, K!Set
  <2>3. QED
    BY <1>1, <1>2, <2>1, <2>2, ColThinks
<1>6. CASE made[c] # None
  <2>1. PICK m \in K!Templates : m = made[c]
    BY <1>4, <1>6 DEF ColInv, ColState
  <2>2. PICK n \in K!Templates :
          /\ made' = [made EXCEPT ![c] = n]
          /\ n.hash = me.want /\ n.plain = m.plain /\ n.run = m.run /\ n.due /\ n # None
          /\ n.env = m.env
    <3>1. PICK n : n = [m EXCEPT !.hash = me.want, !.due = TRUE] /\ made' = [made EXCEPT ![c] = n]
      BY <1>3, <1>6, <2>1, Zenon
    <3>2. /\ n \in K!Templates /\ n.hash = me.want /\ n.plain = m.plain /\ n.run = m.run /\ n.due
          /\ n # None /\ n.env = m.env
      BY <1>2, <2>1, <3>1 DEF K!Templates, ColInv, ColState, K!CollectorsAssumption
    <3>3. QED
      BY <3>1, <3>2
  <2>3. n.hash = me.want /\ n.plain = m.plain /\ n.run = m.run /\ n.due /\ n # None
    BY <2>2
  <2>4. PICK left \in SUBSET Stacks : left = me.stale \ {c}
    BY DEF ColPasses
  <2>5. PICK pc \in {"stamp", "stack", "end"} :
          pc = IF left # {} THEN "stamp" ELSE IF me.otel THEN "stack" ELSE "end"
    OBVIOUS
  <2>6. PICK x : x = [me EXCEPT !.stale = left, !.pc = pc] /\ colPass' = [colPass EXCEPT ![r] = x]
    BY <1>3, <1>6, <2>4, <2>5, Zenon DEF K!Set
  <2>7. pc \in ColPcs
    BY DEF ColPcs
  <2>8. ColBecomes(x, me, pc, me.at, me.pw, me.want, me.plain, left, me.otel)
    BY <2>6, <2>7, ColStale, Zenon
  <2>9. ColState' /\ Passes'
    BY <1>2, <2>2, <2>3 DEF ColInv, ColState, Passes
  <2>10. ASSUME ~colCrossed
         PROVE  /\ me.kind = "tick" /\ Asked(me) /\ login["agents"] # None
                /\ me.want <= login["agents"]
    <3>1. me.kind = "tick"
      BY <1>2, <2>10 DEF ColPassOK, K!Parts
    <3>2. QED
      BY <1>2, <2>10, <3>1 DEF ColPassOK
  <2>11. ASSUME ~colCrossed
         PROVE  /\ LoginOK' /\ \A d \in K!Collectors : MadeOK(d)'
                /\ \A d \in K!Collectors : made'[d] = IF d = c THEN n ELSE made[d]
    <3>1. K!Group(c) = "agents" /\ n.hash # None
      BY <1>4, <2>3, <2>10, <2>11 DEF K!Group, Asked
    <3>2. n.hash <= login[K!Group(c)] /\ login[K!Group(c)] # None
      BY <2>3, <2>10, <2>11, <3>1
    <3>3. \/ n = made[c]
          \/ n.due /\ (n.run = None \/ (made[c] # None /\ n.run = made[c].run))
      BY <1>6, <2>1, <2>3, Zenon
    <3>6. (c \in K!Parts => n.env) /\ (n.env => n.plain = None)
      BY <1>4, <1>6, <2>1, <2>2, <2>11 DEF ColInv, MadeOK
    <3>7. n.plain = None \/ (made[c] # None /\ n.plain = made[c].plain)
      BY <1>6, <2>1, <2>3
    <3>8. n.env => /\ n.plain = None /\ n.hash # None /\ login[K!Group(c)] # None
                   /\ n.hash <= login[K!Group(c)]
      BY <3>1, <3>2, <3>6
    <3>4. UNCHANGED <<accepted, login>>
      BY <1>2
    <3>5. QED
      BY <1>4, <2>2, <2>3, <2>11, <3>3, <3>4, <3>6, <3>7, <3>8, MadeGrows
  <2>12. ASSUME ~colCrossed PROVE StackOK'
    BY <1>2, <1>4, <2>11, <2>12 DEF StackOK, ColInv, K!Collectors
  <2>13. ASSUME ~colCrossed PROVE ColPassOK(x)'
    BY <1>2, <2>5, <2>8, <2>10, <2>13 DEF ColPassOK, ColBecomes, Asked, K!Parts
  <2>14. ASSUME ~colCrossed PROVE TickOK'
    <3>1. ASSUME ticked = "running" PROVE LeftTo(x)'
      <4>1. LeftTo(me)
        BY <1>1, <1>2, <2>14, <3>1, Running
      <4>2. \A d \in Stacks : made'[d] # None =>
              /\ made'[d].plain # None => d \in me.plain
              /\ made'[d].plain = None /\ made'[d].hash # admin => d \in left
        <5>1. me.plain = {} /\ me.want = admin
          BY <1>2, <4>1 DEF LeftTo
        <5>2. ASSUME NEW d \in Stacks, made'[d] # None
              PROVE  /\ made'[d].plain # None => d \in me.plain
                     /\ made'[d].plain = None /\ made'[d].hash # admin => d \in left
          <6>1. made'[d] = IF d = c THEN n ELSE made[d]
            BY <2>11, <2>14 DEF K!Collectors
          <6>2. made[c].plain = None
            BY <1>4, <1>6, <4>1, <5>1 DEF LeftTo
          <6>3. CASE d = c
            BY <2>1, <2>3, <5>1, <6>1, <6>2, <6>3
          <6>4. CASE d # c
            BY <1>2, <2>4, <4>1, <5>2, <6>1, <6>4 DEF LeftTo
          <6>5. QED
            BY <6>3, <6>4
        <5>3. QED
          BY <5>2
      <4>3. QED
        BY <1>2, <2>5, <2>8, <4>1, <4>2 DEF LeftTo, ColBecomes
    <3>2. QED
      BY <1>1, <1>2, <2>6, <2>8, <2>14, <3>1, TickMoves DEF ColBecomes
  <2>15. login["agents"] # None => login["agents"] <= login'["agents"]
    BY <1>2 DEF ColInv, ColState, K!Passwords
  <2>16. x \in ColPasses /\ x.kind = me.kind
    BY <2>8 DEF ColBecomes
  <2>17. QED
    BY <1>1, <1>2, <2>6, <2>9, <2>11, <2>12, <2>13, <2>14, <2>15, <2>16, ColMoves
<1>7. QED
  BY <1>5, <1>6

LEMMA SyncPartColInv == ASSUME ColInv, NEW r \in Requests, K!SyncPart(r) PROVE ColInv'
<1>1. PICK me \in ColPasses : me = colPass[r]
  BY DEF ColInv
<1>2. /\ me.pc \in K!Parts /\ me.pc # "idle" /\ (~colCrossed => ColPassOK(me))
      /\ me.want \in K!Passwords
      /\ UNCHANGED <<admin, accepted, resets, login, colCrossed, ticked>>
      /\ made' = [made EXCEPT ![me.pc] = K!Applied(me.pc, me.want)]
      /\ torn' = (torn /\ \E d \in K!Parts : made'[d].hash # login["stack"])
  BY <1>1 DEF ColInv, K!SyncPart, ColPasses, K!Parts
<1>3. me.pc \in K!Collectors
  BY <1>2 DEF K!Collectors
<1>4. PICK n \in K!Templates :
         /\ n = K!Applied(me.pc, me.want) /\ n # None /\ n.hash = me.want /\ n.env
         /\ \/ made[me.pc] # None /\ n = made[me.pc]
            \/ made[me.pc] # None /\ n.plain = None /\ n.due /\ n.run = made[me.pc].run
            \/ made[me.pc] = None /\ n.plain = None /\ n.due /\ n.run = None
  BY <1>2, <1>3, AppliedIs DEF ColInv
<1>5. made' = [made EXCEPT ![me.pc] = n]
  BY <1>2, <1>4
<1>6. ColState' /\ Passes'
  BY <1>2, <1>5 DEF ColInv, ColState, Passes
<1>7. PICK x \in ColPasses :
        /\ colPass' = [colPass EXCEPT ![r] = x]
        /\ \/ ColBecomes(x, me, "prepper", me.at, me.pw, me.want, me.plain, me.stale, me.otel)
           \/ x.pc = "idle" /\ x.kind = None
           \/ /\ me.kind # "rotate"
              /\ ColBecomes(x, me, "end", me.at, me.pw, me.want, me.plain, me.stale, me.otel)
  <2>1. "prepper" \in ColPcs /\ "end" \in ColPcs
    BY DEF ColPcs
  <2>2. CASE me.pc = "exporter"
    <3>1. PICK x : x = [me EXCEPT !.pc = "prepper"] /\ colPass' = [colPass EXCEPT ![r] = x]
      BY <1>1, <2>2, Zenon DEF K!SyncPart, K!Set
    <3>2. ColBecomes(x, me, "prepper", me.at, me.pw, me.want, me.plain, me.stale, me.otel)
      BY <2>1, <3>1, ColPc, Zenon
    <3>3. QED
      BY <3>1, <3>2 DEF ColBecomes
  <2>3. CASE me.pc # "exporter" /\ me.kind = "rotate"
    BY <1>1, <2>3, ColIdleOK DEF K!SyncPart, K!Over, K!Set, ColInv, ColState
  <2>4. CASE me.pc # "exporter" /\ me.kind # "rotate"
    <3>1. PICK x : x = [me EXCEPT !.pc = "end"] /\ colPass' = [colPass EXCEPT ![r] = x]
      BY <1>1, <2>4, Zenon DEF K!SyncPart, K!Set
    <3>2. ColBecomes(x, me, "end", me.at, me.pw, me.want, me.plain, me.stale, me.otel)
      BY <2>1, <3>1, ColPc, Zenon
    <3>3. QED
      BY <2>4, <3>1, <3>2 DEF ColBecomes
  <2>5. QED
    BY <2>2, <2>3, <2>4
<1>8. ASSUME ~colCrossed
      PROVE  /\ me.kind \in {"tick", "rotate"} /\ me.want # None /\ login["stack"] = me.want
             /\ LoginOK' /\ \A d \in K!Collectors : MadeOK(d)'
             /\ \A d \in K!Collectors : made'[d] = IF d = me.pc THEN n ELSE made[d]
  <2>1. me.kind \in {"tick", "rotate"} /\ me.want # None /\ login["stack"] = me.want
    BY <1>2, <1>8 DEF ColPassOK, K!Parts
  <2>2. K!Group(me.pc) = "stack" /\ n.hash # None /\ n.hash <= login[K!Group(me.pc)]
    BY <1>2, <1>4, <2>1 DEF K!Group, ColInv, ColState, K!Passwords
  <2>3. login[K!Group(me.pc)] # None
    BY <2>1, <2>2
  <2>4. \/ n = made[me.pc]
        \/ n.due /\ (n.run = None \/ (made[me.pc] # None /\ n.run = made[me.pc].run))
    BY <1>4, Zenon
  <2>5. UNCHANGED <<accepted, login>>
    BY <1>2
  <2>7. n.plain = None
    BY <1>3, <1>4, <1>8 DEF ColInv, MadeOK
  <2>6. QED
    BY <1>3, <1>4, <1>5, <1>8, <2>1, <2>2, <2>3, <2>4, <2>5, <2>7, MadeGrows
<1>9. ASSUME ~colCrossed PROVE StackOK'
  <2>1. StackOK /\ K!Parts \subseteq K!Collectors
    BY <1>9 DEF ColInv, K!Collectors
  <2>2. ASSUME NEW d \in K!Parts PROVE made'[d] # None /\ login'["stack"] # None
    BY <1>2, <1>4, <1>8, <1>9, <2>1 DEF StackOK
  <2>3. ASSUME NEW d \in K!Parts, ~torn' PROVE made'[d].hash = login'["stack"]
    <3>1. CASE torn
      BY <1>2, <2>3, <3>1
    <3>2. CASE ~torn
      BY <1>2, <1>4, <1>8, <1>9, <2>1, <3>2 DEF StackOK
    <3>3. QED
      BY <3>1, <3>2
  <2>4. QED
    BY <2>2, <2>3 DEF StackOK
<1>10. ASSUME ~colCrossed PROVE ColPassOK(x)' /\ (x.pc # "idle" => x.kind = me.kind)
  <2>1. me.kind \in {"tick", "rotate"} /\ me.want # None /\ login["stack"] = me.want
    BY <1>8, <1>10
  <2>2. CASE ColBecomes(x, me, "prepper", me.at, me.pw, me.want, me.plain, me.stale, me.otel)
    BY <1>2, <1>10, <2>1, <2>2 DEF ColPassOK, ColBecomes, Asked, K!Parts
  <2>3. CASE x.pc = "idle" /\ x.kind = None
    BY <2>3 DEF ColPassOK, K!Parts, ColInv, ColState, K!CollectorsAssumption
  <2>4. CASE /\ me.kind # "rotate"
             /\ ColBecomes(x, me, "end", me.at, me.pw, me.want, me.plain, me.stale, me.otel)
    BY <1>2, <1>10, <2>1, <2>4 DEF ColPassOK, ColBecomes, Asked, K!Parts
  <2>5. QED
    BY <1>7, <2>2, <2>3, <2>4
<1>11. ASSUME ~colCrossed PROVE TickOK'
  <2>1. ASSUME ticked = "running", x.pc # "idle" PROVE LeftTo(x)'
    <3>1. LeftTo(me)
      BY <1>1, <1>2, <1>11, <2>1, Running DEF K!Parts
    <3>2. \A d \in Stacks : made'[d] = made[d]
      BY <1>2, <1>8, <1>11 DEF K!Collectors, ColInv, ColState, K!CollectorsAssumption
    <3>3. /\ x.want = me.want /\ x.plain = me.plain /\ x.stale = me.stale /\ x.otel = me.otel
          /\ x.pc \in {"prepper", "end"}
      BY <1>7, <2>1 DEF ColBecomes
    <3>4. QED
      BY <1>2, <1>8, <1>11, <3>1, <3>2, <3>3 DEF LeftTo, K!Parts
  <2>2. QED
    BY <1>1, <1>2, <1>7, <1>10, <1>11, <2>1, TickMoves
<1>12. login["agents"] # None => login["agents"] <= login'["agents"]
  BY <1>2 DEF ColInv, ColState, K!Passwords
<1>13. QED
  BY <1>1, <1>2, <1>7, <1>6, <1>8, <1>9, <1>10, <1>11, <1>12, ColMoves

LEMMA EndColInv == ASSUME ColInv, NEW r \in Requests, K!End(r) PROVE ColInv'
<1>1. PICK me \in ColPasses : me = colPass[r]
  BY DEF ColInv
<1>2. /\ me.pc = "end" /\ (~colCrossed => ColPassOK(me))
      /\ UNCHANGED <<admin, accepted, resets, login, made, colCrossed, torn>>
      /\ ticked' = IF ticked = "running" THEN "yes" ELSE ticked
  BY <1>1 DEF ColInv, K!End
<1>3. PICK x \in ColPasses : x = K!Idle /\ x.pc = "idle" /\ ColPassOK(x)
  BY OverOK DEF ColInv
<1>4. colPass' = [colPass EXCEPT ![r] = x]
  BY <1>3 DEF K!End, K!Over, K!Set
<1>5. ColState' /\ Passes'
  BY <1>2 DEF ColInv, ColState, Passes
<1>6. ASSUME ~colCrossed
      PROVE  LoginOK' /\ StackOK' /\ \A c \in K!Collectors : MadeOK(c)'
  BY <1>2, <1>6 DEF ColInv, LoginOK, StackOK, MadeOK
<1>7. ColPassOK(x)'
  <2>1. x.kind = None
    BY <1>3, ColIdleOK DEF ColInv, ColState
  <2>2. QED
    BY <1>3, <2>1 DEF ColPassOK, K!Parts, ColInv, ColState, K!CollectorsAssumption
<1>8. ASSUME ~colCrossed PROVE TickOK'
  <2>1. CASE ticked = "running"
    <3>1. LeftTo(me) /\ me.kind = "tick"
      BY <1>1, <1>2, <1>8, <2>1, Running
    <3>2. K!Active' = {}
      <4>1. \A s \in Requests : colPass'[s] = IF s = r THEN x ELSE colPass[s]
        BY <1>4 DEF ColInv
      <4>2. r \in K!Active /\ \A s \in K!Active : s = r
        BY <1>1, <1>2, <1>8, <2>1 DEF ColInv, TickOK, K!Active
      <4>3. QED
        BY <1>3, <4>1, <4>2 DEF K!Active
    <3>3. \A c \in Stacks : Settled(c)
      BY <1>2, <3>1 DEF LeftTo, Settled
    <3>4. login["stack"] \in {None, admin}
      BY <1>2, <3>1 DEF LeftTo
    <3>5. QED
      BY <1>2, <2>1, <3>2, <3>3, <3>4 DEF TickOK, Settled
  <2>2. CASE ticked # "running"
    BY <1>1, <1>2, <1>3, <1>4, <1>8, <2>2, TickMoves
  <2>3. QED
    BY <2>1, <2>2
<1>9. login["agents"] # None => login["agents"] <= login'["agents"]
  BY <1>2 DEF ColInv, ColState, K!Passwords
<1>10. QED
  BY <1>1, <1>2, <1>3, <1>4, <1>5, <1>6, <1>7, <1>8, <1>9, ColMoves

LEMMA StepsColInv ==
  ASSUME ColInv, NEW r \in Requests, K!Steps(r) \/ K!Ends(r) PROVE ColInv'
<1>1. CASE K!Ends(r)
  BY <1>1, ReadsColInv
<1>2. CASE K!ReadCreds(r) \/ K!WriteLogin(r) \/ K!Configure(r) \/ K!Workload(r)
  BY <1>2, ReadsColInv, WriteLoginColInv, ConfigureColInv, WorkloadColInv
<1>3. CASE K!Delete(r) \/ K!Last(r) \/ K!Drop(r)
  BY <1>3, ReadsColInv, DropsColInv
<1>4. CASE K!Look(r) \/ K!Probe(r) \/ K!Secret(r) \/ K!Stamp(r)
  BY <1>4, LookColInv, ProbeColInv, SecretColInv, StampColInv
<1>5. CASE K!SyncSecret(r) \/ K!SyncPart(r) \/ K!End(r)
  BY <1>5, SyncSecretColInv, SyncPartColInv, EndColInv
<1>6. QED
  BY <1>1, <1>2, <1>3, <1>4, <1>5, Zenon DEF K!Steps

LEMMA NextColInv == ColInv /\ K!Next => ColInv'
<1> SUFFICES ASSUME ColInv, K!Next PROVE ColInv'
  OBVIOUS
<1>1. ASSUME NEW r \in Requests,
             K!BeginTick(r) \/ K!BeginInstall(r) \/ K!BeginRemove(r) \/ K!BeginRotate(r)
               \/ K!BeginRepair(r)
      PROVE  ColInv'
  BY <1>1, BeginsColInv
<1>2. ASSUME NEW r \in Requests, K!Steps(r) \/ K!Ends(r) PROVE ColInv'
  BY <1>2, StepsColInv
<1>3. CASE K!Reset \/ K!Job \/ K!Backstop
  BY <1>3, PasswordColInv
<1>4. ASSUME NEW c \in K!Collectors, K!Start(c) PROVE ColInv'
  BY <1>4, StartColInv
<1>5. QED
  BY <1>1, <1>2, <1>3, <1>4, Zenon DEF K!Next

-----------------------------------------------------------------------------
(* A migration that got no further than the ConfigMap is known as one.          *)

\* A step that halves no migration and leaves the passes at a workload there.
LEMMA HalfKept ==
  ASSUME HalfInv, \A c \in Stacks : Half(c)' => Half(c) /\ (c \in cut => c \in cut'),
         \A r \in Requests, c \in Stacks : Half(c)' /\ Mid(r, c) => Mid(r, c)' \/ c \in cut'
  PROVE  HalfInv'
BY DEF HalfInv

LEMMA MidKept ==
  ASSUME ColInv, NEW r \in Requests, colPass[r].pc # "workload", NEW x,
         colPass' = [colPass EXCEPT ![r] = x]
  PROVE  \A q \in Requests, c \in Stacks : Mid(q, c) => Mid(q, c)'
BY DEF ColInv, Mid

\* A collector stays as it was but for its hash and its pods.
LEMMA HalfSame ==
  ASSUME HalfInv, cut' = cut, NEW c, NEW n, made \in [K!Collectors -> K!Templates \cup {None}],
         made' = [made EXCEPT ![c] = n],
         made[c] # None => n.plain = made[c].plain /\ n.env = made[c].env,
         made[c] = None => n = None
  PROVE  \A d \in Stacks : Half(d)' => Half(d) /\ (d \in cut => d \in cut')
BY DEF Half, K!Collectors

LEMMA InitHalfInv == K!CollectorsAssumption /\ K!Init => HalfInv
<1> SUFFICES ASSUME K!CollectorsAssumption, K!Init, NEW c \in Stacks, Half(c) PROVE FALSE
  BY DEF HalfInv
<1>1. PICK old \in SUBSET Stacks, stack \in BOOLEAN :
        made = [d \in K!Collectors |->
            IF d \in old
            THEN [hash |-> None, env |-> FALSE, plain |-> 0, run |-> 0, due |-> FALSE]
            ELSE IF d \in K!Parts /\ stack
            THEN [hash |-> 0, env |-> TRUE, plain |-> None, run |-> 0, due |-> FALSE]
            ELSE None]
  BY Zenon DEF K!Init
<1>2. c \in K!Collectors /\ None # 0
  BY DEF K!Collectors, K!CollectorsAssumption
<1>3. CASE c \in old
  <2>1. made[c] = [hash |-> None, env |-> FALSE, plain |-> 0, run |-> 0, due |-> FALSE]
    BY <1>1, <1>2, <1>3
  <2>2. QED
    BY <1>2, <2>1 DEF Half
<1>4. CASE c \notin old /\ c \in K!Parts /\ stack
  <2>1. made[c] = [hash |-> 0, env |-> TRUE, plain |-> None, run |-> 0, due |-> FALSE]
    BY <1>1, <1>2, <1>4
  <2>2. QED
    BY <2>1 DEF Half
<1>5. CASE c \notin old /\ ~(c \in K!Parts /\ stack)
  BY <1>1, <1>2, <1>5 DEF Half
<1>6. QED
  BY <1>3, <1>4, <1>5

LEMMA WorkloadHalfInv ==
  ASSUME ColInv, HalfInv, NEW r \in Requests, K!Workload(r) PROVE HalfInv'
<1>1. PICK me \in ColPasses : me = colPass[r]
  BY DEF ColInv
<1>2. /\ me.pc = "workload" /\ cut' = cut \ {me.at}
      /\ made' = [made EXCEPT ![me.at] = K!Applied(me.at, me.pw)]
      /\ me.pw \in K!Passwords
  BY <1>1 DEF K!Workload, ColPasses
<1>3. PICK x : colPass' = [colPass EXCEPT ![r] = x]
  BY Zenon DEF K!Workload, K!Over, K!Set
<1>4. \A d \in Stacks : d # me.at => made'[d] = made[d]
  BY <1>2 DEF ColInv, ColState, K!Collectors
<1>5. me.at \in Stacks => ~Half(me.at)'
  <2>1. SUFFICES ASSUME me.at \in Stacks PROVE ~Half(me.at)'
    OBVIOUS
  <2>2. me.at \in K!Collectors /\ ColState
    BY <2>1 DEF K!Collectors, ColInv
  <2>3. K!Applied(me.at, me.pw).env
    BY <1>2, <2>2, AppliedIs
  <2>4. made'[me.at] = K!Applied(me.at, me.pw)
    BY <1>2, <2>2 DEF ColState
  <2>5. QED
    BY <2>3, <2>4 DEF Half
<1>6. \A d \in Stacks : Half(d)' => Half(d) /\ d # me.at
  BY <1>4, <1>5 DEF Half
<1>7. \A q \in Requests, d \in Stacks : Half(d)' /\ Mid(q, d) => Mid(q, d)'
  BY <1>1, <1>3, <1>6 DEF ColInv, Mid
<1>8. QED
  BY <1>2, <1>6, <1>7, HalfKept

LEMMA StepsHalfInv ==
  ASSUME ColInv, HalfInv, NEW r \in Requests, K!Steps(r) \/ K!Ends(r) PROVE HalfInv'
<1>1. PICK me \in ColPasses : me = colPass[r]
  BY DEF ColInv
<1>2. made \in [K!Collectors -> K!Templates \cup {None}] /\ None \notin K!Templates
  BY DEF ColInv, ColState, K!CollectorsAssumption
<1>3. CASE \/ K!ReadCreds(r) \/ K!WriteLogin(r) \/ K!Last(r) \/ K!Drop(r) \/ K!Look(r)
           \/ K!Probe(r) \/ K!Secret(r) \/ K!SyncSecret(r) \/ K!End(r)
  <2>1. colPass[r].pc # "workload" /\ made' = made /\ cut' = cut
    BY <1>3 DEF K!ReadCreds, K!WriteLogin, K!Last, K!Drop, K!Look, K!Probe, K!Secret,
                K!SyncSecret, K!End
  <2>2. PICK x : colPass' = [colPass EXCEPT ![r] = x]
    BY <1>3, Zenon DEF K!ReadCreds, K!WriteLogin, K!Last, K!Drop, K!Look, K!Probe, K!Secret,
                       K!SyncSecret, K!End, K!Over, K!Set
  <2>3. QED
    BY <2>1, <2>2, MidKept, HalfKept DEF Half
<1>4. CASE K!Ends(r)
  <2>1. /\ made' = made
        /\ cut' = cut \cup {c \in {me.at} : K!Halved(me)}
    BY <1>1, <1>4 DEF K!Ends
  <2>2. PICK x : colPass' = [colPass EXCEPT ![r] = x]
    BY <1>4, Zenon DEF K!Ends, K!Over, K!Set
  <2>3. \A q \in Requests, c \in Stacks : Half(c)' /\ Mid(q, c) => Mid(q, c)' \/ c \in cut'
    <3>1. ASSUME NEW q \in Requests, NEW c \in Stacks, Half(c), Mid(q, c)
          PROVE  Mid(q, c)' \/ c \in cut'
      <4>1. CASE q = r
        BY <1>1, <2>1, <3>1, <4>1 DEF Mid, Half, K!Halved
      <4>2. CASE q # r
        BY <2>2, <3>1, <4>2 DEF Mid, ColInv
      <4>3. QED
        BY <4>1, <4>2
    <3>2. \A c : Half(c)' => Half(c)
      BY <2>1 DEF Half
    <3>3. QED
      BY <3>1, <3>2
  <2>4. QED
    BY <2>1, <2>3, HalfKept DEF Half
<1>5. CASE K!Configure(r)
  <2>1. /\ me.pc = "config" /\ cut' = cut
        /\ made' = IF made[me.at] = None THEN made
                   ELSE [made EXCEPT ![me.at] = [@ EXCEPT !.plain = None]]
    BY <1>1, <1>5, Zenon DEF K!Configure
  <2>2. PICK x : x = [me EXCEPT !.pc = "workload"] /\ colPass' = [colPass EXCEPT ![r] = x]
    BY <1>1, <1>5, Zenon DEF K!Configure, K!Set
  <2>3. x.pc = "workload" /\ x.at = me.at
    BY <2>2 DEF ColPasses
  <2>4. \A d \in Stacks : d # me.at => made'[d] = made[d]
    BY <1>2, <2>1 DEF K!Collectors
  <2>5. \A q \in Requests, d \in Stacks : Mid(q, d) => Mid(q, d)'
    BY <1>1, <2>1, <2>2, MidKept
  <2>6. me.at \in Stacks => Mid(r, me.at)'
    BY <2>2, <2>3 DEF ColInv, Mid
  <2>7. ASSUME NEW d \in Stacks, Half(d)'
        PROVE  d \in cut' \/ \E q \in Requests : Mid(q, d)'
    <3>1. CASE d = me.at
      BY <2>6, <2>7, <3>1
    <3>2. CASE d # me.at
      BY <2>1, <2>4, <2>5, <2>7, <3>2 DEF HalfInv, Half
    <3>3. QED
      BY <3>1, <3>2
  <2>8. QED
    BY <2>7 DEF HalfInv
<1>6. CASE K!Delete(r)
  <2>1. /\ me.pc = "delete" /\ cut' = cut \ {me.at}
        /\ made' = [made EXCEPT ![me.at] = None]
    BY <1>1, <1>6 DEF K!Delete
  <2>2. PICK x : colPass' = [colPass EXCEPT ![r] = x]
    BY <1>6, Zenon DEF K!Delete, K!Set
  <2>3. \A d \in Stacks : made'[d] = IF d = me.at THEN None ELSE made[d]
    BY <1>2, <2>1 DEF K!Collectors
  <2>4. QED
    BY <1>1, <2>1, <2>2, <2>3, MidKept, HalfKept DEF Half
<1>7. CASE K!Stamp(r)
  <2>1. PICK c \in me.stale :
          IF made[c] = None THEN made' = made
          ELSE made' = [made EXCEPT ![c] = [made[c] EXCEPT !.hash = me.want, !.due = TRUE]]
    BY <1>1, <1>7, Zenon DEF K!Stamp
  <2>2. /\ me.pc = "stamp" /\ cut' = cut /\ c \in K!Collectors
    BY <1>1, <1>7 DEF K!Stamp, ColPasses, K!Collectors
  <2>3. PICK x : colPass' = [colPass EXCEPT ![r] = x]
    BY <1>7, Zenon DEF K!Stamp, K!Over, K!Set
  <2>4. \A d \in Stacks : Half(d)' => Half(d) /\ (d \in cut => d \in cut')
    <3>1. CASE made[c] = None
      BY <2>1, <2>2, <3>1 DEF Half
    <3>2. CASE made[c] # None
      <4>1. PICK m \in K!Templates : m = made[c]
        BY <1>2, <2>2, <3>2
      <4>2. PICK n : n = [m EXCEPT !.hash = me.want, !.due = TRUE] /\ made' = [made EXCEPT ![c] = n]
        BY <2>1, <3>2, <4>1, Zenon
      <4>3. n.plain = m.plain /\ n.env = m.env
        BY <4>2 DEF K!Templates
      <4>4. QED
        BY <1>2, <2>2, <3>2, <4>1, <4>2, <4>3, HalfSame
    <3>3. QED
      BY <3>1, <3>2
  <2>5. QED
    BY <1>1, <2>2, <2>3, <2>4, MidKept, HalfKept
<1>8. CASE K!SyncPart(r)
  <2>1. /\ me.pc \in K!Parts /\ me.pc # "workload" /\ cut' = cut
        /\ made' = [made EXCEPT ![me.pc] = K!Applied(me.pc, me.want)]
    BY <1>1, <1>8 DEF K!SyncPart, K!Parts
  <2>2. PICK x : colPass' = [colPass EXCEPT ![r] = x]
    BY <1>8, Zenon DEF K!SyncPart, K!Over, K!Set
  <2>3. \A d \in Stacks : made'[d] = made[d]
    BY <1>2, <2>1 DEF K!Collectors, ColInv, ColState, K!CollectorsAssumption
  <2>4. QED
    BY <1>1, <2>1, <2>2, <2>3, MidKept, HalfKept DEF Half
<1>9. CASE K!Workload(r)
  BY <1>9, WorkloadHalfInv
<1>10. QED
  BY <1>3, <1>4, <1>5, <1>6, <1>7, <1>8, <1>9, Zenon DEF K!Steps

LEMMA NextHalfInv == ColInv /\ HalfInv /\ K!Next => HalfInv'
<1> SUFFICES ASSUME ColInv, HalfInv, K!Next PROVE HalfInv'
  OBVIOUS
<1>1. CASE K!Reset \/ K!Job \/ K!Backstop
  BY <1>1 DEF K!Reset, K!Job, K!Backstop, HalfInv, Half, Mid
<1>2. ASSUME NEW c \in K!Collectors, K!Start(c) PROVE HalfInv'
  <2>1. /\ made[c] # None /\ UNCHANGED <<colPass, cut>>
        /\ \E w : made' = [made EXCEPT ![c] = [made[c] EXCEPT !.run = w, !.due = FALSE]]
    BY <1>2, Zenon DEF K!Start
  <2>2. PICK m \in K!Templates : m = made[c]
    BY <1>2, <2>1 DEF ColInv, ColState
  <2>3. PICK w, n : n = [m EXCEPT !.run = w, !.due = FALSE] /\ made' = [made EXCEPT ![c] = n]
    BY <2>1, <2>2, Zenon
  <2>4. n.plain = m.plain /\ n.env = m.env
    BY <2>3 DEF K!Templates
  <2>5. \A d \in Stacks : Half(d)' => Half(d) /\ (d \in cut => d \in cut')
    BY <2>1, <2>2, <2>3, <2>4, HalfSame DEF ColInv, ColState
  <2>6. QED
    BY <2>1, <2>5, HalfKept DEF Mid
<1>3. ASSUME NEW r \in Requests,
             K!BeginTick(r) \/ K!BeginInstall(r) \/ K!BeginRemove(r) \/ K!BeginRotate(r)
               \/ K!BeginRepair(r)
      PROVE  HalfInv'
  <2>1. /\ UNCHANGED <<made, cut>> /\ colPass[r].pc = "idle"
        /\ \E x : colPass' = [colPass EXCEPT ![r] = x]
    BY <1>3, Zenon DEF K!BeginTick, K!BeginInstall, K!BeginRemove, K!BeginRotate,
                       K!BeginRepair, K!Begin, K!Set
  <2>2. QED
    BY <2>1, MidKept, HalfKept DEF Half
<1>4. ASSUME NEW r \in Requests, K!Steps(r) \/ K!Ends(r) PROVE HalfInv'
  BY <1>4, StepsHalfInv
<1>5. QED
  BY <1>1, <1>2, <1>3, <1>4, Zenon DEF K!Next

\* A step of the modules together is one of the collectors or leaves them alone.
LEMMA CollectorsSteps ==
  ASSUME [AllNext]_allVars, part = "collectors" PROVE K!Next \/ UNCHANGED colVars
<1>1. CASE UNCHANGED allVars
  BY <1>1 DEF allVars
<1>2. CASE AnnNext \/ ProvNext
  BY <1>2 DEF AnnNext, ProvNext, Ann, Prov
<1>3. CASE RetNext
  BY <1>3 DEF RetNext, Ret
<1>4. CASE CatNext
  BY <1>4 DEF CatNext, Cat
<1>5. CASE ColNext
  BY <1>5, Zenon DEF ColNext, Col, K!Next, K!Steps
<1>6. QED
  BY <1>1, <1>2, <1>3, <1>4, <1>5, Zenon DEF AllNext

\* reconcile_creds: a tick that runs alone to its end has given every collector the
\* password that OpenSearch takes, whatever was left half done before it.
THEOREM TicksSettle == AllSpec => []TickSettlesLogins
<1> DEFINE Inv == part = "collectors" => ColInv /\ HalfInv
<1>1. AllInit => Inv
  BY PartsAssumption, InitColInv, InitHalfInv DEF AllInit
<1>2. Inv /\ [AllNext]_allVars => Inv'
  <2> SUFFICES ASSUME part = "collectors" => ColInv /\ HalfInv, [AllNext]_allVars,
                      part' = "collectors"
               PROVE  ColInv' /\ HalfInv'
    BY Zenon
  <2>1. part' = part
    BY DEF AllNext, allVars, AnnNext, ProvNext, RetNext, ColNext, CatNext, Ann, Prov, Ret, Col, Cat
  <2>2. K!Next \/ UNCHANGED colVars
    BY <2>1, CollectorsSteps
  <2>3. CASE UNCHANGED colVars
    <3>1. UNCHANGED <<admin, accepted, resets, login, made, colPass, colCrossed, torn, cut,
                     ticked>>
      BY <2>3 DEF colVars
    <3>2. UNCHANGED <<K!Own, K!Active>>
      BY <3>1 DEF K!Own, K!Active
    <3>3. ColState' /\ Passes' /\ colPass' \in [Requests -> ColPasses]
      BY <2>1, <3>1 DEF ColInv, ColState, Passes
    <3>4. ~colCrossed => /\ LoginOK' /\ StackOK' /\ \A c \in K!Collectors : MadeOK(c)'
      BY <2>1, <3>1 DEF ColInv, LoginOK, StackOK, MadeOK
    <3>5. ~colCrossed => \A r \in Requests : ColPassOK(colPass[r])'
      BY <2>1, <3>1, <3>2 DEF ColInv, ColPassOK, Asked
    <3>6. ~colCrossed => Exclusive' /\ TickOK'
      BY <2>1, <3>1, <3>2 DEF ColInv, Exclusive, TickOK, LeftTo, Settled
    <3>7. ColInv'
      BY <2>1, <3>1, <3>3, <3>4, <3>5, <3>6 DEF ColInv
    <3>8. HalfInv'
      BY <2>1, <3>1 DEF HalfInv, Half, Mid
    <3>9. QED
      BY <3>7, <3>8
  <2>4. QED
    BY <2>1, <2>2, <2>3, NextColInv, NextHalfInv
<1>3. Inv => TickSettlesLogins
  BY ColInvIs DEF TickSettlesLogins
<1>4. QED
  BY <1>1, <1>2, <1>3, PTL DEF AllSpec
-----------------------------------------------------------------------------
(* Catalog: one integration, installed from the registry and removed.        *)

\* A request whose package has verified, or that goes by a compiled-in recipe.
Working == {"config", "saved", "agent", "monitor", "version", "remove", "teardown"}
CatPcs == Working \cup {"idle", "load", "store", "manifest", "files", "verify"}
CatReqs == [pc : CatPcs, kind : {"install", "uninstall", None}, want : Nat \cup {None},
            resolved : Nat \cup {None}, manifest : Nat \cup {None}, files : Nat \cup {None}]

CatState ==
  /\ published \in Nat /\ seen \subseteq Nat /\ catCrossed \in BOOLEAN
  /\ cache = None \/ cache \in [version : Nat, fresh : BOOLEAN]
  /\ catReq \in [Requests -> CatReqs]

\* What a request has and is, at each of its awaits.
CatKinds ==
  \A r \in Requests :
    /\ catReq[r].pc # "idle" => catReq[r].kind \in {"install", "uninstall"}
    /\ catReq[r].pc \in {"load", "store", "config", "saved", "agent", "version"} =>
         catReq[r].kind = "install"
    /\ catReq[r].pc \in {"remove", "teardown"} => catReq[r].kind = "uninstall"
    /\ catReq[r].pc = "store" => catReq[r].resolved \in Nat
    /\ catReq[r].pc \in {"files", "verify"} => catReq[r].manifest \in Nat
    /\ catReq[r].pc \in Working => catReq[r].manifest \in seen

\* Without a crossing a removal is alone, and whoever works does so with one version.
Uncrossed ==
  ~catCrossed => \A q, r \in Requests :
    /\ q # r /\ catReq[q].pc # "idle" /\ catReq[r].pc # "idle" => catReq[q].kind = "install"
    /\ catReq[q].pc \in Working /\ catReq[r].pc \in Working =>
         catReq[q].manifest = catReq[r].manifest

\* What the collector and the CR have of it when a request is about to write the next.
Mine(r) ==
  /\ catReq[r].pc \in Working /\ catReq[r].kind = "install" =>
       catReq[r].resolved = catReq[r].manifest
  /\ catReq[r].pc \in {"monitor", "version"} /\ catReq[r].kind = "install" =>
       agent = catReq[r].manifest
  /\ catReq[r].pc = "version" => monitor = TRUE
  /\ catReq[r].pc \in {"teardown", "monitor"} /\ catReq[r].kind = "uninstall" => agent = None

\* The CR says what runs, or somebody is about to see to it.
Told ==
  /\ agent \in Nat \cup {None}
  /\ recorded = agent \/ \E r \in Requests : catReq[r].pc \in {"teardown", "monitor", "version"}
  /\ monitor = (agent # None) \/ \E r \in Requests : catReq[r].pc \in {"teardown", "monitor"}

AgreeCat == ~catCrossed /\ ~catAmiss /\ ~late => Told /\ \A r \in Requests : Mine(r)

Nothing == objects = {} /\ agent = None

\* A removal has taken away what its next step supposes.
Leaves(r) ==
  /\ catReq[r].pc = "teardown" => agent = None
  /\ catReq[r].pc = "monitor" /\ catReq[r].kind = "uninstall" => Nothing

\* With one version in all, what is not monitored is not there, or an install is at it.
GoneCat ==
  ~catCrossed /\ ~catAmiss /\ (\A v, w \in seen : v = w) =>
    /\ ~monitor => Nothing \/ \E r \in Requests : /\ catReq[r].pc \in {"saved", "agent", "monitor"}
                                                  /\ catReq[r].kind = "install"
    /\ \A r \in Requests : Leaves(r)

\* Whatever is in OpenSearch came with a version that was applied or removed.
Objs == \A o \in objects : \E v \in seen : o \in G!Teardown(v)

CatInv == CatState /\ CatKinds /\ Uncrossed /\ AgreeCat /\ GoneCat /\ Objs

LEMMA InitCatInv == G!CatalogAssumption /\ G!Init => CatInv
<1> SUFFICES ASSUME G!CatalogAssumption, G!Init PROVE CatInv
  OBVIOUS
<1>1. CatState
  <2>1. published \in Nat
    BY DEF G!Init, G!Absent, G!Builtin
  <2>2. G!Idle \in CatReqs
    BY DEF G!Idle, CatReqs, CatPcs
  <2>3. catReq \in [Requests -> CatReqs]
    BY <2>2 DEF G!Init
  <2>4. QED
    BY <2>1, <2>3 DEF G!Init, CatState
<1>2. \A r \in Requests : catReq[r].pc = "idle" /\ catReq[r].kind = None
  BY DEF G!Init, G!Idle
<1>3. CatKinds /\ Uncrossed /\ Objs
  BY <1>2 DEF G!Init, CatKinds, Uncrossed, Objs, Working
<1>4. AgreeCat /\ GoneCat
  BY <1>2 DEF G!Init, AgreeCat, GoneCat, Told, Mine, Leaves, Nothing, Working
<1>5. QED
  BY <1>1, <1>3, <1>4 DEF CatInv

-----------------------------------------------------------------------------
(* Steps of a request.                                                       *)

\* r goes on as me, and the others stay where they are.
Goes(r, me) ==
  /\ me \in CatReqs /\ catReq' = [catReq EXCEPT ![r] = me]

LEMMA AtGoes ==
  ASSUME CatState, NEW r \in Requests, NEW pc \in CatPcs, G!At(r, pc)
  PROVE  \E me : /\ Goes(r, me) /\ me.pc = pc
                 /\ pc # "idle" => /\ me.kind = catReq[r].kind
                                   /\ me.manifest = catReq[r].manifest
                                   /\ me.resolved = catReq[r].resolved
<1>1. PICK i \in CatReqs : i = G!Idle
  BY DEF G!Idle, CatReqs, CatPcs
<1>2. catReq[r] \in CatReqs
  BY DEF CatState
<1>3. PICK m \in CatReqs : m = IF pc = "idle" THEN i ELSE catReq[r]
  BY <1>1, <1>2
<1>4. catReq' = [catReq EXCEPT ![r] = [m EXCEPT !.pc = pc]]
  BY <1>1, <1>3, Zenon DEF G!At, G!Set
<1>5. PICK me : me = [m EXCEPT !.pc = pc]
  OBVIOUS
<1>6. me \in CatReqs /\ me.pc = pc /\ me.kind = m.kind /\ me.manifest = m.manifest
      /\ me.resolved = m.resolved
  BY <1>5 DEF CatReqs
<1>7. QED
  BY <1>3, <1>4, <1>5, <1>6 DEF Goes

\* A request that has not verified anything yet, before and after the step.
LEMMA EarlyStep ==
  ASSUME CatInv, NEW r \in Requests, NEW me, Goes(r, me),
         catReq[r].pc \notin Working, me.pc \notin Working,
         me.pc # "idle" => me.kind \in {"install", "uninstall"},
         me.pc \in {"load", "store"} => me.kind = "install",
         me.pc = "store" => me.resolved \in Nat,
         me.pc \in {"files", "verify"} => me.manifest \in Nat,
         ~catCrossed' => /\ ~catCrossed
                         /\ me.pc # "idle" => \A q \in Requests \ {r} :
                              catReq[q].pc # "idle" =>
                                catReq[q].kind = "install" /\ me.kind = "install",
         UNCHANGED <<id, objects, agent, monitor, recorded, catAmiss, late, seen>>
  PROVE  CatKinds' /\ Uncrossed' /\ AgreeCat' /\ GoneCat' /\ Objs'
<1>1. /\ catReq'[r] = me
      /\ \A q \in Requests : q # r => catReq'[q] = catReq[q]
  BY DEF Goes, CatInv, CatState
<1>2. CatKinds'
  BY <1>1 DEF CatInv, CatKinds, Working
<1>3. Uncrossed'
  BY <1>1 DEF CatInv, Uncrossed
<1>4. \A q \in Requests : catReq[q].pc \in Working \/ catReq'[q].pc \in Working => catReq'[q] = catReq[q]
  BY <1>1
<1>5. AgreeCat'
  <2> SUFFICES ASSUME ~catCrossed', ~catAmiss', ~late' PROVE Told' /\ \A q \in Requests : Mine(q)'
    BY DEF AgreeCat
  <2>1. Told /\ \A q \in Requests : Mine(q)
    BY DEF CatInv, AgreeCat
  <2>2. Told'
    BY <1>4, <2>1 DEF Told, Working
  <2>3. QED
    BY <1>4, <2>1, <2>2 DEF Mine, Working
<1>6. GoneCat'
  BY <1>4 DEF CatInv, GoneCat, Leaves, Nothing, Working
<1>7. Objs'
  BY DEF CatInv, Objs, G!Teardown, G!Config, G!Saved, G!Floor
<1>8. QED
  BY <1>2, <1>3, <1>5, <1>6, <1>7

\* Resolve ends the request or names the version it is to fetch.
LEMMA ResolveGoes ==
  ASSUME CatState, NEW r \in Requests, NEW entry \in Nat, NEW degraded \in BOOLEAN,
         G!Resolve(r, entry, degraded)
  PROVE  \E me : /\ Goes(r, me) /\ me.pc \in {"idle", "manifest"}
                 /\ me.pc # "idle" => me.kind = catReq[r].kind
<1>1. CASE G!At(r, "idle")
  BY <1>1, AtGoes DEF CatPcs
<1>2. CASE ~G!At(r, "idle")
  <2>1. PICK v \in Nat : v = IF entry = G!Absent THEN G!Builtin ELSE entry
    BY DEF G!Builtin
  <2>2. PICK m \in CatReqs : m = catReq[r]
    BY DEF CatState
  <2>3. PICK me : me = [m EXCEPT !.pc = "manifest", !.want = None, !.resolved = v]
    OBVIOUS
  <2>4. catReq' = [catReq EXCEPT ![r] = me]
    BY <1>2, <2>1, <2>2, <2>3, Zenon DEF G!Resolve, G!Set
  <2>5. me \in CatReqs /\ me.pc = "manifest" /\ me.kind = m.kind
    BY <2>1, <2>2, <2>3 DEF CatReqs, CatPcs, Working
  <2>6. QED
    BY <2>2, <2>4, <2>5 DEF Goes
<1>3. QED
  BY <1>1, <1>2

LEMMA BeginCatInv ==
  ASSUME CatInv, NEW r \in Requests, G!BeginInstall(r) \/ G!BeginUninstall(r)
  PROVE  CatInv'
<1>1. PICK kind \in {"install", "uninstall"}, pc \in {"load", "manifest"},
           want \in Nat \cup {None} :
        G!Begin(r, kind, pc, want) /\ (pc = "load" => kind = "install")
  <2>1. G!Versions \subseteq Nat
    BY PartsAssumption DEF G!Versions, G!CatalogAssumption
  <2>2. QED
    BY <2>1 DEF G!BeginInstall, G!BeginUninstall
<1>2. PICK i \in CatReqs : i = G!Idle
  BY DEF G!Idle, CatReqs, CatPcs
<1>3. PICK me : me = [i EXCEPT !.kind = kind, !.pc = pc, !.want = want]
  OBVIOUS
<1>4. me \in CatReqs /\ me.pc = pc /\ me.kind = kind
  BY <1>2, <1>3 DEF CatReqs, CatPcs
<1>5. Goes(r, me)
  BY <1>1, <1>2, <1>3, <1>4, Zenon DEF G!Begin, G!Set, Goes
<1>6. ~catCrossed' => /\ ~catCrossed
                      /\ \A q \in Requests \ {r} :
                           catReq[q].pc # "idle" => catReq[q].kind = "install" /\ kind = "install"
  BY <1>1 DEF G!Begin, G!Active
<1>7. catReq[r].pc = "idle"
  BY <1>1 DEF G!Begin
<1>8. UNCHANGED <<id, published, cache, objects, agent, monitor, recorded, catAmiss, late, seen>>
  BY <1>1 DEF G!Begin, G!cr
<1>9. CatKinds' /\ Uncrossed' /\ AgreeCat' /\ GoneCat' /\ Objs'
  BY <1>1, <1>4, <1>5, <1>6, <1>7, <1>8, EarlyStep DEF Working
<1>10. CatState'
  <2>1. catCrossed' \in BOOLEAN
    BY <1>1 DEF G!Begin
  <2>2. QED
    BY <1>5, <1>8, <2>1 DEF CatInv, CatState, Goes
<1>11. QED
  BY <1>9, <1>10 DEF CatInv

\* The steps of load, and what is fetched.
LEMMA FetchCatInv ==
  ASSUME CatInv, NEW r \in Requests,
         G!ServeFresh(r) \/ G!Ask(r) \/ G!Store(r) \/ G!AskFails(r) \/ G!FetchManifest(r) \/
         G!FetchFiles(r)
  PROVE  CatInv'
<1>1. /\ catReq[r].pc \in {"load", "store", "manifest", "files"}
      /\ UNCHANGED <<id, published, objects, agent, monitor, recorded, catCrossed, catAmiss, late, seen>>
  BY DEF G!ServeFresh, G!Ask, G!Store, G!AskFails, G!FetchManifest, G!FetchFiles, G!cr
<1>2. PICK m \in CatReqs : m = catReq[r]
  BY DEF CatInv, CatState
<1>3. /\ cache' = None \/ cache' \in [version : Nat, fresh : BOOLEAN]
      /\ \E me : /\ Goes(r, me) /\ me.pc \in {"idle", "store", "manifest", "files", "verify"}
                 /\ me.pc # "idle" => me.kind = catReq[r].kind
                 /\ me.pc = "store" => catReq[r].pc = "load" /\ me.resolved \in Nat
                 /\ me.pc \in {"files", "verify"} => me.manifest \in Nat
  <2>1. CASE G!ServeFresh(r)
    <3>1. cache.version \in Nat
      BY <2>1 DEF G!ServeFresh, G!Fresh, CatInv, CatState
    <3>2. QED
      BY <2>1, <3>1, ResolveGoes DEF G!ServeFresh, CatInv, CatState
  <2>2. CASE G!Ask(r)
    <3>1. PICK me : me = [m EXCEPT !.pc = "store", !.resolved = published]
      OBVIOUS
    <3>2. me \in CatReqs /\ me.pc = "store" /\ me.kind = m.kind /\ me.resolved \in Nat
      BY <1>2, <3>1 DEF CatReqs, CatPcs, Working, CatInv, CatState
    <3>3. Goes(r, me)
      BY <1>2, <2>2, <3>1, <3>2, Zenon DEF G!Ask, G!Set, Goes
    <3>4. QED
      BY <1>2, <2>2, <3>2, <3>3 DEF G!Ask, CatInv, CatState
  <2>3. CASE G!Store(r)
    <3>1. catReq[r].resolved \in Nat
      BY <2>3 DEF G!Store, CatInv, CatKinds
    <3>2. QED
      BY <2>3, <3>1, ResolveGoes DEF G!Store, CatInv, CatState
  <2>4. CASE G!AskFails(r)
    <3>1. (IF cache # None THEN cache.version
           ELSE IF id \in G!Floor THEN G!Builtin ELSE G!Absent) \in Nat
      BY DEF G!Builtin, G!Absent, CatInv, CatState
    <3>2. QED
      BY <2>4, <3>1, ResolveGoes DEF G!AskFails, CatInv, CatState
  <2>5. CASE G!FetchManifest(r)
    <3>1. PICK me : me = [m EXCEPT !.pc = "files", !.manifest = published]
      OBVIOUS
    <3>2. me \in CatReqs /\ me.pc = "files" /\ me.kind = m.kind /\ me.manifest \in Nat
      BY <1>2, <3>1 DEF CatReqs, CatPcs, Working, CatInv, CatState
    <3>3. Goes(r, me)
      BY <1>2, <2>5, <3>1, <3>2, Zenon DEF G!FetchManifest, G!Set, Goes
    <3>4. QED
      BY <1>2, <2>5, <3>2, <3>3 DEF G!FetchManifest, CatInv, CatState
  <2>6. CASE G!FetchFiles(r)
    <3>1. PICK me : me = [m EXCEPT !.pc = "verify", !.files = published]
      OBVIOUS
    <3>2. me \in CatReqs /\ me.pc = "verify" /\ me.kind = m.kind /\ me.manifest = m.manifest
      BY <1>2, <3>1 DEF CatReqs, CatPcs, Working, CatInv, CatState
    <3>5. m.manifest \in Nat
      BY <1>2, <2>6 DEF G!FetchFiles, CatInv, CatKinds
    <3>3. Goes(r, me)
      BY <1>2, <2>6, <3>1, <3>2, Zenon DEF G!FetchFiles, G!Set, Goes
    <3>4. QED
      BY <1>2, <2>6, <3>2, <3>3, <3>5 DEF G!FetchFiles, CatInv, CatState
  <2>7. QED
    BY <2>1, <2>2, <2>3, <2>4, <2>5, <2>6
<1>4. PICK me : /\ Goes(r, me) /\ me.pc \in {"idle", "store", "manifest", "files", "verify"}
                /\ me.pc # "idle" => me.kind = catReq[r].kind
                /\ me.pc = "store" => catReq[r].pc = "load" /\ me.resolved \in Nat
                /\ me.pc \in {"files", "verify"} => me.manifest \in Nat
  BY <1>3
<1>5. CatKinds' /\ Uncrossed' /\ AgreeCat' /\ GoneCat' /\ Objs'
  <2>1. catReq[r].kind \in {"install", "uninstall"} /\ (catReq[r].pc = "load" => catReq[r].kind = "install")
    BY <1>1 DEF CatInv, CatKinds
  <2>2. ~catCrossed' => /\ ~catCrossed
                        /\ \A q \in Requests \ {r} :
                             catReq[q].pc # "idle" =>
                               catReq[q].kind = "install" /\ catReq[r].kind = "install"
    BY <1>1 DEF CatInv, Uncrossed
  <2>3. QED
    BY <1>1, <1>4, <2>1, <2>2, EarlyStep DEF Working
<1>6. CatState'
  BY <1>1, <1>3, <1>4 DEF CatInv, CatState, Goes
<1>7. QED
  BY <1>5, <1>6 DEF CatInv

-----------------------------------------------------------------------------
(* A package that verifies, or the recipe that stands in for it.             *)

\* r has its version and starts to work: no other works with another one.
LEMMA StartsCatInv ==
  ASSUME CatInv, NEW r \in Requests, NEW me, Goes(r, me), NEW v \in Nat,
         catReq[r].pc \in {"manifest", "files", "verify"},
         me.kind = catReq[r].kind, me.manifest = v, me.pc = G!Start(catReq[r]),
         seen' = seen \cup {v}, v \in Nat, None \notin Nat,
         ~late' => ~late /\ (me.kind = "install" => me.resolved = v),
         catCrossed' = (catCrossed \/ G!Crosses(r, v)),
         UNCHANGED <<id, published, cache, objects, agent, monitor, recorded, catAmiss>>
  PROVE  CatInv'
<1>1. /\ catReq'[r] = me
      /\ \A q \in Requests : q # r => catReq'[q] = catReq[q]
  BY DEF Goes, CatInv, CatState
<1>2. /\ me.kind \in {"install", "uninstall"}
      /\ me.kind = "install" => me.pc = "config"
      /\ me.kind = "uninstall" => me.pc = "remove"
  BY DEF G!Start, CatInv, CatKinds
<1>3. CatState'
  BY DEF CatInv, CatState, Goes
<1>4. CatKinds'
  BY <1>1, <1>2 DEF CatInv, CatKinds
<1>5. ~catCrossed' => ~catCrossed /\ \A q \in Requests \ {r} :
                        catReq[q].pc \in Working => catReq[q].manifest = v
  <2> SUFFICES ASSUME ~catCrossed', NEW q \in Requests, q # r, catReq[q].pc \in Working
               PROVE  catReq[q].manifest = v
    OBVIOUS
  <2>1. q \in G!Active \ {r} /\ catReq[q].pc \notin {"files", "verify"}
    BY DEF G!Active, Working
  <2>2. catReq[q].manifest \in Nat
    BY DEF CatInv, CatKinds, CatState
  <2>3. QED
    BY <2>1, <2>2 DEF G!Crosses
<1>6. Uncrossed'
  BY <1>1, <1>5 DEF CatInv, Uncrossed
<1>7. \A q \in Requests : /\ catReq[q].pc \in Working \ {"config", "remove"} => catReq'[q] = catReq[q]
                          /\ catReq'[q].pc \in Working \ {"config", "remove"} => catReq'[q] = catReq[q]
  BY <1>1, <1>2 DEF Working
<1>8. AgreeCat'
  <2> SUFFICES ASSUME ~catCrossed', ~catAmiss', ~late' PROVE Told' /\ \A q \in Requests : Mine(q)'
    BY DEF AgreeCat
  <2>1. Told /\ \A q \in Requests : Mine(q)
    BY <1>5 DEF CatInv, AgreeCat
  <2>2. Told'
    BY <1>7, <2>1 DEF Told, Working
  <2>3. Mine(r)'
    BY <1>1, <1>2, <2>1 DEF Mine
  <2>4. ASSUME NEW q \in Requests, q # r PROVE Mine(q)'
    BY <1>1, <2>1, <2>4 DEF Mine
  <2>5. QED
    BY <2>2, <2>3, <2>4
<1>9. GoneCat'
  <2> SUFFICES ASSUME ~catCrossed', ~catAmiss', (\A x, w \in seen : x = w)'
               PROVE  /\ ~monitor' => \/ Nothing'
                                      \/ \E q \in Requests :
                                           /\ catReq'[q].pc \in {"saved", "agent", "monitor"}
                                           /\ catReq'[q].kind = "install"
                      /\ \A q \in Requests : Leaves(q)'
    BY DEF GoneCat
  <2>1. \A x, w \in seen : x = w
    OBVIOUS
  <2>2. /\ ~monitor => Nothing \/ \E q \in Requests : /\ catReq[q].pc \in {"saved", "agent", "monitor"}
                                                      /\ catReq[q].kind = "install"
        /\ \A q \in Requests : Leaves(q)
    BY <1>5, <2>1 DEF CatInv, GoneCat
  <2>3. QED
    BY <1>7, <2>2 DEF Nothing, Leaves, Working
<1>10. Objs'
  BY DEF CatInv, Objs, G!Teardown, G!Config, G!Saved, G!Floor
<1>11. QED
  BY <1>3, <1>4, <1>6, <1>8, <1>9, <1>10 DEF CatInv

LEMMA VerifyCatInv ==
  ASSUME CatInv, NEW r \in Requests, G!Verify(r) \/ G!Fallback(r), None \notin Nat
  PROVE  CatInv'
<1>1. catReq[r].pc \in {"manifest", "files", "verify"}
  BY DEF G!Verify, G!Fallback
<1>2. CASE G!At(r, "idle") /\ UNCHANGED <<id, published, cache, objects, agent, monitor, recorded, catAmiss, late, seen, catCrossed>>
  <2>1. PICK me : Goes(r, me) /\ me.pc = "idle"
    BY <1>2, AtGoes DEF CatPcs, CatInv
  <2>2. CatKinds' /\ Uncrossed' /\ AgreeCat' /\ GoneCat' /\ Objs'
    BY <1>1, <1>2, <2>1, EarlyStep DEF Working
  <2>3. CatState'
    BY <1>2, <2>1 DEF CatInv, CatState, Goes
  <2>4. QED
    BY <2>2, <2>3 DEF CatInv
<1>3. ASSUME G!Verify(r), G!Verifies(catReq[r]) PROVE CatInv'
  <2>1. PICK v \in Nat : v = catReq[r].manifest
    BY <1>3 DEF G!Verify, CatInv, CatKinds
  <2>2. PICK pc \in CatPcs : pc = G!Start(catReq[r])
    BY DEF G!Start, CatPcs, Working
  <2>3. G!At(r, pc) /\ pc # "idle"
    BY <1>3, <2>2 DEF G!Verify, G!Start
  <2>4. PICK me : /\ Goes(r, me) /\ me.pc = pc /\ me.kind = catReq[r].kind
                  /\ me.manifest = v /\ me.resolved = catReq[r].resolved
    BY <2>1, <2>3, AtGoes DEF CatInv
  <2>5. /\ seen' = seen \cup {v}
        /\ ~late' => ~late /\ (me.kind = "install" => me.resolved = v)
        /\ catCrossed' = (catCrossed \/ G!Crosses(r, v))
        /\ UNCHANGED <<id, published, cache, objects, agent, monitor, recorded, catAmiss>>
    BY <1>3, <2>1, <2>4 DEF G!Verify, G!cr
  <2>6. QED
    BY <1>1, <2>2, <2>4, <2>5, StartsCatInv
<1>4. ASSUME G!Fallback(r), G!StandsIn(catReq[r].kind) PROVE CatInv'
  <2>1. PICK m \in CatReqs : m = catReq[r]
    BY DEF CatInv, CatState
  <2>2. PICK pc \in CatPcs : pc = G!Start(m)
    BY DEF G!Start, CatPcs, Working
  <2>3. PICK v \in Nat : v = G!Builtin
    BY DEF G!Builtin
  <2>4. PICK me : me = [m EXCEPT !.pc = pc, !.manifest = v, !.files = v, !.resolved = v]
    OBVIOUS
  <2>5. me \in CatReqs /\ me.pc = pc /\ me.manifest = v /\ me.kind = m.kind /\ me.resolved = v
    BY <2>1, <2>4 DEF CatReqs
  <2>6. Goes(r, me)
    BY <1>4, <2>1, <2>2, <2>3, <2>4, <2>5, Zenon DEF G!Fallback, G!Set, Goes
  <2>7. /\ seen' = seen \cup {v} /\ late' = late
        /\ catCrossed' = (catCrossed \/ G!Crosses(r, v))
        /\ UNCHANGED <<id, published, cache, objects, agent, monitor, recorded, catAmiss>>
    BY <1>4, <2>3 DEF G!Fallback, G!cr
  <2>8. QED
    BY <1>1, <2>1, <2>2, <2>5, <2>6, <2>7, StartsCatInv
<1>5. CASE G!Verify(r)
  BY <1>2, <1>3, <1>5 DEF G!Verify, G!cr
<1>6. CASE G!Fallback(r) /\ ~G!StandsIn(catReq[r].kind)
  <2>1. catCrossed' = catCrossed
    BY <1>6 DEF G!Fallback, CatInv, CatState
  <2>2. QED
    BY <1>2, <1>6, <2>1 DEF G!Fallback, G!cr
<1>7. QED
  BY <1>4, <1>5, <1>6

-----------------------------------------------------------------------------
(* What a request writes.                                                    *)

\* A request that works goes on to the next of its steps.
LEMMA WorksOn ==
  ASSUME CatInv, NEW r \in Requests, NEW pc \in CatPcs, G!At(r, pc),
         catReq[r].pc \in Working, pc \in Working \cup {"idle"},
         pc \in {"config", "saved", "agent", "version"} => catReq[r].kind = "install",
         pc \in {"remove", "teardown"} => catReq[r].kind = "uninstall",
         UNCHANGED <<published, cache, seen, catCrossed>>
  PROVE  /\ CatState' /\ CatKinds' /\ Uncrossed'
         /\ \A q \in Requests : q # r => catReq'[q] = catReq[q]
         /\ catReq'[r].pc = pc
         /\ pc # "idle" => /\ catReq'[r].kind = catReq[r].kind
                           /\ catReq'[r].manifest = catReq[r].manifest
                           /\ catReq'[r].resolved = catReq[r].resolved
<1>1. PICK me : /\ Goes(r, me) /\ me.pc = pc
                /\ pc # "idle" => /\ me.kind = catReq[r].kind
                                  /\ me.manifest = catReq[r].manifest
                                  /\ me.resolved = catReq[r].resolved
  BY AtGoes DEF CatInv
<1>2. /\ catReq'[r] = me
      /\ \A q \in Requests : q # r => catReq'[q] = catReq[q]
  BY <1>1 DEF Goes, CatInv, CatState
<1>3. CatState'
  BY <1>1 DEF CatInv, CatState, Goes
<1>4. CatKinds'
  BY <1>1, <1>2 DEF CatInv, CatKinds, Working
<1>5. Uncrossed'
  BY <1>1, <1>2 DEF CatInv, Uncrossed, Working
<1>6. QED
  BY <1>1, <1>2, <1>3, <1>4, <1>5

\* An install alone, or with others of its version.
LEMMA Together ==
  ASSUME CatInv, ~catCrossed, NEW r \in Requests, catReq[r].pc \in Working
  PROVE  \A q \in Requests \ {r} :
           /\ catReq[q].pc # "idle" => catReq[q].kind = "install" /\ catReq[r].kind = "install"
           /\ catReq[q].pc \in Working => catReq[q].manifest = catReq[r].manifest
BY DEF CatInv, Uncrossed, Working

LEMMA PutCatInv ==
  ASSUME CatInv, NEW r \in Requests, G!PutConfig(r) \/ G!PutSaved(r) PROVE CatInv'
<1>1. /\ catReq[r].pc \in {"config", "saved"} /\ catReq[r].kind = "install"
      /\ UNCHANGED <<id, published, cache, agent, monitor, recorded, catCrossed, catAmiss, late, seen>>
  BY DEF G!PutConfig, G!PutSaved, G!cr, CatInv, CatKinds
<1>2. PICK pc \in {"saved", "agent"} : G!At(r, pc)
  BY DEF G!PutConfig, G!PutSaved
<1>3. /\ CatState' /\ CatKinds' /\ Uncrossed'
      /\ \A q \in Requests : q # r => catReq'[q] = catReq[q]
      /\ catReq'[r].pc = pc /\ catReq'[r].kind = "install"
      /\ catReq'[r].manifest = catReq[r].manifest
      /\ catReq'[r].resolved = catReq[r].resolved
  BY <1>1, <1>2, WorksOn DEF CatPcs, Working
<1>4. AgreeCat'
  <2> SUFFICES ASSUME ~catCrossed, ~catAmiss, ~late PROVE Told' /\ \A q \in Requests : Mine(q)'
    BY <1>1 DEF AgreeCat
  <2>1. Told /\ \A q \in Requests : Mine(q)
    BY DEF CatInv, AgreeCat
  <2>2. Told'
    BY <1>1, <1>3, <2>1 DEF Told
  <2>3. Mine(r)'
    BY <1>1, <1>2, <1>3, <2>1 DEF Mine, Working
  <2>4. ASSUME NEW q \in Requests, q # r PROVE Mine(q)'
    BY <1>1, <1>3, <2>1, <2>4 DEF Mine
  <2>5. QED
    BY <2>2, <2>3, <2>4
<1>5. GoneCat'
  <2> SUFFICES ASSUME ~catCrossed PROVE \A q \in Requests : Leaves(q)'
    BY <1>1, <1>2, <1>3 DEF GoneCat
  <2>1. \A q \in Requests : catReq'[q].pc \in {"teardown", "monitor"} => catReq'[q].kind = "install"
    BY <1>1, <1>2, <1>3, Together DEF Working
  <2>2. \A q \in Requests : catReq'[q].pc # "teardown"
    BY <1>3, <2>1 DEF CatKinds
  <2>3. QED
    BY <2>1, <2>2 DEF Leaves
<1>6. Objs'
  <2>1. catReq[r].manifest \in seen
    BY <1>1 DEF CatInv, CatKinds, Working
  <2>2. objects' \subseteq objects \cup G!Teardown(catReq[r].manifest)
    BY DEF G!PutConfig, G!PutSaved, G!Teardown
  <2>3. \A v : (G!Teardown(v))' = G!Teardown(v)
    BY <1>1 DEF G!Teardown, G!Config, G!Saved, G!Floor
  <2>4. QED
    BY <1>1, <2>1, <2>2, <2>3 DEF CatInv, Objs
<1>7. QED
  BY <1>3, <1>4, <1>5, <1>6 DEF CatInv

LEMMA DeployCatInv ==
  ASSUME CatInv, NEW r \in Requests, G!DeployAgent(r) PROVE CatInv'
<1>1. /\ catReq[r].pc = "agent" /\ catReq[r].kind = "install"
      /\ catReq[r].manifest \in Nat /\ agent' = catReq[r].manifest
      /\ UNCHANGED <<id, published, cache, objects, monitor, recorded, catCrossed, catAmiss, late, seen>>
  BY DEF G!DeployAgent, G!cr, CatInv, CatKinds, CatState, Working
<1>2. G!At(r, "monitor")
  BY DEF G!DeployAgent
<1>3. /\ CatState' /\ CatKinds' /\ Uncrossed'
      /\ \A q \in Requests : q # r => catReq'[q] = catReq[q]
      /\ catReq'[r].pc = "monitor" /\ catReq'[r].kind = "install"
      /\ catReq'[r].manifest = catReq[r].manifest
      /\ catReq'[r].resolved = catReq[r].resolved
  BY <1>1, <1>2, WorksOn DEF CatPcs, Working
<1>4. ~catCrossed => \A q \in Requests \ {r} :
        /\ catReq[q].pc # "idle" => catReq[q].kind = "install"
        /\ catReq[q].pc \in Working => catReq[q].manifest = catReq[r].manifest
  BY <1>1, Together DEF Working
<1>5. AgreeCat'
  <2> SUFFICES ASSUME ~catCrossed, ~catAmiss, ~late PROVE Told' /\ \A q \in Requests : Mine(q)'
    BY <1>1 DEF AgreeCat
  <2>1. Told /\ \A q \in Requests : Mine(q)
    BY DEF CatInv, AgreeCat
  <2>2. Told'
    BY <1>1, <1>3, <2>1 DEF Told
  <2>3. Mine(r)'
    BY <1>1, <1>2, <1>3, <2>1 DEF Mine, Working
  <2>4. ASSUME NEW q \in Requests, q # r PROVE Mine(q)'
    BY <1>1, <1>3, <1>4, <2>1, <2>4 DEF Mine, Working
  <2>5. QED
    BY <2>2, <2>3, <2>4
<1>6. GoneCat'
  <2> SUFFICES ASSUME ~catCrossed PROVE \A q \in Requests : Leaves(q)'
    BY <1>1, <1>2, <1>3 DEF GoneCat
  <2>1. \A q \in Requests : catReq'[q].pc \in {"teardown", "monitor"} => catReq'[q].kind = "install"
    BY <1>3, <1>4
  <2>2. \A q \in Requests : catReq'[q].pc # "teardown"
    BY <1>3, <2>1 DEF CatKinds
  <2>3. QED
    BY <2>1, <2>2 DEF Leaves
<1>7. Objs'
  BY <1>1 DEF CatInv, Objs, G!Teardown, G!Config, G!Saved, G!Floor
<1>8. QED
  BY <1>3, <1>5, <1>6, <1>7 DEF CatInv

LEMMA MonitorCatInv ==
  ASSUME CatInv, NEW r \in Requests, G!SetMonitor(r) PROVE CatInv'
<1>1. /\ catReq[r].pc = "monitor" /\ catReq[r].manifest \in Nat
      /\ catReq[r].kind \in {"install", "uninstall"}
      /\ UNCHANGED <<id, published, cache, objects, agent, catCrossed, catAmiss, late, seen>>
  BY DEF G!SetMonitor, CatInv, CatKinds, CatState, Working
<1>2. PICK pc \in {"version", "idle"} :
        /\ G!At(r, pc)
        /\ catReq[r].kind = "install" => pc = "version" /\ monitor' = TRUE /\ recorded' = recorded
        /\ catReq[r].kind = "uninstall" => pc = "idle" /\ monitor' = FALSE /\ recorded' = None
  BY DEF G!SetMonitor
<1>3. /\ CatState' /\ CatKinds' /\ Uncrossed'
      /\ \A q \in Requests : q # r => catReq'[q] = catReq[q]
      /\ catReq'[r].pc = pc
      /\ pc # "idle" => /\ catReq'[r].kind = "install"
                        /\ catReq'[r].manifest = catReq[r].manifest
                        /\ catReq'[r].resolved = catReq[r].resolved
  BY <1>1, <1>2, WorksOn DEF CatPcs, Working
<1>4. ~catCrossed => \A q \in Requests \ {r} :
        /\ catReq[q].pc # "idle" => catReq[q].kind = "install" /\ catReq[r].kind = "install"
        /\ catReq[q].pc \in Working => catReq[q].manifest = catReq[r].manifest
  BY <1>1, Together DEF Working
<1>5. ASSUME None \notin Nat PROVE AgreeCat'
  <2> SUFFICES ASSUME ~catCrossed, ~catAmiss, ~late PROVE Told' /\ \A q \in Requests : Mine(q)'
    BY <1>1 DEF AgreeCat
  <2>1. Told /\ \A q \in Requests : Mine(q)
    BY DEF CatInv, AgreeCat
  <2>2. CASE catReq[r].kind = "install"
    <3>1. agent \in Nat
      BY <1>1, <2>1, <2>2 DEF Mine
    <3>2. Told'
      BY <1>1, <1>2, <1>3, <1>5, <2>2, <3>1 DEF Told
    <3>3. Mine(r)'
      BY <1>1, <1>2, <1>3, <2>1, <2>2 DEF Mine, Working
    <3>4. ASSUME NEW q \in Requests, q # r PROVE Mine(q)'
      BY <1>1, <1>2, <1>3, <2>1, <2>2, <3>4 DEF Mine, Working
    <3>5. QED
      BY <3>2, <3>3, <3>4
  <2>3. CASE catReq[r].kind = "uninstall"
    <3>1. agent = None
      BY <1>1, <2>1, <2>3 DEF Mine
    <3>2. \A q \in Requests : catReq'[q].pc = "idle"
      BY <1>2, <1>3, <1>4, <2>3
    <3>3. QED
      BY <1>1, <1>2, <2>3, <3>1, <3>2 DEF Told, Mine, Working
  <2>4. QED
    BY <1>1, <2>2, <2>3
<1>6. GoneCat'
  <2> SUFFICES ASSUME ~catCrossed, ~catAmiss, \A v, w \in seen : v = w
               PROVE  /\ ~monitor' => Nothing'
                      /\ \A q \in Requests : Leaves(q)'
    BY <1>1 DEF GoneCat
  <2>1. \A q \in Requests : Leaves(q)
    BY DEF CatInv, GoneCat
  <2>2. ~monitor' => Nothing'
    BY <1>1, <1>2, <2>1 DEF Leaves, Nothing
  <2>3. \A q \in Requests : Leaves(q)'
    BY <1>1, <1>2, <1>3, <2>1 DEF Leaves, Nothing
  <2>4. QED
    BY <2>2, <2>3
<1>7. Objs'
  BY <1>1 DEF CatInv, Objs, G!Teardown, G!Config, G!Saved, G!Floor
<1>8. None \notin Nat
  BY PartsAssumption DEF G!CatalogAssumption
<1>9. QED
  BY <1>3, <1>5, <1>6, <1>7, <1>8 DEF CatInv

LEMMA VersionCatInv ==
  ASSUME CatInv, NEW r \in Requests, G!SetVersion(r) PROVE CatInv'
<1>1. /\ catReq[r].pc = "version" /\ catReq[r].kind = "install"
      /\ recorded' = catReq[r].resolved
      /\ UNCHANGED <<id, published, cache, objects, agent, monitor, catCrossed, catAmiss, late, seen>>
  BY DEF G!SetVersion, CatInv, CatKinds
<1>2. G!At(r, "idle")
  BY DEF G!SetVersion
<1>3. /\ CatState' /\ CatKinds' /\ Uncrossed'
      /\ \A q \in Requests : q # r => catReq'[q] = catReq[q]
      /\ catReq'[r].pc = "idle"
  BY <1>1, <1>2, WorksOn DEF CatPcs, Working
<1>4. AgreeCat'
  <2> SUFFICES ASSUME ~catCrossed, ~catAmiss, ~late PROVE Told' /\ \A q \in Requests : Mine(q)'
    BY <1>1 DEF AgreeCat
  <2>1. Told /\ \A q \in Requests : Mine(q)
    BY DEF CatInv, AgreeCat
  <2>2. recorded' = agent
    BY <1>1, <2>1 DEF Mine, Working
  <2>3. Told'
    BY <1>1, <1>3, <2>1, <2>2 DEF Told
  <2>4. \A q \in Requests : Mine(q)'
    BY <1>1, <1>3, <2>1 DEF Mine, Working
  <2>5. QED
    BY <2>3, <2>4
<1>5. GoneCat'
  BY <1>1, <1>3 DEF CatInv, GoneCat, Leaves, Nothing
<1>6. Objs'
  BY <1>1 DEF CatInv, Objs, G!Teardown, G!Config, G!Saved, G!Floor
<1>7. QED
  BY <1>3, <1>4, <1>5, <1>6 DEF CatInv

LEMMA RemoveCatInv ==
  ASSUME CatInv, NEW r \in Requests, G!RemoveAgent(r) \/ G!TearDown(r) PROVE CatInv'
<1>1. /\ catReq[r].pc \in {"remove", "teardown"} /\ catReq[r].kind = "uninstall"
      /\ UNCHANGED <<id, published, cache, monitor, recorded, catCrossed, catAmiss, late, seen>>
      /\ objects' \subseteq objects
  BY DEF G!RemoveAgent, G!TearDown, G!cr, CatInv, CatKinds
<1>2. PICK pc \in {"teardown", "monitor"} :
        /\ G!At(r, pc)
        /\ pc = "teardown" => agent' = None
        /\ pc = "monitor" => /\ agent' = agent /\ catReq[r].pc = "teardown"
                             /\ objects' = objects \ G!Teardown(catReq[r].manifest)
  BY DEF G!RemoveAgent, G!TearDown
<1>3. /\ CatState' /\ CatKinds' /\ Uncrossed'
      /\ \A q \in Requests : q # r => catReq'[q] = catReq[q]
      /\ catReq'[r].pc = pc /\ catReq'[r].kind = "uninstall"
      /\ catReq'[r].manifest = catReq[r].manifest
  BY <1>1, <1>2, WorksOn DEF CatPcs, Working
<1>4. ~catCrossed => \A q \in Requests \ {r} : catReq[q].pc = "idle" /\ catReq'[q].pc = "idle"
  BY <1>1, <1>3, Together DEF Working
<1>5. AgreeCat'
  <2> SUFFICES ASSUME ~catCrossed, ~catAmiss, ~late PROVE Told' /\ \A q \in Requests : Mine(q)'
    BY <1>1 DEF AgreeCat
  <2>1. Mine(r)
    BY DEF CatInv, AgreeCat
  <2>2. agent' = None
    BY <1>1, <1>2, <2>1 DEF Mine
  <2>3. Told'
    BY <1>2, <1>3, <2>2 DEF Told
  <2>4. Mine(r)'
    BY <1>2, <1>3, <2>2 DEF Mine
  <2>5. ASSUME NEW q \in Requests, q # r PROVE Mine(q)'
    BY <1>4, <2>5 DEF Mine, Working
  <2>6. QED
    BY <2>3, <2>4, <2>5
<1>6. GoneCat'
  <2> SUFFICES ASSUME ~catCrossed, ~catAmiss, \A v, w \in seen : v = w
               PROVE  /\ ~monitor => Nothing'
                      /\ \A q \in Requests : Leaves(q)'
    BY <1>1 DEF GoneCat
  <2>1. Leaves(r) /\ (~monitor => Nothing)
    BY <1>1, <1>4 DEF CatInv, GoneCat
  <2>2. agent' = None
    BY <1>1, <1>2, <2>1 DEF Leaves
  <2>3. catReq[r].manifest \in seen
    BY <1>1 DEF CatInv, CatKinds, Working
  <2>4. objects \subseteq G!Teardown(catReq[r].manifest)
    BY <2>3 DEF CatInv, Objs
  <2>5. pc = "monitor" => objects' = {}
    BY <1>2, <2>4
  <2>6. ~monitor => Nothing'
    BY <1>1, <2>1, <2>2 DEF Nothing
  <2>7. ASSUME NEW q \in Requests PROVE Leaves(q)'
    BY <1>2, <1>3, <1>4, <2>2, <2>5 DEF Leaves, Nothing
  <2>8. QED
    BY <2>6, <2>7
<1>7. Objs'
  BY <1>1 DEF CatInv, Objs, G!Teardown, G!Config, G!Saved, G!Floor
<1>8. QED
  BY <1>3, <1>5, <1>6, <1>7 DEF CatInv
LEMMA SkippedCatInv ==
  ASSUME CatInv, NEW r \in Requests, G!Skipped(r) PROVE CatInv'
<1>1. /\ catReq[r].pc \in {"saved", "remove", "teardown"}
      /\ catAmiss' = TRUE
      /\ UNCHANGED <<id, published, cache, seen, catCrossed>>
      /\ objects' \subseteq objects
  BY DEF G!Skipped, G!cr
<1>2. PICK pc \in {"agent", "teardown", "monitor"} :
        /\ G!At(r, pc)
        /\ pc = "agent" => catReq[r].pc = "saved"
        /\ pc = "teardown" => catReq[r].pc = "remove"
  BY DEF G!Skipped
<1>3. catReq[r].pc = "saved" => catReq[r].kind = "install"
  BY DEF CatInv, CatKinds
<1>4. catReq[r].pc = "remove" => catReq[r].kind = "uninstall"
  BY DEF CatInv, CatKinds
<1>5. CatState' /\ CatKinds' /\ Uncrossed'
  BY <1>1, <1>2, <1>3, <1>4, WorksOn DEF CatPcs, Working
<1>6. AgreeCat' /\ GoneCat'
  BY <1>1 DEF AgreeCat, GoneCat
<1>7. Objs'
  BY <1>1 DEF CatInv, Objs, G!Teardown, G!Config, G!Saved, G!Floor
<1>8. QED
  BY <1>5, <1>6, <1>7 DEF CatInv

LEMMA EndsCatInv ==
  ASSUME CatInv, NEW r \in Requests, G!Ends(r) PROVE CatInv'
<1>1. /\ G!At(r, "idle") /\ catAmiss' = TRUE
      /\ UNCHANGED <<id, published, cache, objects, seen, catCrossed>>
  BY DEF G!Ends, G!cr
<1>2. PICK me : Goes(r, me) /\ me.pc = "idle"
  BY <1>1, AtGoes DEF CatPcs, CatInv
<1>3. /\ catReq'[r] = me
      /\ \A q \in Requests : q # r => catReq'[q] = catReq[q]
  BY <1>2 DEF Goes, CatInv, CatState
<1>4. CatState'
  BY <1>1, <1>2 DEF CatInv, CatState, Goes
<1>5. CatKinds' /\ Uncrossed'
  BY <1>1, <1>2, <1>3 DEF CatInv, CatKinds, Uncrossed, Working
<1>6. AgreeCat' /\ GoneCat'
  BY <1>1 DEF AgreeCat, GoneCat
<1>7. Objs'
  BY <1>1 DEF CatInv, Objs, G!Teardown, G!Config, G!Saved, G!Floor
<1>8. QED
  BY <1>4, <1>5, <1>6, <1>7 DEF CatInv

\* What does not concern a request: the registry publishes, the catalog ages.
LEMMA RestCatInv ==
  ASSUME CatInv,
         UNCHANGED <<id, objects, agent, monitor, recorded, catReq, catCrossed, catAmiss, late, seen>>,
         published' \in Nat, cache' = None \/ cache' \in [version : Nat, fresh : BOOLEAN]
  PROVE  CatInv'
<1>1. CatState' /\ CatKinds' /\ Uncrossed'
  BY DEF CatInv, CatState, CatKinds, Uncrossed
<1>2. AgreeCat'
  BY DEF CatInv, AgreeCat, Told, Mine
<1>3. GoneCat'
  BY DEF CatInv, GoneCat, Leaves, Nothing
<1>4. Objs'
  BY DEF CatInv, Objs, G!Teardown, G!Config, G!Saved, G!Floor
<1>5. QED
  BY <1>1, <1>2, <1>3, <1>4 DEF CatInv

LEMMA NextCatInv ==
  ASSUME CatInv, G!Next PROVE CatInv'
<1>1. ASSUME NEW r \in Requests,
             \/ G!BeginInstall(r) \/ G!BeginUninstall(r)
             \/ G!ServeFresh(r) \/ G!Ask(r) \/ G!Store(r) \/ G!AskFails(r)
             \/ G!FetchManifest(r) \/ G!FetchFiles(r) \/ G!Verify(r) \/ G!Fallback(r)
             \/ G!PutConfig(r) \/ G!PutSaved(r) \/ G!DeployAgent(r) \/ G!SetMonitor(r)
             \/ G!SetVersion(r) \/ G!RemoveAgent(r) \/ G!TearDown(r) \/ G!Skipped(r)
             \/ G!Ends(r)
      PROVE  CatInv'
  <2>1. None \notin Nat
    BY PartsAssumption DEF G!CatalogAssumption
  <2>2. QED
    BY <1>1, <2>1, BeginCatInv, FetchCatInv, VerifyCatInv, PutCatInv, DeployCatInv, MonitorCatInv,
       VersionCatInv, RemoveCatInv, SkippedCatInv, EndsCatInv
<1>2. CASE G!Publish
  BY <1>2, RestCatInv DEF G!Publish, G!cr, CatInv, CatState
<1>3. CASE G!Expire
  <2>1. cache' \in [version : Nat, fresh : BOOLEAN]
    BY <1>3 DEF G!Expire, G!Fresh, CatInv, CatState
  <2>2. QED
    BY <1>3, <2>1, RestCatInv DEF G!Expire, G!cr, CatInv, CatState
<1>4. QED
  BY <1>1, <1>2, <1>3, Zenon DEF G!Next

LEMMA CatInvIs == CatInv /\ G!CatalogAssumption => G!RecordIsWhatRuns
<1> SUFFICES ASSUME CatInv, G!CatalogAssumption, G!Settled PROVE G!RecordIsWhatRuns
  BY DEF G!RecordIsWhatRuns
<1>1. ~catCrossed /\ ~catAmiss /\ \A r \in Requests : catReq[r].pc = "idle"
  BY DEF G!Settled, G!Active
<1>2. ~late => agent \in Nat \cup {None} /\ recorded = agent /\ monitor = (agent # None)
  BY <1>1 DEF CatInv, AgreeCat, Told
<1>3. ASSUME ~late, agent # None, published # G!Absent
      PROVE  G!UpdateAvailable(published) <=> agent < published
  BY <1>2, <1>3 DEF G!UpdateAvailable, G!Entry, G!CatalogAssumption, CatInv, CatState
<1>4. ASSUME ~monitor, \A v, w \in seen : v = w PROVE objects = {} /\ agent = None
  BY <1>1, <1>4 DEF CatInv, GoneCat, Nothing
<1>5. QED
  BY <1>2, <1>3, <1>4 DEF G!RecordIsWhatRuns

\* A step of the modules together is one of the catalog or leaves it alone.
LEMMA CatalogSteps ==
  ASSUME [AllNext]_allVars, part = "catalog" PROVE part' = part /\ (G!Next \/ UNCHANGED catVars)
<1>1. CASE UNCHANGED allVars
  BY <1>1 DEF allVars
<1>2. CASE AnnNext \/ ProvNext
  BY <1>2 DEF AnnNext, ProvNext, Ann, Prov
<1>3. CASE RetNext
  BY <1>3 DEF RetNext, Ret
<1>4. CASE ColNext
  BY <1>4 DEF ColNext, Col
<1>5. CASE CatNext
  <2>1. part' = part
    BY <1>5 DEF CatNext, Cat
  <2>2. QED
    BY <1>5, <2>1, Zenon DEF CatNext, Cat, G!Next
<1>6. QED
  BY <1>1, <1>2, <1>3, <1>4, <1>5, Zenon DEF AllNext

\* install and uninstall: what gets recorded is what actually gets applied, and a removal
\* leaves nothing behind, however requests, the registry and the cache interleave.
THEOREM RecordedIsApplied == AllSpec => []RecordIsWhatRuns
<1>1. AllInit => (part = "catalog" => CatInv)
  BY PartsAssumption, InitCatInv DEF AllInit
<1>2. (part = "catalog" => CatInv) /\ [AllNext]_allVars => (part = "catalog" => CatInv)'
  <2> SUFFICES ASSUME part = "catalog" => CatInv, [AllNext]_allVars, part' = "catalog"
               PROVE  CatInv'
    BY Zenon
  <2>1. part' = part
    BY DEF AllNext, allVars, AnnNext, ProvNext, RetNext, ColNext, CatNext, Ann, Prov, Ret, Col, Cat
  <2>2. G!Next \/ UNCHANGED catVars
    BY <2>1, CatalogSteps
  <2>3. CASE UNCHANGED catVars
    BY <2>1, <2>3, RestCatInv DEF catVars, CatInv, CatState
  <2>4. QED
    BY <2>1, <2>2, <2>3, NextCatInv
<1>3. (part = "catalog" => CatInv) => RecordIsWhatRuns
  BY PartsAssumption, CatInvIs DEF RecordIsWhatRuns
<1>4. QED
  BY <1>1, <1>2, <1>3, PTL DEF AllSpec
=============================================================================
