----------------------------- MODULE Integrations -----------------------------
(***************************************************************************)
(* Turning the monitors of a deployment on and off: the recipe handlers of *)
(* src/src/api.rs, install and uninstall of src/src/catalog.rs, and the    *)
(* compare-and-swap loop update_annotations of src/src/k8s.rs.             *)
(*                                                                         *)
(* A request changes what runs and then what the CR's annotations say, in  *)
(* a read, a change of what was read, and a patch pinned to the            *)
(* resourceVersion of the read.  A refused patch starts over, a bounded    *)
(* number of times.  Saves are left out: a save replaces the monitors by   *)
(* the list of its form, whatever was there.                               *)
(***************************************************************************)
EXTENDS Naturals

CONSTANTS
  Requests, Ids,
  Attempts,    \* ATTEMPTS; bound: 12 in the code
  MaxTrouble,  \* bound: calls that fail or lose their response
  None

ASSUME IntegrationsAssumption ==
  /\ Attempts \in Nat \ {0} /\ MaxTrouble \in Nat
  /\ None \notin [what : {"enable", "disable", "version"}, id : Ids]

VARIABLES
  running,   \* what is applied to the deployment
  monitors,  \* annotation monitors
  versions,  \* annotation integration-versions: the ids that have one
  fresh,     \* the requests since whose read nothing was written to the CR
  req,       \* the requests
  unsure,    \* history: ids on which two requests overlapped or one failed
  trouble

vars == <<running, monitors, versions, fresh, req, unsure, trouble>>

Kinds == {"apply_recipe", "disable_recipe", "install", "uninstall"}
Whats == {"enable", "disable", "version"}
Idle  == [pc |-> "idle"]

InFlight(r) == req[r].pc \in {"engine", "read", "patch"}

GoesWrong == trouble < MaxTrouble /\ trouble' = trouble + 1

\* The update a request is at.
Update(r) == [what |-> req[r].what, id |-> req[r].id]

\* Mutant: an uninstallation drops the monitor and leaves its version.
VersionsChangedKeeping(u, v) ==
  IF u.what = "version" THEN v \cup {u.id} ELSE v

\* The two closures handed to update_annotations.
MonitorsChanged(u, m) ==
  IF u.what = "version" THEN m
  ELSE IF u.what = "enable" THEN m \cup {u.id} ELSE m \ {u.id}

VersionsChanged(u, v) ==
  IF u.what = "version" THEN v \cup {u.id}
  ELSE IF u.what = "disable" THEN v \ {u.id} ELSE v

Start(r) ==
  /\ req[r].pc = "idle"
  /\ \E kind \in Kinds, i \in Ids :
       /\ req' = [req EXCEPT ![r] = [pc |-> "engine", kind |-> kind, id |-> i]]
       /\ unsure' = IF \E q \in Requests : InFlight(q) /\ req[q].id = i
                    THEN unsure \cup {i} ELSE unsure
  /\ UNCHANGED <<running, monitors, versions, fresh, trouble>>

FirstUpdate(kind) ==
  IF kind \in {"apply_recipe", "install"} THEN "enable" ELSE "disable"

\* The change itself comes first, ...
Engine(r) ==
  /\ req[r].pc = "engine"
  /\ running' = IF FirstUpdate(req[r].kind) = "enable"
                THEN running \cup {req[r].id} ELSE running \ {req[r].id}
  /\ req' = [req EXCEPT ![r] = [pc |-> "read", kind |-> req[r].kind, id |-> req[r].id,
                                what |-> FirstUpdate(req[r].kind), attempt |-> 1]]
  /\ UNCHANGED <<monitors, versions, fresh, unsure, trouble>>

\* ... then the CR is read, ...
Read(r) ==
  /\ req[r].pc = "read"
  /\ req' = [req EXCEPT ![r] = [pc |-> "patch", kind |-> req[r].kind, id |-> req[r].id,
                                what |-> req[r].what, attempt |-> req[r].attempt,
                                monitors |-> monitors, versions |-> versions]]
  /\ fresh' = fresh \cup {r}
  /\ UNCHANGED <<running, monitors, versions, unsure, trouble>>

\* The write of what was made of the reading.  One that leaves both sets as they are
\* may still change their order or a version's number, and so the resourceVersion.
Land(r) ==
  /\ monitors' = MonitorsChanged(Update(r), req[r].monitors)
  /\ versions' = VersionsChanged(Update(r), req[r].versions)
  /\ \/ fresh' = {}
     \/ monitors' = monitors /\ versions' = versions /\ fresh' = fresh \ {r}

Done(r) ==
  req' = [req EXCEPT ![r] =
            IF req[r].kind = "install" /\ req[r].what = "enable"
            THEN [pc |-> "read", kind |-> "install", id |-> req[r].id,
                  what |-> "version", attempt |-> 1]
            ELSE [pc |-> "done", id |-> req[r].id]]

\* Mutant: the patch does not say what it was computed from.
PatchUnpinned(r) ==
  /\ req[r].pc = "patch"
  /\ Land(r) /\ Done(r)
  /\ UNCHANGED <<running, unsure, trouble>>

\* ... and patched, if it is still what was read.
Patch(r) ==
  /\ req[r].pc = "patch" /\ r \in fresh
  /\ Land(r) /\ Done(r)
  /\ UNCHANGED <<running, unsure, trouble>>

Failed(r) ==
  /\ req' = [req EXCEPT ![r] = [pc |-> "error", id |-> req[r].id]]
  /\ unsure' = unsure \cup {req[r].id}

\* A refused patch (409) starts over from a read, but for the last one.
Conflict(r) ==
  /\ req[r].pc = "patch" /\ r \notin fresh
  /\ IF req[r].attempt < Attempts
     THEN /\ req' = [req EXCEPT ![r] = [pc |-> "read", kind |-> req[r].kind, id |-> req[r].id,
                                        what |-> req[r].what,
                                        attempt |-> req[r].attempt + 1]]
          /\ UNCHANGED unsure
     ELSE Failed(r)
  /\ UNCHANGED <<running, monitors, versions, fresh, trouble>>

\* The engine stops half way, the CR cannot be read, or the client hangs up.
RequestFails(r) ==
  /\ req[r].pc \in {"engine", "read"} /\ GoesWrong
  /\ \/ UNCHANGED running
     \/ req[r].pc = "engine" /\ running' \in {running \cup {req[r].id}, running \ {req[r].id}}
  /\ Failed(r)
  /\ UNCHANGED <<monitors, versions, fresh>>

\* A patch fails for another reason, or the client hangs up on it; it may have landed.
PatchFails(r) ==
  /\ req[r].pc = "patch" /\ GoesWrong
  /\ \/ r \in fresh /\ Land(r)
     \/ UNCHANGED <<monitors, versions, fresh>>
  /\ Failed(r)
  /\ UNCHANGED running

\* Anyone else writes to the CR: its status, its spec, another annotation.
OtherWrite ==
  /\ fresh # {}
  /\ fresh' = {}
  /\ UNCHANGED <<running, monitors, versions, req, unsure, trouble>>

Init ==
  /\ running = {} /\ monitors = {} /\ versions = {} /\ fresh = {}
  /\ req = [r \in Requests |-> Idle]
  /\ unsure = {} /\ trouble = 0

Step(r) ==
  Engine(r) \/ Read(r) \/ Patch(r) \/ Conflict(r) \/ RequestFails(r) \/ PatchFails(r)

Next == OtherWrite \/ \E r \in Requests : Start(r) \/ Step(r)

Spec == Init /\ [][Next]_vars
-----------------------------------------------------------------------------
(* Properties.                                                               *)

\* The types; a request that is to patch knows what it read, and no request has
\* had more attempts than there are (k8s.rs ATTEMPTS).
TypeOK ==
  /\ running \subseteq Ids /\ monitors \subseteq Ids /\ versions \subseteq Ids
  /\ fresh \subseteq Requests /\ unsure \subseteq Ids /\ trouble \in 0 .. MaxTrouble
  /\ req \in [Requests ->
       {Idle}
       \cup [pc : {"engine"}, kind : Kinds, id : Ids]
       \cup [pc : {"done", "error"}, id : Ids]
       \cup [pc : {"read"}, kind : Kinds, id : Ids, what : Whats, attempt : 1 .. Attempts]
       \cup [pc : {"patch"}, kind : Kinds, id : Ids, what : Whats, attempt : 1 .. Attempts,
             monitors : SUBSET Ids, versions : SUBSET Ids]]

\* What runs is listed and what is listed runs, and only what is listed has a
\* version, for every id no request is working on, whatever others did to other ids
\* at the same time (k8s.rs update_annotations: "an agent running but absent from
\* both annotations").
ListedIsRunning ==
  \A i \in Ids \ unsure :
    (\A r \in Requests : InFlight(r) => req[r].id # i) =>
      /\ i \in monitors <=> i \in running
      /\ i \in versions => i \in monitors

\* The update a request in the loop still has to make.
Owed == [r \in Requests |-> IF req[r].pc \in {"read", "patch"} THEN Update(r) ELSE None]

Sets == INSTANCE AnnotationSets WITH owed <- Owed

\* The loop implements updates that happen in one step or not at all, and each of a
\* request's own updates once (k8s.rs update_annotations: "cannot lose an update").
NoUpdateLost == Sets!Spec
=============================================================================
