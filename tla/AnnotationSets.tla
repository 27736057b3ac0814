---------------------------- MODULE AnnotationSets ----------------------------
(***************************************************************************)
(* What update_annotations of src/src/k8s.rs promises ("cannot lose an     *)
(* update"): the monitors and the integration versions of a deployment are *)
(* two sets, and an update changes them in one step or not at all, however *)
(* many others are under way.                                              *)
(***************************************************************************)
CONSTANTS
  Requests,  \* who updates
  Ids,       \* recipes and packages
  None       \* "owes no update"

VARIABLES
  monitors,  \* annotation monitors
  versions,  \* annotation integration-versions: the ids that have one
  owed       \* the update each request still has to make

Updates == [what : {"enable", "disable", "version"}, id : Ids]

\* The id, if any, on which an update does this.
Targets(what, u) == {i \in Ids : u = [what |-> what, id |-> i]}

\* What an update makes of the two sets: to disable drops the version as well.
MonitorsAfter(u, m) == (m \cup Targets("enable", u)) \ Targets("disable", u)
VersionsAfter(u, v) == (v \cup Targets("version", u)) \ Targets("disable", u)

Init ==
  /\ monitors = {} /\ versions = {}
  /\ owed = [r \in Requests |-> None]

\* A request decides on an update, whichever.
Owe(r) ==
  /\ owed[r] = None /\ owed'[r] \in Updates
  /\ owed' = [owed EXCEPT ![r] = owed'[r]]
  /\ UNCHANGED <<monitors, versions>>

\* It is made, and possibly another one comes after it ...
Make(r) ==
  /\ owed[r] # None
  /\ monitors' = MonitorsAfter(owed[r], monitors)
  /\ versions' = VersionsAfter(owed[r], versions)
  /\ \E u \in Updates \cup {None} : owed' = [owed EXCEPT ![r] = u]

\* ... or it is given up.
GiveUp(r) ==
  /\ owed[r] # None
  /\ owed' = [owed EXCEPT ![r] = None]
  /\ UNCHANGED <<monitors, versions>>

Next == \E r \in Requests : Owe(r) \/ Make(r) \/ GiveUp(r)

Spec == Init /\ [][Next]_<<monitors, versions, owed>>
=============================================================================
