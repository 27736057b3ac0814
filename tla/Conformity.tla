------------------------------ MODULE Conformity ------------------------------
(***************************************************************************)
(* What the installer and the operator upgrade make of the cluster they     *)
(* read (src/src/bootstrap.rs, src/src/operator_upgrade.rs): the operator   *)
(* that is there, the requirements and their verdict, whether Longhorn can  *)
(* run on a node, and what the vendored operator would change.  Everything  *)
(* here is a function of what was read; BootstrapGrants acts on it.         *)
(*                                                                          *)
(* A field path is a sequence of names.  Quantities are Gi and cores; texts *)
(* and the commands that install a package are left out.                    *)
(***************************************************************************)
EXTENDS Naturals, Sequences, FiniteSets

\* The image of the operator in the vendored bundle.
Vendored == "vendored"

-----------------------------------------------------------------------------
(* The operator, from the CRDs and the controller Deployments everywhere.    *)

\* One Deployment: its namespace, whether it serves, its image.
Deployed(namespace, ready, image) ==
  [namespace |-> namespace, ready |-> ready, image |-> image]

\* Of several, the same one on every poll.
TheOne(deploys) ==
  CHOOSE d \in deploys : TRUE

\* An operator of another namespace comes first, then ours, then CRDs that nothing serves.
Presence(crds, deploys) ==
  LET theirs == {d \in deploys : d.namespace # "ours"} IN
  IF theirs # {} THEN [is |-> "foreign", ready |-> TheOne(theirs).ready, image |-> "none"]
  ELSE IF deploys # {}
    THEN [is |-> "ours", ready |-> TheOne(deploys).ready, image |-> TheOne(deploys).image]
  ELSE [is |-> IF crds THEN "crds" ELSE "absent", ready |-> FALSE, image |-> "none"]

\* A probe that failed rules nothing out.
Unread == [is |-> "unknown", ready |-> FALSE, image |-> "none"]

Blocks(p, allow) == p.is = "foreign" /\ ~allow

\* The row of the operator; "clean" leaves it to cert-manager.
OperatorRow(p, allow) ==
  CASE p.is = "foreign" -> IF Blocks(p, allow) THEN "fail" ELSE "warn"
    [] p.is \in {"crds", "unknown"} -> "warn"
    [] OTHER -> "clean"

\* Only ours is compared with the vendored one, and only if its image is known; images that
\* are written differently and are the same are one value here.
Drifted(p) == p.is = "ours" /\ p.image \notin {"none", Vendored}
DriftRow(p) ==
  IF p.is = "unknown" \/ (p.is = "ours" /\ p.image = "none") \/ Drifted(p) THEN "warn"
  ELSE "pass"

-----------------------------------------------------------------------------
(* The requirements.                                                        *)

MinMem == 8
MinCpu == 2

\* What is read of the cluster: "unread" is a probe that failed.
Verdict(read, good) == IF read = "unread" THEN "warn" ELSE IF good THEN "pass" ELSE "fail"

ResourceRow(mem, cpu) ==
  IF mem >= MinMem /\ cpu >= MinCpu THEN "pass"
  ELSE IF 4 * mem >= 3 * MinMem THEN "warn" ELSE "fail"

\* f: what is read of the cluster; b: how far the bootstrap is.
Requirements(f, b) ==
  [r1 |-> Verdict(f.version, f.version = "recent"),
   r2 |-> IF b.ready THEN "pass" ELSE Verdict(f.review, b.admin),
   r3 |-> IF b.storage = "longhorn" \/ (b.storage = "default" /\ ~f.local) THEN "pass"
          ELSE "warn",
   r4 |-> IF f.nodes = "unread" THEN "warn" ELSE ResourceRow(f.mem, f.cpu),
   r5 |-> Verdict(f.nodes, f.archs = {"amd64"}),
   r6 |-> "pass",
   r7 |-> IF OperatorRow(b.operator, b.allow) # "clean" THEN OperatorRow(b.operator, b.allow)
          ELSE IF b.cm = "unready" /\ ~b.installing THEN "warn" ELSE "pass",
   r8 |-> Verdict(f.ingress, TRUE),
   r9 |-> DriftRow(b.operator)]

Refused(rows) == \E id \in DOMAIN rows : rows[id] = "fail"

\* A cluster that meets them all, and those that miss one or cannot be asked.
Fit == [version |-> "recent", review |-> "read", local |-> FALSE, nodes |-> "read",
        mem |-> MinMem, cpu |-> MinCpu, archs |-> {"amd64"}, ingress |-> "read",
        scan |-> "read", crds |-> FALSE]
Clusters ==
  {Fit} \cup {[Fit EXCEPT !.version = v] : v \in {"old", "unread"}}
        \cup {[Fit EXCEPT !.mem = m] : m \in {5, 6, 7}} \cup {[Fit EXCEPT !.cpu = 1]}
        \cup {[Fit EXCEPT !.archs = {"amd64", "arm64"}], [Fit EXCEPT !.nodes = "unread"]}
        \cup {[Fit EXCEPT !.review = "unread"], [Fit EXCEPT !.ingress = "unread"]}
        \cup {[Fit EXCEPT !.local = TRUE], [Fit EXCEPT !.scan = "unread"],
              [Fit EXCEPT !.crds = TRUE]}

-----------------------------------------------------------------------------
(* Longhorn: the copies of a volume, one per node up to the bundle's number.  *)

Copies == 3
ReplicasFor(nodes) ==
  IF nodes < 1 THEN 1 ELSE IF nodes > Copies THEN Copies ELSE nodes

(* Longhorn on the nodes it has to run on.                                   *)

\* A node as Longhorn reports it: its Ready condition and its disks.
NodeReports ==
  [ready : {"true", "MissingDependency", "NotReady"},
   disks : {"unreported", "none", "full", "usable"}]

\* A package that is missing does not come by waiting; a disk may.
MissingPrereq(n) == n.ready = "MissingDependency"
NodeIssue(n) ==
  CASE MissingPrereq(n) -> "fatal"
    [] n.ready = "NotReady" \/ n.disks \in {"none", "full"} -> "waits"
    [] OTHER -> "none"
MissingPackages(nodes) == {i \in DOMAIN nodes : MissingPrereq(nodes[i])}

\* The first node with an issue speaks for all, also when a later one has a fatal one.
FirstIssue(nodes) ==
  LET bad == {i \in DOMAIN nodes : NodeIssue(nodes[i]) # "none"} IN
  IF bad = {} THEN "none"
  ELSE NodeIssue(nodes[CHOOSE i \in bad : \A j \in bad : i <= j])
NodeLists == {<<n>> : n \in NodeReports} \cup {<<n, m>> : n, m \in NodeReports}
Issues == {FirstIssue(nodes) : nodes \in NodeLists}

-----------------------------------------------------------------------------
(* What a vendored CRD changes, and which live object it breaks.             *)

IsUnder(p, q) == Len(q) <= Len(p) /\ SubSeq(p, 1, Len(q)) = q

\* A schema declares paths; below an open one any path is legal.
SchemaPaths(schema) ==
  {p \in schema.declares : \A q \in schema.open : IsUnder(p, q) => p = q}
ValuePaths(value) == UNION {{SubSeq(p, 1, n) : n \in 1..Len(p)} : p \in value}

\* Of an installed CRD: versions are compared where both have them, and a removed object
\* takes its fields with it.
Dropped(old, new) ==
  UNION {SchemaPaths(old[v]) \ SchemaPaths(new[v]) : v \in DOMAIN old \cap DOMAIN new}
RemovedFields(old, new) ==
  {p \in Dropped(old, new) : \A q \in Dropped(old, new) : IsUnder(p, q) => p = q}
Added(old, new) ==
  UNION {SchemaPaths(new[v]) \ SchemaPaths(old[v]) : v \in DOMAIN old \cap DOMAIN new}
CrdChange(old, new) ==
  [removedVersions |-> DOMAIN old \ DOMAIN new, addedVersions |-> DOMAIN new \ DOMAIN old,
   removedFields |-> RemovedFields(old, new), addedFields |-> Added(old, new)]

BreakingUses(removed, value) ==
  {r \in removed : \E u \in ValuePaths(value) : IsUnder(u, r)}

\* What stands against the upgrade: clusters that are not green, are in an upgrade of
\* their own or set a field that goes; and an operator that is not ready.
Blockers(change, clusters, operatorReady, bootstrapRunning) ==
  {<<"crd_field_removed", c>> : c \in {d \in clusters :
                                         BreakingUses(change.removedFields, d.sets) # {}}}
  \cup {<<"deployment_not_green", c>> : c \in {d \in clusters : d.health # "green"}}
  \cup {<<"version_upgrade_in_flight", c>> : c \in {d \in clusters : d.upgrading}}
  \cup {<<"operator_not_ready">> : x \in {y \in {0} : ~operatorReady}}
  \cup {<<"bootstrap_running">> : x \in {y \in {0} : bootstrapRunning}}
\* What it costs: a pool of one node is down while it restarts.
Warnings(clusters) ==
  {<<"single_replica_pool", c>> : c \in {d \in clusters : \E p \in d.pools : p = 1}}
  \cup {<<"no_snapshot_policy", c>> : c \in {d \in clusters : ~d.covered}}

\* Only an operator of ours is judged at all.
Report(p, change, clusters, bootstrapRunning) ==
  IF p.is # "ours" THEN [state |-> "unmanaged", blockers |-> {<<"unmanaged">>}, warnings |-> {}]
  ELSE [state |-> IF Drifted(p) THEN "available" ELSE "up_to_date",
        blockers |-> Blockers(change, clusters, p.ready, bootstrapRunning),
        warnings |-> Warnings(clusters)]

\* A few CRDs and clusters, each with what the operator reads of it.
Spec1 == {<<"spec">>, <<"spec", "pools">>, <<"spec", "tls">>, <<"spec", "tls", "mode">>}
Crd(paths) == [v \in {"v1"} |-> [declares |-> paths, open |-> {}]]
Cluster == [health |-> "green", upgrading |-> FALSE, sets |-> {<<"spec", "pools">>},
            pools |-> {3}, covered |-> TRUE]
Impacts ==
  [change : {CrdChange(Crd(Spec1), Crd(p)) : p \in {Spec1, {<<"spec">>, <<"spec", "pools">>}}},
   clusters : {{}, {Cluster}, {[Cluster EXCEPT !.health = "yellow"]},
               {[Cluster EXCEPT !.upgrading = TRUE]},
               {[Cluster EXCEPT !.sets = {<<"spec", "tls", "mode">>}]}}]
=============================================================================
