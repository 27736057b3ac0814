------------------------------ MODULE Activity ------------------------------
(***************************************************************************)
(* What a deployment is doing and whether it has settled (ADR-050):        *)
(* src/src/activity.rs and status_from in src/src/k8s.rs.                  *)
(*                                                                         *)
(* A status read gathers its signals one call after the other, the CR, the *)
(* StatefulSet, the volume claims and the Dashboards Deployment, while the *)
(* cluster goes on: it is created, restarted one node at a time, scaled    *)
(* and upgraded.  A deployment that is plainly stable takes a short cut.   *)
(*                                                                         *)
(* The operator and Kubernetes are modelled from how the code reads them.  *)
(* Left out: how long nothing has moved, the diagnosis of a stall (see     *)
(* Remediation), and the phase, which status_from never leaves empty.      *)
(***************************************************************************)
EXTENDS Integers

CONSTANTS MaxNodes,   \* bound on the nodes of a deployment
          MaxEvents,  \* bound on the edits by users, the crashes and the failed reads
          Count(_)    \* the number of members of a set: Cardinality

\* Holds in the module that takes this one in, which assumes it.
ActivityAssumption == MaxNodes \in Nat

Nodes == 1 .. MaxNodes

VARIABLES want,     \* the CR: the nodes asked for
          upgrade,  \* the CR: spec.version is not status.version, and since when
          cr,       \* the CR's status: health green, initialized, an unfinished row
          size,     \* the StatefulSet: its replicas, 0 before it is made
          pods,     \* its pods: "none", or on the old or the current revision, ready or not
          claims,   \* its volume claims
          dash,     \* the Dashboards Deployment
          read,     \* the status read
          shown,    \* the last verdict, unless something went back since
          open,     \* history: what was unfinished all through the present read
          clean,    \* history: not settled, and nothing went back or failed since the
                      \* read that made `shown` began
          events    \* how many there were

cluster == <<want, upgrade, cr, size, pods, claims, dash>>
vars == <<cluster, read, shown, open, clean, events>>

Event == events < MaxEvents /\ events' = events + 1

NoPod == [made |-> FALSE, current |-> FALSE, ready |-> FALSE]
Ready == {n \in Nodes : pods[n].ready}
Current == {n \in Nodes : pods[n].made /\ pods[n].current}
Made == {n \in Nodes : pods[n].made}
Healthy == 1 .. want \subseteq Ready
Rolling == Made # Current

-----------------------------------------------------------------------------
(* activity.rs: the ladder, the predicates and the verdict.                  *)

\* Each rung's floor and ceiling; "storage" and "accepted", below 10, are never reached.
Ladder == [volumes    |-> <<10, 25>>, nodes    |-> <<25, 70>>, security |-> <<70, 85>>,
           dashboards |-> <<85, 95>>, settling |-> <<95, 100>>]

\* percent_for, rounded, and below 100 for what has not settled (evaluate).
Percent(rung, done, total) ==
  LET floor == Ladder[rung][1]
      p == (2 * floor * total + 2 * (Ladder[rung][2] - floor) * done + total) \div (2 * total)
  IN IF p > 99 THEN 99 ELSE p

Clamp(n, total) == IF n > total THEN total ELSE n

\* Mutant: the clause that the false green of 2026-08-07 needed is dropped.
NodesSettledMidRoll(i) ==
  /\ i.green /\ i.want > 0 /\ i.ready = i.want
  /\ i.init /\ ~i.upgrade /\ ~i.row

NodesSettled(i) ==
  /\ i.green /\ i.want > 0 /\ i.ready = i.want /\ i.updated = i.want
  /\ i.init /\ ~i.upgrade /\ ~i.row

Settled(i) == NodesSettled(i) /\ i.dash

\* Mutant: the nodes done are those that are ready, in a restart too.
DoneReady(i) == Clamp(i.ready, i.want)

\* Nodes done: on a create those that are ready, on a restart those that are updated.
Done(i) ==
  IF i.init /\ i.updated < i.want THEN Clamp(i.updated, i.want) ELSE Clamp(i.ready, i.want)

\* stage_of and percent_for.
Progress(i) ==
  IF i.claims > 0 /\ i.bound < i.claims THEN Percent("volumes", i.bound, i.claims)
  ELSE IF Done(i) < i.want THEN Percent("nodes", Done(i), i.want)
  ELSE Percent(IF ~i.init THEN "security" ELSE IF ~i.dash THEN "dashboards" ELSE "settling",
               0, 1)

Verdict(i) == [settled |-> Settled(i), percent |-> IF Settled(i) THEN 100 ELSE Progress(i)]

-----------------------------------------------------------------------------
(* status_from: one read after the other, as the stream of a client does.    *)

Unread == [pc |-> "idle", green |-> FALSE, init |-> FALSE, row |-> FALSE, want |-> 0,
           upgrade |-> FALSE, ready |-> 0, updated |-> 0, claims |-> 0, bound |-> 0,
           dash |-> FALSE, calm |-> TRUE, whole |-> FALSE]

\* What is under way: nodes that are missing, and the rest.
Unfinished ==
  [nodes |-> (1 .. want) \ Ready,
   rest  |-> (IF Rolling THEN {"restart"} ELSE {})
               \cup (IF cr.init THEN {} ELSE {"security"})
               \cup (IF upgrade = "none" THEN {} ELSE {"upgrade"})
               \cup (IF cr.row THEN {"row"} ELSE {})
               \cup (IF dash = "down" THEN {"dashboards"} ELSE {})]
Nothing == [nodes |-> {}, rest |-> {}]
Unshown == [settled |-> FALSE, percent |-> 0, whole |-> FALSE, missed |-> Nothing]

\* The CR comes with the list.
ReadCr ==
  /\ read.pc = "idle"
  /\ read' = [Unread EXCEPT !.pc = "sts", !.green = cr.green, !.init = cr.init,
                            !.row = cr.row, !.want = want, !.upgrade = upgrade # "none"]
  /\ open' = Unfinished
  /\ UNCHANGED <<cluster, shown, clean, events>>

\* plainly_stable: the short cut leaves the claims unread.  A throttle still raised keeps
\* a deployment off it.  What a read misses is asked only of one that may call it settled;
\* and the counts do not tell which pods they count, so where some are to be removed they
\* may stand for nodes that are missing or on the old revision.
Choose(i) ==
  /\ \E throttled \in BOOLEAN :
       read' = [i EXCEPT !.pc = IF NodesSettled(i) /\ ~throttled THEN "dash" ELSE "claims"]
  /\ open' = IF ~NodesSettled(i) THEN Nothing
             ELSE IF size > i.want THEN [nodes |-> {}, rest |-> open.rest \ {"restart"}]
             ELSE open

ReadSts ==
  /\ read.pc = "sts"
  /\ Choose([read EXCEPT !.ready = Count(Ready), !.updated = Count(Current),
                         !.whole = size <= want /\
                                   \A n \in 1 .. want : pods[n].made /\ claims[n] = "bound"])
  /\ UNCHANGED <<cluster, shown, clean, events>>

\* A StatefulSet that cannot be read has no nodes.
StsFails ==
  /\ read.pc = "sts"
  /\ Choose([read EXCEPT !.calm = FALSE])
  /\ Event /\ clean' = FALSE
  /\ UNCHANGED <<cluster, shown>>

ReadClaims ==
  /\ read.pc = "claims"
  /\ read' = [read EXCEPT !.pc = "dash",
                          !.claims = Count({n \in Nodes : claims[n] # "none"}),
                          !.bound = Count({n \in Nodes : claims[n] = "bound"})]
  /\ UNCHANGED <<cluster, shown, open, clean, events>>

ClaimsFail ==
  /\ read.pc = "claims"
  /\ read' = [read EXCEPT !.pc = "dash", !.calm = FALSE]
  /\ Event /\ clean' = FALSE
  /\ UNCHANGED <<cluster, shown, open>>

\* What is compared: the verdict, whether all nodes and claims were there, what it missed.
Show(i) ==
  /\ shown' = [settled |-> Verdict(i).settled, percent |-> Verdict(i).percent,
               whole |-> i.whole,
               missed |-> IF Verdict(i).settled THEN open ELSE Nothing]
  /\ read' = Unread /\ open' = Nothing

\* No Dashboards Deployment is nothing to wait for (dashboards_ready_in).
ReadDash ==
  /\ read.pc = "dash"
  /\ Show([read EXCEPT !.dash = dash # "down"])
  /\ clean' = (read.calm /\ ~shown'.settled)
  /\ UNCHANGED <<cluster, events>>

DashFails ==
  /\ read.pc = "dash"
  /\ Show(read)
  /\ Event /\ clean' = FALSE
  /\ UNCHANGED cluster

-----------------------------------------------------------------------------
(* The operator and Kubernetes.                                              *)

Goes == open' = [f \in DOMAIN open |-> open[f] \cap Unfinished'[f]]
Onward == Goes /\ UNCHANGED <<read, shown, clean>>
Back ==
  /\ Goes /\ read' = [read EXCEPT !.calm = FALSE]
  /\ shown' = Unshown /\ clean' = FALSE

\* The StatefulSet starts with one replica and is scaled, while all it has are ready; it
\* shrinks on a healthy cluster.
Resize ==
  /\ size # want /\ (1 .. size \subseteq Ready)
  /\ LET next == IF size < want THEN size + 1 ELSE size - 1 IN
     /\ size' = next
     /\ pods' = [n \in Nodes |-> IF n > next THEN NoPod ELSE pods[n]]
     /\ claims' = [n \in Nodes |-> IF n > next THEN "none" ELSE claims[n]]
  /\ UNCHANGED <<want, upgrade, cr, dash>>
  /\ Onward /\ UNCHANGED events

StartPod(n) ==
  /\ n <= size /\ ~pods[n].made
  /\ pods' = [pods EXCEPT ![n] = [made |-> TRUE, current |-> TRUE, ready |-> FALSE]]
  /\ claims' = [claims EXCEPT ![n] = IF @ = "none" THEN "pending" ELSE @]
  /\ UNCHANGED <<want, upgrade, cr, size, dash>>
  /\ Onward /\ UNCHANGED events

Bind(n) ==
  /\ claims[n] = "pending"
  /\ claims' = [claims EXCEPT ![n] = "bound"]
  /\ UNCHANGED <<want, upgrade, cr, size, pods, dash>>
  /\ Onward /\ UNCHANGED events

GetsReady(n) ==
  /\ pods[n].made /\ ~pods[n].ready /\ claims[n] = "bound"
  /\ pods' = [pods EXCEPT ![n].ready = TRUE]
  /\ UNCHANGED <<want, upgrade, cr, size, claims, dash>>
  /\ Onward /\ UNCHANGED events

\* One node at a time, and the next when all are up.
Restart(n) ==
  /\ pods[n].made /\ ~pods[n].current /\ Made = Ready
  /\ pods' = [pods EXCEPT ![n].current = TRUE, ![n].ready = FALSE]
  /\ UNCHANGED <<want, upgrade, cr, size, claims, dash>>
  /\ Onward /\ UNCHANGED events

\* The operator writes what it sees now and then; a row for the restart may be missing.
Report ==
  /\ \E row \in IF Rolling THEN BOOLEAN ELSE {FALSE} :
       cr' = [cr EXCEPT !.green = Healthy, !.row = row]
  /\ UNCHANGED <<want, upgrade, size, pods, claims, dash>>
  /\ Onward /\ UNCHANGED events

\* The security bootstrap comes after the nodes, as the ladder has it.
Initialize ==
  /\ ~cr.init /\ Healthy /\ size = want /\ dash # "none"
  /\ cr' = [cr EXCEPT !.init = TRUE]
  /\ UNCHANGED <<want, upgrade, size, pods, claims, dash>>
  /\ Onward /\ UNCHANGED events

MakeDash ==
  /\ dash = "none" /\ dash' = "down"
  /\ UNCHANGED <<want, upgrade, cr, size, pods, claims>>
  /\ Onward /\ UNCHANGED events

DashUp ==
  /\ dash = "down" /\ cr.init /\ dash' = "up"
  /\ UNCHANGED <<want, upgrade, cr, size, pods, claims>>
  /\ Onward /\ UNCHANGED events

\* A saved configuration changes the template.
Template ==
  /\ cr.init /\ upgrade = "none" /\ Event
  /\ pods' = [n \in Nodes |-> [pods[n] EXCEPT !.current = FALSE]]
  /\ UNCHANGED <<want, upgrade, cr, size, claims, dash>>
  /\ Back

Scale ==
  /\ cr.init /\ Event
  /\ want' \in Nodes \ {want}
  /\ UNCHANGED <<upgrade, cr, size, pods, claims, dash>>
  /\ Back

AskUpgrade ==
  /\ cr.init /\ upgrade = "none" /\ Event
  /\ upgrade' = "asked"
  /\ UNCHANGED <<want, cr, size, pods, claims, dash>>
  /\ Back

\* The operator takes the upgrade up, and ends it with the last node.
Upgrade ==
  /\ upgrade = "asked" /\ upgrade' = "rolling"
  /\ pods' = [n \in Nodes |-> [pods[n] EXCEPT !.current = FALSE]]
  /\ UNCHANGED <<want, cr, size, claims, dash>>
  /\ Back /\ UNCHANGED events

Upgraded ==
  /\ upgrade = "rolling" /\ ~Rolling /\ upgrade' = "none"
  /\ UNCHANGED <<want, cr, size, pods, claims, dash>>
  /\ Onward /\ UNCHANGED events

Crash(n) ==
  /\ pods[n].ready
  /\ pods' = [pods EXCEPT ![n].ready = FALSE]
  /\ Event
  /\ UNCHANGED <<want, upgrade, cr, size, claims, dash>>
  /\ Back

DashDown ==
  /\ dash = "up" /\ dash' = "down"
  /\ Event
  /\ UNCHANGED <<want, upgrade, cr, size, pods, claims>>
  /\ Back

-----------------------------------------------------------------------------
Init ==
  /\ want \in Nodes /\ upgrade = "none"
  /\ cr = [green |-> FALSE, init |-> FALSE, row |-> FALSE]
  /\ size = 0 /\ pods = [n \in Nodes |-> NoPod] /\ claims = [n \in Nodes |-> "none"]
  /\ dash = "none"
  /\ read = Unread /\ open = Nothing /\ clean = FALSE
  /\ shown = Unshown
  /\ events = 0

Next ==
  \/ ReadCr \/ ReadSts \/ StsFails \/ ReadClaims \/ ClaimsFail
  \/ ReadDash \/ DashFails
  \/ \E n \in Nodes : StartPod(n) \/ Bind(n) \/ GetsReady(n) \/ Restart(n) \/ Crash(n)
  \/ Resize \/ Report \/ Initialize \/ MakeDash \/ DashUp \/ DashDown
  \/ Template \/ Scale \/ AskUpgrade \/ Upgrade \/ Upgraded

Spec == Init /\ [][Next]_vars
-----------------------------------------------------------------------------
(* Properties.                                                               *)

\* Nothing that is under way all through a read is missing from its verdict: a deployment
\* is called settled by no read that had a restart, a missing node, an upgrade, the
\* security bootstrap or a Dashboards that is down before it from its first call to its
\* last, however the operator's own report lags (settled_of, the false green).
SettledMissesNothing == shown.missed = Nothing

\* The bar does not walk back (ADR-050, invariant 2) once every claim is bound and no node
\* is to be removed, while nothing crashes, fails to be read or is edited: not in the
\* middle of a restart either, where the nodes that are up go up and down.  Before, it
\* does: claims come one by one, and a node that is removed had counted as done.
Climbs == (shown.whole /\ clean /\ clean') => shown'.percent >= shown.percent
PercentClimbs == [][Climbs]_<<shown, clean>>
=============================================================================
