---------------------------- MODULE MCOtelStack ----------------------------
(* OtelStack on two Kubernetes objects and a few requests.                 *)
EXTENDS OtelStack

Inventory2 == <<"config", "dataprepper">>

\* Requests during a deferred task are looked at with trouble among the first two, and
\* among all of them without.
Explored == crossed => pc[MaxRequests] = "idle" \/ amiss = {}
=============================================================================
