---------------------------- MODULE MCRemediation ----------------------------
(* The remediation of one deployment, on small instances.                   *)
EXTENDS Remediation, TLC

CONSTANTS r1, r2, p1, p2

\* Two recoveries of different sources: a tie, or one winner.
TwoSources == r1 :> p1 @@ r2 :> p2

Steady  == [green |-> TRUE, updated |-> TRUE, wave |-> FALSE, still |-> TRUE]
Rolling == [green |-> FALSE, updated |-> FALSE, wave |-> TRUE, still |-> FALSE]
Stuck   == [green |-> FALSE, updated |-> TRUE, wave |-> FALSE, still |-> TRUE]
Three   == {Steady, Rolling, Stuck}
=============================================================================
