------------------------------ MODULE MCPurposes ------------------------------
(* Provisioning with the three purposes of the code.                               *)
EXTENDS Provisioning

\* What is explored: the finding needs no overlap, no toggle and no failed call.
Explored == orderly
=============================================================================
