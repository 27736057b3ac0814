-------------------------- MODULE MCVersionUpgrade --------------------------
(* VersionUpgrade on a few versions, one per major. *)
EXTENDS VersionUpgrade

Majors3 == {10, 20, 30}
=============================================================================
