------------------------- MODULE MCBootstrapGrants -------------------------
(* BootstrapGrants with a few requests of any kind. *)
EXTENDS BootstrapGrants

CONSTANTS r1, r2, r3
=============================================================================
