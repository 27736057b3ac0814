------------------------------- MODULE MCAccess -------------------------------
(* Access on one pass, one base domain besides the default one and one list.  *)
EXTENDS Access
=============================================================================
