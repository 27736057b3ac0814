------------------------------ MODULE MCAccounts ------------------------------
(* Two signups, two reset links, a verification and two resets.              *)
EXTENDS TLC

CONSTANTS Callers, Kind, Attempts, Reconciler, NoLink, MaxMishaps
CONSTANTS s1, s2, f1, f2, v1, x1, x2

VARIABLES person, link, mailed, asking, outcome, walls, dead, mishaps

Kinds7 == s1 :> "signup" @@ s2 :> "signup" @@ f1 :> "forgot" @@ f2 :> "forgot"
          @@ v1 :> "verify" @@ x1 :> "reset" @@ x2 :> "reset"

U == INSTANCE Accounts WITH
       Requests <- Callers, None <- NoLink, MaxTrouble <- MaxMishaps,
       account <- person, req <- asking, last <- outcome, troubles <- mishaps

ASSUME AccountsAssumption == U!AccountsAssumption

accountVars == <<person, link, mailed, asking, outcome, walls, dead, mishaps>>
AccountsBegin == U!Init
AccountsMove == U!Next
AccountsSpec == AccountsBegin /\ [][AccountsMove]_accountVars
FairAccountsSpec == AccountsSpec /\ U!Fairness

-----------------------------------------------------------------------------
(* The properties of Accounts: see there.                                    *)

\* A link works once, and after a reset the older links in older mails are dead, also
\* when two of them are followed at the same time (consume_token, reset_password).
OldLinksDie == [][U!WorksOnce]_accountVars

\* A tenant does not run without its walls for ever, nor does the notice of it stay
\* up (provision_isolation, reconcile_isolation_once).
EveryoneFenced == U!EveryoneFenced
=============================================================================
