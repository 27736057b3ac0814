------------------------------- MODULE Accounts -------------------------------
(***************************************************************************)
(* The self-serve account of one address: src/src/tenants.rs, with the      *)
(* provisioning of its namespace in src/src/k8s.rs.                         *)
(*                                                                         *)
(* A signup, a request for a reset link, and the redemption of a link are   *)
(* each one request, made of SQL statements in and out of transactions.     *)
(* Postgres runs at READ COMMITTED: a row written by an open transaction    *)
(* makes the next writer wait, who then looks at it again, and of two that  *)
(* wait for each other one is aborted.  What an open transaction has        *)
(* written is kept in its request, and reaches the tables as it commits.    *)
(*                                                                         *)
(* The walls of the tenant are applied after the commit, by the signup and  *)
(* again by the background reconcile, which asks the audit log who lacks    *)
(* them.  A link is named by the request that issued it.  Hashes, the       *)
(* wording of the mails and the refusals of bad input are left out.         *)
(***************************************************************************)
EXTENDS Naturals, FiniteSets

CONSTANTS Requests,   \* requests about the address, each made once
          Kind,       \* what each of them is
          Attempts,   \* ATTEMPTS
          Reconciler, \* the background task
          None,       \* no link
          MaxTrouble  \* bound on what goes wrong

Kinds == {"signup", "forgot", "verify", "reset"}

\* An ASSUME of the module that instantiates this one.
AccountsAssumption ==
  /\ Kind \in [Requests -> Kinds]
  /\ Attempts \in Nat \ {0} /\ MaxTrouble \in Nat
  /\ Reconciler \notin Requests /\ None \notin Requests

VARIABLES account,  \* the rows of the user, the tenant, its owner and its quota, which
                    \* one transaction writes; and users.email_verified
          link,     \* the rows of both token tables, by request
          mailed,   \* the links a mail was delivered for
          req,      \* the requests and the reconciler
          last,     \* the last provisioning outcome in the audit log
          walls,    \* every object of the tenant's bundle is there
          dead,     \* history: the links a committed reset found outstanding
          troubles  \* what has gone wrong so far

vars == <<account, link, mailed, req, last, walls, dead, troubles>>

Of(kind) == {r \in Requests : Kind[r] = kind}
Trouble == troubles < MaxTrouble /\ troubles' = troubles + 1

\* A request: where it is, the link it redeems, the links it invalidates, its failed
\* attempts at a slug, and whether its bundle was applied.
At(p, pc) == req' = [req EXCEPT ![p].pc = pc]
New == [pc |-> "new", link |-> None, swept |-> {}, tries |-> 0, applied |-> FALSE]
Over == [New EXCEPT !.pc = "over"]

-----------------------------------------------------------------------------
(* The rows that open transactions hold.                                     *)

InTx == {"consumed", "updated", "swept"}

\* users_email_key: who inserts a taken address waits for its transaction to end.
HoldsEmail(r) == Kind[r] = "signup" /\ req[r].pc = "inserted"

HoldsLink(r, l) == req[r].pc \in InTx /\ (req[r].link = l \/ l \in req[r].swept)
HoldsUser(r) == req[r].pc \in {"updated", "swept"}
Free(r, l) == \A q \in Requests \ {r} : ~HoldsLink(q, l)

Outstanding == {l \in Of("forgot") : link[l] = "live"}

-----------------------------------------------------------------------------
(* A signup: create_user_and_tenant, issue_token, provision_isolation, mail. *)

\* The address is registered: the same answer, and no row is touched.
InsertUser(r) ==
  /\ Kind[r] = "signup" /\ req[r].pc = "new"
  /\ \A q \in Requests : ~HoldsEmail(q)
  /\ req' = [req EXCEPT ![r] = IF account.exists THEN Over ELSE [@ EXCEPT !.pc = "inserted"]]
  /\ UNCHANGED <<account, link, mailed, last, walls, dead, troubles>>

GivesUp(r) == req[r].tries + 1 >= Attempts

\* Another tenant has the slug: the transaction is rolled back and tried again with
\* a suffix, and given up after ATTEMPTS.
SlugTaken(r) ==
  /\ req[r].pc = "inserted"
  /\ req' = [req EXCEPT ![r] = IF GivesUp(r) THEN Over
                              ELSE [New EXCEPT !.tries = req[r].tries + 1]]
  /\ UNCHANGED <<account, link, mailed, last, walls, dead, troubles>>

CommitSignup(r) ==
  /\ req[r].pc = "inserted"
  /\ account' = [account EXCEPT !.exists = TRUE]
  /\ req' = [req EXCEPT ![r] = [New EXCEPT !.pc = "issue"]]
  /\ UNCHANGED <<link, mailed, last, walls, dead, troubles>>

\* issue_token.  It prunes rows that no longer redeem: used and expired ones stand
\* for those that are gone.
Issue(r) ==
  /\ req[r].pc = "issue"
  /\ link' = [link EXCEPT ![r] = "live"]
  /\ At(r, IF Kind[r] = "signup" THEN "apply" ELSE "mail")
  /\ UNCHANGED <<account, mailed, last, walls, dead, troubles>>

\* A relay outage does not undo anything.
Mail(r) ==
  /\ req[r].pc = "mail"
  /\ mailed' = mailed \cup {r}
  /\ At(r, "over")
  /\ UNCHANGED <<account, link, last, walls, dead, troubles>>

-----------------------------------------------------------------------------
(* The walls: provision_isolation, of a signup or of the reconcile.          *)

Applied(p, ok) == req' = [req EXCEPT ![p].pc = "audit", ![p].applied = ok]

\* provision_tenant: apply_bundle tries every document for ten rounds.
Apply(p) ==
  /\ req[p].pc = "apply"
  /\ walls' = TRUE /\ Applied(p, TRUE)
  /\ UNCHANGED <<account, link, mailed, last, dead, troubles>>

\* A document fails to the end, or it is there and its answer is lost; or the quota
\* cannot be read.
ApplyFails(p) ==
  /\ req[p].pc = "apply" /\ Trouble
  /\ walls' \in {walls, TRUE} /\ Applied(p, FALSE)
  /\ UNCHANGED <<account, link, mailed, last, dead>>

AfterAudit(p) == IF p = Reconciler THEN "idle" ELSE "mail"

\* Both outcomes are audited.
Audit(p) ==
  /\ req[p].pc = "audit"
  /\ last' = IF req[p].applied THEN "provisioned" ELSE "failed"
  /\ req' = [req EXCEPT ![p].pc = AfterAudit(p), ![p].applied = FALSE]
  /\ UNCHANGED <<account, link, mailed, walls, dead, troubles>>

AuditFails(p) ==
  /\ req[p].pc = "audit" /\ Trouble
  /\ req' = [req EXCEPT ![p].pc = AfterAudit(p), ![p].applied = FALSE]
  /\ UNCHANGED <<account, link, mailed, last, walls, dead>>

\* Mutant: a tenant without any outcome is taken for an isolated one.
UnisolatedIfFailed == account.exists /\ last = "failed"

\* unisolated_on: the last outcome is a failure, or there is none.
Unisolated == account.exists /\ last # "provisioned"

\* A pass of the reconcile: at startup and then for ever.
Reconcile ==
  /\ req[Reconciler].pc = "idle" /\ Unisolated
  /\ At(Reconciler, "apply")
  /\ UNCHANGED <<account, link, mailed, last, walls, dead, troubles>>

-----------------------------------------------------------------------------
(* Links: request_password_reset, verify_email, reset_password.              *)

\* An unknown address is answered in the same way, and no mail is sent.
Forgot(r) ==
  /\ Kind[r] = "forgot" /\ req[r].pc = "new"
  /\ At(r, IF account.exists THEN "issue" ELSE "over")
  /\ UNCHANGED <<account, link, mailed, last, walls, dead, troubles>>

\* The links a request of this kind redeems.
Links(kind) == mailed \cap Of(IF kind = "verify" THEN "signup" ELSE "forgot")

Redeems(l) == link[l] = "live"

\* consume_token: one answer for a link that is unknown, expired or used.
Consume(r) ==
  /\ Kind[r] \in {"verify", "reset"} /\ req[r].pc = "new"
  /\ \E l \in Links(Kind[r]) :
       /\ Free(r, l)
       /\ req' = IF Redeems(l) THEN [req EXCEPT ![r].pc = "consumed", ![r].link = l]
                               ELSE [req EXCEPT ![r].pc = "over"]
  /\ UNCHANGED <<account, link, mailed, last, walls, dead, troubles>>

\* The new password, and the address counts as verified.
UpdateUser(r) ==
  /\ req[r].pc = "consumed"
  /\ \A q \in Requests \ {r} : ~HoldsUser(q)
  /\ At(r, "updated")
  /\ UNCHANGED <<account, link, mailed, last, walls, dead, troubles>>

\* Every other outstanding reset link of the user.
Invalidate(r) ==
  /\ Kind[r] = "reset" /\ req[r].pc = "updated"
  /\ \A l \in Outstanding : Free(r, l)
  /\ req' = [req EXCEPT ![r].pc = "swept", ![r].swept = Outstanding \ {req[r].link}]
  /\ UNCHANGED <<account, link, mailed, last, walls, dead, troubles>>

Redeemed(r) == {req[r].link} \cup req[r].swept

\* Mutant: the other links are left as they are.
ConsumesItsOwn(r) == [link EXCEPT ![req[r].link] = "used"]

Consumed(r) == [l \in Requests |-> IF l \in Redeemed(r) THEN "used" ELSE link[l]]

Commits(r) ==
  /\ req[r].pc = (IF Kind[r] = "reset" THEN "swept" ELSE "updated")
  /\ link' = Consumed(r)
  /\ account' = [account EXCEPT !.verified = TRUE]
  /\ dead' = IF Kind[r] = "reset" THEN dead \cup Redeemed(r) ELSE dead
  /\ req' = [req EXCEPT ![r] = Over]
  /\ UNCHANGED <<mailed, last, walls, troubles>>

\* Two resets wait for each other, one for the user and one for a link: Postgres
\* aborts either, and the request fails.
Waits(r, q) ==
  /\ req[r].pc = "consumed" /\ req[q].pc = "updated"
  /\ Kind[q] = "reset" /\ req[r].link \in Outstanding

Deadlock(r) ==
  /\ Kind[r] \in {"verify", "reset"}
  /\ \E q \in Requests : q # r /\ (Waits(r, q) \/ Waits(q, r))
  /\ req' = [req EXCEPT ![r] = Over]
  /\ UNCHANGED <<account, link, mailed, last, walls, dead, troubles>>

Expires(l) ==
  /\ link[l] = "live" /\ \A r \in Requests : ~HoldsLink(r, l)
  /\ link' = [link EXCEPT ![l] = "expired"]
  /\ UNCHANGED <<account, mailed, req, last, walls, dead, troubles>>

-----------------------------------------------------------------------------
(* What goes wrong.                                                          *)

\* A statement fails, a client hangs up or the relay is down: the request ends where
\* it is, and its open transaction is rolled back.
Ends(r) ==
  /\ req[r].pc \notin {"new", "over"} /\ Trouble
  /\ req' = [req EXCEPT ![r] = Over]
  /\ UNCHANGED <<account, link, mailed, last, walls, dead>>

\* The commit of a signup lands, and its answer does not.
CommitLost(r) ==
  /\ req[r].pc = "inserted" /\ Trouble
  /\ account' = [account EXCEPT !.exists = TRUE]
  /\ req' = [req EXCEPT ![r] = Over]
  /\ UNCHANGED <<link, mailed, last, walls, dead>>

Restart ==
  /\ Trouble
  /\ req' = [p \in Requests \cup {Reconciler} |->
               IF p = Reconciler THEN [New EXCEPT !.pc = "idle"]
               ELSE IF req[p].pc = "new" THEN req[p] ELSE Over]
  /\ UNCHANGED <<account, link, mailed, last, walls, dead>>

-----------------------------------------------------------------------------
Init ==
  /\ account = [exists |-> FALSE, verified |-> FALSE]
  /\ link = [r \in Requests |-> "none"] /\ mailed = {}
  /\ req = [p \in Requests \cup {Reconciler} |->
              IF p = Reconciler THEN [New EXCEPT !.pc = "idle"] ELSE New]
  /\ last = "none" /\ walls = FALSE /\ dead = {} /\ troubles = 0

Provisions(p) == Apply(p) \/ Audit(p)

Works(r) ==
  \/ InsertUser(r) \/ SlugTaken(r) \/ CommitSignup(r) \/ Issue(r) \/ Mail(r) \/ Forgot(r)
  \/ Consume(r) \/ UpdateUser(r) \/ Invalidate(r) \/ Commits(r) \/ Deadlock(r)

Next ==
  \/ \E r \in Requests : Works(r) \/ Expires(r) \/ Ends(r) \/ CommitLost(r)
  \/ \E p \in Requests \cup {Reconciler} : Provisions(p) \/ ApplyFails(p) \/ AuditFails(p)
  \/ Reconcile \/ Restart

\* The reconcile runs for ever; no request has to.
Fairness == WF_vars(Reconcile) /\ WF_vars(Provisions(Reconciler))

Spec == Init /\ [][Next]_vars /\ Fairness
-----------------------------------------------------------------------------
(* Properties.                                                               *)

TypeOK ==
  /\ account \in [exists : BOOLEAN, verified : BOOLEAN]
  /\ link \in [Requests -> {"none", "live", "used", "expired"}]
  /\ mailed \subseteq Requests /\ dead \subseteq Requests
  /\ req \in [Requests \cup {Reconciler} ->
                [pc : {"idle", "new", "inserted", "issue", "apply", "audit", "mail", "over"} \cup InTx,
                 link : Requests \cup {None}, swept : SUBSET Requests,
                 tries : 0 .. Attempts, applied : BOOLEAN]]
  /\ last \in {"none", "provisioned", "failed"} /\ walls \in BOOLEAN
  /\ troubles \in 0 .. MaxTrouble

\* A link works once, and after a reset the older links in older mails are dead, also
\* when two of them are followed at the same time (tenants.rs: every other outstanding
\* reset token is consumed in the same transaction).
WorksOnce == \A r \in Of("reset") : Commits(r) => req[r].link \notin dead
OldLinksDie == [][WorksOnce]_vars

\* A tenant does not run without its walls for ever, nor does the notice of it stay
\* up, whichever of the signup, its audit and the reconcile fails, or dies.
EveryoneFenced == account.exists ~> [](walls /\ last = "provisioned")
=============================================================================
