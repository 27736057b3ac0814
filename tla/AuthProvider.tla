----------------------------- MODULE AuthProvider -----------------------------
(***************************************************************************)
(* The identity provider of one deployment (ADR-045): set_auth_provider in  *)
(* src/src/k8s.rs, with what src/src/auth_provider.rs generates for it.     *)
(*                                                                         *)
(* A save writes the securityconfig Secret, the Secret with the saved spec, *)
(* and the slice of the CR that refers to both; one that goes back to       *)
(* internal accounts unwinds them.  The operator pushes the securityconfig  *)
(* the CR refers to into the security index of the cluster, and if there is *)
(* none it leaves the domains in that index as they are.                    *)
(*                                                                         *)
(* A spec is its kind and its credential; what the domains, the role        *)
(* mapping and the Dashboards keys say beyond that is left out.             *)
(***************************************************************************)
EXTENDS Naturals, FiniteSets

CONSTANTS Requests,   \* the saves at one time
          Creds,      \* credentials a user may type
          Kinds,      \* the kinds of provider in use, of those that hold a credential
          Kept,       \* SECRET_KEPT
          None,       \* no credential, no Secret
          Mode,       \* the access mode of the deployments
          Domain,     \* a base domain is set
          MaxBegun,   \* bound on the saves begun
          MaxTrouble  \* bound on what goes wrong

Redirects == {"oidc", "saml"}
Secretive == {"ldap", "jwt"} \cup Redirects

VARIABLES files,    \* the securityconfig Secret
          saved,    \* the Secret with the saved spec
          account,  \* the Secret with the Dashboards account: whose save made it
          cr,       \* the slice of the CR: its kind label, and what it refers to
          index,    \* the security index of the cluster
          req,      \* the saves: where they are, what they ask or have resolved, what
                    \* their user means by it, and whether all went well so far, alone
          given,    \* history: what the user of the last answered save meant
          crossed,  \* history: two saves have overlapped, "now" or "once" before a good one
          amiss,    \* history: a save failed, or left something behind, since a good one
          begun,    \* how many saves have begun
          troubles  \* what has gone wrong so far

cluster == <<files, saved, account, cr, index>>
bounds == <<begun, troubles>>
vars == <<cluster, req, given, crossed, amiss, bounds>>

Trouble == troubles < MaxTrouble /\ troubles' = troubles + 1

-----------------------------------------------------------------------------
(* auth_provider.rs.                                                         *)

Internal == [kind |-> "internal", cred |-> None]

\* What may be typed into the form: an ldap bind may be anonymous.
Specs ==
  {Internal, [kind |-> "proxy", cred |-> None]} \cup [kind : Kinds, cred : Creds]
    \cup [kind : Kinds \cap {"ldap"}, cred : {None}]

\* What the form is filled with: the placeholder, where a credential is stored.
Redacted(s) == IF s.cred = None THEN s ELSE [s EXCEPT !.cred = Kept]

Asks == Specs \cup {Redacted(s) : s \in Specs}
AllSpecs == {Internal} \cup [kind : Secretive \cup {"proxy"}, cred : Creds \cup {None, Kept}]

\* A credential sent back as the placeholder is the stored one of the same kind.
Merge(ask, stored) ==
  IF ask.cred = Kept /\ ask.kind = stored.kind THEN stored ELSE ask

PublicUrl == Mode = "ingress" /\ Domain

\* Mutant: the placeholder is let through.
ValidLaxly(s) == s.kind \in Redirects => PublicUrl

\* validate: what else it refuses is in the form alone.
Valid(s) == s.cred # Kept /\ (s.kind \in Redirects => PublicUrl)

\* The authentication domains: the local accounts in every one, the provider's beside.
Domains(s) == {"basic_internal"} \cup ({s.kind} \ {"internal"})

\* The whole set of files: the domains, the credential the provider's carries, and the
\* accounts of the users file, of which the Dashboards one changes hands.
Files(s, password) == [domains |-> Domains(s), cred |-> s.cred, password |-> password]
FileSets ==
  [domains : SUBSET ({"basic_internal", "proxy"} \cup Secretive),
   cred : Creds \cup {None, Kept}, password : Nat \cup {None}]

\* Holds in the module that takes this one in, which assumes it.
AuthAssumption ==
  /\ Kinds \subseteq Secretive /\ Kept # None
  /\ None \notin AllSpecs \cup FileSets

\* The Dashboards keys of a redirect, and the pod's reference to the saved spec.
Keys(s) == s.kind \in Redirects
Env(s) == s.kind = "oidc"

-----------------------------------------------------------------------------
(* k8s.rs: the slices of the CR.                                             *)

\* auth_cr_patch; the internal one owns nothing.
Slice(s) ==
  [kind |-> s.kind, files |-> s.kind # "internal", account |-> s.kind # "internal",
   keys |-> Keys(s), env |-> Env(s)]

\* auth_cr_patch_internal_owned.
OwnedSlice == [Slice(Internal) EXCEPT !.files = TRUE]

-----------------------------------------------------------------------------
(* set_auth_provider.                                                        *)

Idle == [pc |-> "idle", spec |-> Internal, means |-> Internal, good |-> TRUE, n |-> 0]

At(r, pc) == req' = [req EXCEPT ![r] = IF pc = "idle" THEN Idle ELSE [@ EXCEPT !.pc = pc]]
Active == {r \in Requests : req[r].pc # "idle"}
Stored == IF saved = None THEN Internal ELSE saved

Begin(r) ==
  /\ req[r].pc = "idle" /\ begun < MaxBegun /\ begun' = begun + 1
  /\ \E a \in Asks :
       req' = [q \in Requests |->
                 IF q = r THEN [pc |-> "read", spec |-> a, means |-> Merge(a, Stored),
                                good |-> Active = {}, n |-> begun']
                 ELSE [req[q] EXCEPT !.good = FALSE]]
  /\ crossed' = IF Active = {} THEN crossed ELSE "now"
  /\ UNCHANGED <<cluster, given, amiss, troubles>>

Resolves(r, stored) ==
  LET s == Merge(req[r].spec, stored)
      pc == IF s = Internal THEN "owned" ELSE "accounts"
  IN req' = [req EXCEPT ![r] = IF Valid(s) THEN [@ EXCEPT !.spec = s, !.pc = pc] ELSE Idle]

ReadStored(r) ==
  /\ req[r].pc = "read" /\ Resolves(r, Stored)
  /\ UNCHANGED <<cluster, given, crossed, amiss, bounds>>

\* read_auth_spec: a spec that cannot be read is no spec.
ReadFails(r) ==
  /\ req[r].pc = "read" /\ Resolves(r, Internal)
  /\ Trouble
  /\ UNCHANGED <<cluster, given, crossed, amiss, begun>>

LookOwned(r) ==
  /\ req[r].pc = "owned"
  /\ At(r, IF files = None THEN "prune" ELSE "accounts")
  /\ UNCHANGED <<cluster, given, crossed, amiss, bounds>>

\* The Dashboards account is made on first use; a save beside this one may make it too,
\* after this one looked.
EnsureAccount(r) ==
  /\ req[r].pc = "accounts"
  /\ \/ account' = req[r].n /\ (account = None \/ Active # {r})
     \/ account # None /\ UNCHANGED account
  /\ At(r, "files")
  /\ UNCHANGED <<files, saved, cr, index, given, crossed, amiss, bounds>>

\* The password is the one EnsureAccount returned.
WriteFiles(r) ==
  /\ req[r].pc = "files"
  /\ \E p \in IF Active = {r} THEN {account} ELSE 1 .. begun :
       files' = Files(req[r].spec, p)
  /\ At(r, IF req[r].spec = Internal THEN "point" ELSE "save")
  /\ UNCHANGED <<saved, account, cr, index, given, crossed, amiss, bounds>>

Save(r) ==
  /\ req[r].pc = "save"
  /\ saved' = req[r].spec
  /\ At(r, "wire")
  /\ UNCHANGED <<files, account, cr, index, given, crossed, amiss, bounds>>

\* A save is answered; one that went well alone makes up for what came before it.
Answered(r) ==
  /\ At(r, "idle")
  /\ given' = req[r].means
  /\ crossed' = IF req[r].good /\ crossed = "now" THEN "once" ELSE crossed
  /\ amiss' = (amiss /\ ~req[r].good)

Wire(r) ==
  /\ req[r].pc = "wire"
  /\ cr' = Slice(req[r].spec)
  /\ Answered(r)
  /\ UNCHANGED <<files, saved, account, index, bounds>>

\* Back to internal accounts: the CR first, then what it no longer refers to.
Point(r) ==
  /\ req[r].pc = "point"
  /\ cr' = OwnedSlice
  /\ At(r, "unsave")
  /\ UNCHANGED <<files, saved, account, index, given, crossed, amiss, bounds>>

Prune(r) ==
  /\ req[r].pc = "prune"
  /\ cr' = Slice(Internal)
  /\ At(r, "unfile")
  /\ UNCHANGED <<files, saved, account, index, given, crossed, amiss, bounds>>

DropFiles(r) ==
  /\ req[r].pc = "unfile"
  /\ files' = None
  /\ At(r, "unsave")
  /\ UNCHANGED <<saved, account, cr, index, given, crossed, amiss, bounds>>

Unsave(r) ==
  /\ req[r].pc = "unsave"
  /\ saved' = None
  /\ At(r, "unaccount")
  /\ UNCHANGED <<files, account, cr, index, given, crossed, amiss, bounds>>

DropAccount(r) ==
  /\ req[r].pc = "unaccount"
  /\ account' = None
  /\ Answered(r)
  /\ UNCHANGED <<files, saved, cr, index, bounds>>

\* A deletion that fails is logged, and the next one is tried.
DeleteFails(r) ==
  LET next == [unfile |-> "unsave", unsave |-> "unaccount"] IN
  /\ req[r].pc \in DOMAIN next \cup {"unaccount"}
  /\ Trouble /\ amiss' = TRUE
  /\ req' = [req EXCEPT ![r] = IF @.pc = "unaccount" THEN Idle
                               ELSE [@ EXCEPT !.pc = next[req[r].pc], !.good = FALSE]]
  /\ given' = IF req[r].pc = "unaccount" THEN req[r].means ELSE given
  /\ UNCHANGED <<cluster, crossed, begun>>

\* A call fails, its answer is lost, the client hangs up or the process dies.
Ends(r) ==
  /\ r \in Active /\ Trouble /\ amiss' = TRUE
  /\ At(r, "idle")
  /\ UNCHANGED <<cluster, given, crossed, begun>>

-----------------------------------------------------------------------------
(* The operator: its job applies the files the CR names, at any time.        *)

Pushes == cr.files /\ files # None /\ index # files

Push ==
  /\ Pushes
  /\ index' = files
  /\ UNCHANGED <<files, saved, account, cr, req, given, crossed, amiss, bounds>>

-----------------------------------------------------------------------------
Init ==
  /\ files = None /\ saved = None /\ account = None
  /\ cr = Slice(Internal) /\ index = Files(Internal, None)
  /\ req = [r \in Requests |-> Idle]
  /\ given = Internal /\ crossed = "never" /\ amiss = FALSE
  /\ begun = 0 /\ troubles = 0

Writes(r) ==
  \/ EnsureAccount(r) \/ WriteFiles(r) \/ Save(r) \/ Wire(r)
  \/ Point(r) \/ Prune(r) \/ DropFiles(r) \/ Unsave(r) \/ DropAccount(r)

Next ==
  \/ \E r \in Requests :
       Begin(r) \/ ReadStored(r) \/ ReadFails(r) \/ LookOwned(r) \/ Writes(r)
         \/ DeleteFails(r) \/ Ends(r)
  \/ Push

Spec == Init /\ [][Next]_vars
-----------------------------------------------------------------------------
(* Properties.                                                               *)

\* What the app shows is what the cluster authenticates against, with the credential
\* that was last typed, once a save went well and the operator has nothing to push: a
\* provider that was removed is gone from the security index too, a placeholder has never
\* become a credential, and Dashboards signs in with the account it is given
\* (internal_only_security_config_files, merge_secrets).  Left out: saves that overlapped.
ShownIsRun ==
  (crossed = "never" /\ ~amiss /\ Active = {} /\ ~Pushes) =>
    /\ Stored = given /\ cr.kind = given.kind
    /\ given.cred # Kept
    /\ index.domains = Domains(given) /\ index.cred = given.cred
    /\ cr.account => index.password = account
=============================================================================
