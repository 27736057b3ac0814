------------------------------- MODULE Retention -------------------------------
(***************************************************************************)
(* The retention of one deployment (ADR-062): src/src/retention.rs and its  *)
(* callers in src/src/profiles.rs, src/src/otel_stack.rs and src/src/api.rs.*)
(*                                                                         *)
(* Velox writes a retention policy into the deployment's OpenSearch, stamps *)
(* on the CR which version of the document it wrote, and leaves the policy  *)
(* alone once somebody else has written it.  Four passes do so: the purpose *)
(* profile a save applies, the admin's "apply default", the user's "restore *)
(* default", and an install of the OTel stack.  The annotations they read   *)
(* are as old as their first step; the policy is guarded by its version.    *)
(*                                                                         *)
(* An age stands for its days.  The stack's three policies are one here,    *)
(* and a policy says its age, the age its description names and, as         *)
(* history, who wrote it.                                                   *)
(***************************************************************************)
EXTENDS Naturals, FiniteSets

CONSTANTS Passes,     \* the passes at one time
          Days,       \* the ages in use
          Builtin,    \* the out-of-box one
          None,       \* no value, no stamp, no policy
          MaxBegun,   \* bound on the passes begun
          MaxEdits,   \* bound on the edits of policies and of the default
          MaxTrouble  \* bound on what goes wrong

\* Holds in the modules that take this one in, which assume it.
RetentionAssumption == None \notin Nat \cup Days /\ Builtin \in Days

Policies == {"log", "otel"}
Purposes == {"observability", "search"}

VARIABLES default,  \* the installation default
          cr,       \* the CR: purpose, value, source of the value, stamp per policy
          live,     \* the policies in OpenSearch
          behind,   \* indices run an older version of the stack's policy than its pass left
          seqs,     \* versions given out so far, _seq_no and _primary_term
          pass,     \* the passes
          crossed,  \* history: two passes overlapped
          amiss,    \* history: something of a pass failed
          edits, begun, troubles

bounds == <<begun, troubles>>
vars == <<default, cr, live, behind, seqs, pass, crossed, amiss, edits, bounds>>

Edit == edits < MaxEdits /\ edits' = edits + 1
Trouble == troubles < MaxTrouble /\ troubles' = troubles + 1 /\ amiss' = TRUE

-----------------------------------------------------------------------------
(* The rules of retention.rs.                                                *)

\* Defaults::for_purpose.
ForPurpose(purpose) == IF purpose = "search" THEN None ELSE default

\* effective_days: without a value the built-in one, not the installation's.
Effective(value) == IF value = None THEN Builtin ELSE value

\* otel_days: without a value the installation's.
OtelDays(value) == IF value = None THEN default ELSE value

\* source_of: the annotation, or what the value looks like.
SourceOf(c) ==
  IF c.source # None THEN c.source
  ELSE IF c.value \in {None, Builtin, ForPurpose(c.purpose)} THEN "default"
  ELSE "override"

\* is_customized: by the stamp, or without one by velox's description.
Customized(doc, stamp) ==
  IF stamp # None THEN doc.seq # stamp ELSE doc.says # doc.age

\* Mutant: the patterns alone are compared.
CurrentAnyAge(doc, days) == TRUE

\* policy_is_current, ism_is_current: the patterns are the build's.
Current(doc, days) == doc.age = days

\* live_state, as retention_status tells the user: velox's own, as velox wrote it.
Managed(p) == live[p] # None /\ ~Customized(live[p], cr.stamp[p])

-----------------------------------------------------------------------------
(* A pass: its kind, the policy it is at, the age it asks for, whether it    *)
(* forces, what it read (annotations, version) and what came of the policies.*)

Idle == [kind |-> None, pc |-> "idle", at |-> None, days |-> None, force |-> FALSE,
         stamps |-> [p \in Policies |-> None], seen |-> None, out |-> None,
         purpose |-> None, value |-> None, source |-> None]

Active == {r \in Passes : pass[r].pc # "idle"}
Set(r, changes) == pass' = [pass EXCEPT ![r] = changes]
Over(r) == Set(r, Idle)

\* What a pass of this kind does once it has read the CR.
Reads(r, kind, days, force) ==
  Set(r, [Idle EXCEPT !.kind = kind, !.pc = "get", !.days = days, !.force = force,
                      !.at = IF kind = "install" THEN "otel" ELSE "log",
                      !.stamps = cr.stamp])

Starts(r) ==
  /\ pass[r].pc = "idle" /\ begun < MaxBegun /\ begun' = begun + 1
  /\ crossed' = (crossed \/ Active # {})

BeginApply(r) ==
  /\ Starts(r)
  /\ cr.purpose # "search" /\ SourceOf(cr) = "default"
  /\ Reads(r, "apply", default, FALSE)
  /\ UNCHANGED <<default, cr, live, behind, seqs, amiss, edits, troubles>>

BeginReset(r) ==
  /\ Starts(r)
  /\ cr.purpose # "search"
  /\ Reads(r, "reset", default, TRUE)
  /\ UNCHANGED <<default, cr, live, behind, seqs, amiss, edits, troubles>>

BeginInstall(r) ==
  /\ Starts(r)
  /\ Reads(r, "install", OtelDays(cr.value), FALSE)
  /\ UNCHANGED <<default, cr, live, behind, seqs, amiss, edits, troubles>>

\* save_cluster: a change of the purpose takes the default of the new one.
BeginSave(r) ==
  /\ Starts(r)
  /\ \E p \in Purposes :
       Set(r, [Idle EXCEPT !.kind = "save", !.pc = "carry", !.purpose = p,
                           !.days = IF p = cr.purpose THEN None ELSE ForPurpose(p)])
  /\ UNCHANGED <<default, cr, live, behind, seqs, amiss, edits, troubles>>

\* create_cluster reads what the CR says ...
Carry(r) ==
  /\ pass[r].pc = "carry"
  /\ Set(r, [pass[r] EXCEPT !.pc = "manifest", !.value = cr.value, !.source = cr.source])
  /\ UNCHANGED <<default, cr, live, behind, seqs, crossed, amiss, edits, bounds>>

\* ... and applies it again, or the new value.
Manifest(r) ==
  LET me == pass[r] IN
  /\ me.pc = "manifest"
  /\ cr' = [cr EXCEPT !.purpose = me.purpose,
                      !.value = IF me.days = None THEN me.value ELSE me.days,
                      !.source = IF me.days = None THEN me.source ELSE "default"]
  /\ Set(r, [me EXCEPT !.pc = "profile"])
  /\ UNCHANGED <<default, live, behind, seqs, crossed, amiss, edits, bounds>>

\* profiles::apply, once the deployment has settled; a failed one comes here again.
Profile(r) ==
  /\ pass[r].pc = "profile"
  /\ IF cr.purpose = "search" THEN Set(r, [pass[r] EXCEPT !.pc = "drop"])
     ELSE Reads(r, "save", Effective(cr.value), FALSE)
  /\ UNCHANGED <<default, cr, live, behind, seqs, crossed, amiss, edits, bounds>>

\* remove_retention: whoever wrote the policy.
Drop(r) ==
  /\ pass[r].pc = "drop"
  /\ live' = [live EXCEPT !["log"] = None]
  /\ Over(r)
  /\ UNCHANGED <<default, cr, behind, seqs, crossed, amiss, edits, bounds>>

DropFails(r) ==
  /\ pass[r].pc = "drop" /\ Trouble
  /\ Over(r)
  /\ UNCHANGED <<default, cr, live, behind, seqs, crossed, edits, begun>>

-----------------------------------------------------------------------------
(* apply_once, for the policy the pass is at.                                *)

\* What follows a policy: the stack's, the CR, or nothing.  The CR moves when a policy
\* took the value; an error of the log policy ends the pass, one of the stack's does not.
After(r, out) ==
  LET me == pass[r]
      moved == out \in {"written", "kept"} \/ me.out \in {"written", "kept"} IN
  \/ me.kind = "install" /\ Over(r)
  \/ me.kind = "save" /\ out = "error" /\ Set(r, [me EXCEPT !.pc = "profile"])
  \/ me.kind = "save" /\ out # "error" /\ Over(r)
  \/ /\ me.kind \in {"apply", "reset"} /\ me.at = "log"
     /\ \/ out = "error" /\ Over(r)
        \/ out # "error" /\ Set(r, [me EXCEPT !.at = "otel", !.pc = "get", !.out = out])
  \/ /\ me.kind \in {"apply", "reset"} /\ me.at = "otel"
     /\ \/ (me.kind = "reset" \/ moved) /\ Set(r, [me EXCEPT !.pc = "record"])
        \/ ~(me.kind = "reset" \/ moved) /\ Over(r)

Get(r) ==
  LET me == pass[r]
      doc == live[me.at]
      stamp == me.stamps[me.at] IN
  /\ me.pc = "get"
  /\ CASE doc = None -> Set(r, [me EXCEPT !.pc = "create"])
       [] doc # None /\ ~me.force /\ Customized(doc, stamp) -> After(r, "customized")
       [] doc # None /\ ~me.force /\ ~Customized(doc, stamp) /\ Current(doc, me.days) ->
            Set(r, [me EXCEPT !.pc = "settle", !.seen = doc.seq, !.out = "kept"])
       [] OTHER -> Set(r, [me EXCEPT !.pc = "put", !.seen = doc.seq])
  /\ UNCHANGED <<default, cr, live, behind, seqs, crossed, amiss, edits, bounds>>

\* Mutant: the update is not conditional.
FreshAlways(r) == TRUE

\* if_seq_no, if_primary_term; a document that is not there is created.
Fresh(r) ==
  LET doc == live[pass[r].at] IN
  IF pass[r].pc = "create" THEN doc = None ELSE doc # None /\ doc.seq = pass[r].seen

Put(r) ==
  LET me == pass[r] IN
  /\ me.pc \in {"create", "put"} /\ Fresh(r)
  /\ seqs' = seqs + 1
  /\ live' = [live EXCEPT ![me.at] =
       [seq |-> seqs', age |-> me.days, says |-> me.days,
        by |-> IF me.force THEN "reset" ELSE "velox", hidden |-> FALSE]]
  /\ behind' = (behind \/ (me.at = "otel" /\ me.pc = "put"))
  /\ Set(r, [me EXCEPT !.pc = "settle", !.seen = seqs', !.out = "written"])
  /\ UNCHANGED <<default, cr, crossed, amiss, edits, bounds>>

\* Somebody wrote it in between: refused.
Refused(r) ==
  /\ pass[r].pc \in {"create", "put"} /\ ~Fresh(r)
  /\ After(r, "error")
  /\ amiss' = TRUE
  /\ UNCHANGED <<default, cr, live, behind, seqs, crossed, edits, bounds>>

\* The indices the stack's policy governs are moved to its version, also when the policy
\* was current, and the version is stamped on the CR.
Settle(r) ==
  LET me == pass[r] IN
  /\ me.pc = "settle"
  /\ behind' = (behind /\ me.at # "otel")
  /\ cr' = [cr EXCEPT !.stamp[me.at] = me.seen]
  /\ After(r, me.out)
  /\ UNCHANGED <<default, live, seqs, crossed, amiss, edits, bounds>>

\* Indices are refused to the last retry, or the stamp is not recorded: a warning.
SettleFails(r) ==
  LET me == pass[r] IN
  /\ me.pc = "settle" /\ Trouble
  /\ \/ cr' = cr /\ behind' = (behind /\ me.at # "otel")
     \/ cr' = [cr EXCEPT !.stamp[me.at] = me.seen] /\ behind' = behind
  /\ After(r, me.out)
  /\ UNCHANGED <<default, live, seqs, crossed, edits, begun>>

\* set_retention.
Record(r) ==
  /\ pass[r].pc = "record"
  /\ cr' = [cr EXCEPT !.value = pass[r].days, !.source = "default"]
  /\ Over(r)
  /\ UNCHANGED <<default, live, behind, seqs, crossed, amiss, edits, bounds>>

\* A call fails or the process dies.
Ends(r) ==
  /\ r \in Active /\ Trouble
  /\ Over(r)
  /\ UNCHANGED <<default, cr, live, behind, seqs, crossed, edits, begun>>

-----------------------------------------------------------------------------
(* People.                                                                   *)

SetDefault ==
  /\ Edit
  /\ \E d \in Days \ {default} : default' = d
  /\ UNCHANGED <<cr, live, behind, seqs, pass, crossed, amiss, bounds>>

\* A pass or the CR knows no stamp of the policy.
Unstamped(p) == cr.stamp[p] = None \/ \E r \in Active : pass[r].stamps[p] = None

\* A user edits a policy inside OpenSearch: its age, its description, or neither, which
\* only a stamp can tell.
UserEdit ==
  /\ Edit
  /\ \E p \in Policies, age, says \in Days :
       /\ live[p] # None
       /\ says \in {live[p].says, age}
       /\ live' = [live EXCEPT ![p] =
            [seq |-> seqs + 1, age |-> age, says |-> says, by |-> "user",
             hidden |-> Unstamped(p) /\ age = says]]
  /\ seqs' = seqs + 1
  /\ UNCHANGED <<default, cr, behind, pass, crossed, amiss, bounds>>

-----------------------------------------------------------------------------
\* A deployment before ADR-062 has no annotation and a policy velox wrote.
Init ==
  /\ default \in Days
  /\ \E v \in Days \cup {None}, s \in {"default", "override", None} :
       /\ (s = "default") => v = default
       /\ (s = None) => v = None
       /\ (s = "override") => v # None
       /\ cr = [purpose |-> "observability", value |-> v, source |-> s,
                stamp |-> [p \in Policies |-> None]]
  /\ live = [p \in Policies |->
       IF p = "log" /\ cr.value = None
       THEN [seq |-> 1, age |-> Builtin, says |-> Builtin, by |-> "velox", hidden |-> FALSE]
       ELSE None]
  /\ behind = FALSE /\ seqs = 1
  /\ pass = [r \in Passes |-> Idle]
  /\ crossed = FALSE /\ amiss = FALSE /\ edits = 0 /\ begun = 0 /\ troubles = 0

Begin(r) == BeginApply(r) \/ BeginReset(r) \/ BeginInstall(r) \/ BeginSave(r)

Steps(r) ==
  \/ Carry(r) \/ Manifest(r) \/ Profile(r) \/ Drop(r) \/ Get(r) \/ Put(r)
  \/ Refused(r) \/ Settle(r) \/ Record(r)

Fails(r) == DropFails(r) \/ SettleFails(r) \/ Ends(r)

Next ==
  \/ \E r \in Passes : Begin(r) \/ Steps(r) \/ Fails(r)
  \/ SetDefault \/ UserEdit

Spec == Init /\ [][Next]_vars
-----------------------------------------------------------------------------
(* Properties.                                                               *)

\* A policy a user has edited is written again by nothing but "restore default",
\* whatever overlaps and fails (ADR-062, apply_once).  Only an edit made before velox
\* had stamped the policy, of neither age nor description, goes unseen.
KeepsEdits ==
  \A p \in Policies :
    (live[p] # None /\ live[p].by = "user" /\ ~live[p].hidden /\ live'[p] # None)
      => live'[p].by # "velox"
EditsStand == [][KeepsEdits]_vars

\* The CR and the policy agree: once no pass runs and none overlapped or failed, a log
\* policy that is still velox's deletes at the age the CR says, and no index is left on
\* an older version of the stack's (apply_default_retention, reset_retention).
CrAndPolicyAgree ==
  (Active = {} /\ ~crossed /\ ~amiss) =>
    /\ (cr.purpose # "search" /\ Managed("log") /\ ~live["log"].hidden)
         => live["log"].age = Effective(cr.value)
    /\ ~behind
=============================================================================
