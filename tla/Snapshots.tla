------------------------------ MODULE Snapshots ------------------------------
(***************************************************************************)
(* The snapshot configuration of one deployment (ADR-049): the saves of    *)
(* set_snapshot_config, from the snapshot tab or from the applier that     *)
(* carries the configuration of a create, the slice of the CR, the S3      *)
(* Secret and the policy they write, and the sampler that applies a policy *)
(* which waited on the CR for the node roll its save started (k8s.rs,      *)
(* snapshot.rs).  Nothing orders these writers.                            *)
(*                                                                         *)
(* A policy is named by the save that asked for it.  The contents of the   *)
(* repository entry, which never roll a node, are left out.  The readings  *)
(* a save takes before it asks whether the deployment has settled are      *)
(* taken at one moment.  Only snapshot saves roll the nodes here.          *)
(***************************************************************************)
EXTENDS Naturals, FiniteSets

CONSTANTS Saves,      \* the saves that are made
          None,       \* no policy
          MaxEvents   \* bound on what goes wrong

ASSUME SnapshotsAssumption == None \notin Saves /\ MaxEvents \in Nat

VARIABLES slice,    \* the CR names the repository and the keystore Secret
          secret,   \* the Secret with the S3 keys exists
          policy,   \* the OpensearchSnapshotPolicy
          pending,  \* the policy waiting in the CR's annotation
          aged,     \* it has waited POLICY_DEFER_MIN_SECS
          owed,     \* the keystore moved and the operator has not started to roll
          rolling,  \* the nodes roll: activity says not settled
          cfg,      \* what each save asks for
          plan,     \* will_restart, as each save's pre-flight found it
          pc,       \* where each save is
          tick,     \* where the sampler is in its step
          held,     \* the policy it read
          mixed,    \* history: writers overlapped since the last undisturbed start
          crossed,  \* history: two saves have overlapped
          owner,    \* history: the save whose answer stands
          events    \* what has gone wrong so far

cluster == <<slice, secret, policy, pending, aged, owed, rolling>>
history == <<mixed, crossed, owner>>
vars == <<cluster, cfg, plan, pc, tick, held, history, events>>

(* The configurations that validate lets through; off, nothing else counts. *)
Off == [on |-> FALSE, sched |-> FALSE, keys |-> "kept", task |-> FALSE]
Configs ==
    [on : {TRUE}, sched : BOOLEAN, keys : {"kept", "blank", "new"}, task : BOOLEAN] \cup {Off}

Writing == {"secret", "slice", "apply", "drop", "pending", "prune", "forget"}
Active == {s \in Saves : pc[s] \in Writing \cup {"preflight"}}

(* What a save asks for agrees with where it is.                           *)
PlanFollowed ==
    \A s \in Saves :
        /\ pc[s] = "apply" => cfg[s].on /\ cfg[s].sched /\ ~plan[s]
        /\ pc[s] \in {"secret", "slice"} => cfg[s].on
        /\ pc[s] \in {"prune", "forget"} => ~cfg[s].on
        /\ pc[s] = "wait" => cfg[s].task

TypeOK ==
    /\ slice \in BOOLEAN /\ secret \in BOOLEAN
    /\ policy \in Saves \cup {None} /\ pending \in Saves \cup {None}
    /\ aged \in BOOLEAN /\ owed \in BOOLEAN /\ rolling \in BOOLEAN
    /\ cfg \in [Saves -> Configs]
    /\ plan \in [Saves -> BOOLEAN]
    /\ pc \in [Saves -> {"idle", "wait", "done"} \cup {"preflight"} \cup Writing]
    /\ tick \in {"idle", "check", "apply", "clear"}
    /\ held \in Saves \cup {None}
    /\ mixed \in BOOLEAN /\ crossed \in BOOLEAN
    /\ owner \in Saves \cup {None}
    /\ events \in 0 .. MaxEvents
    /\ PlanFollowed

Init ==
    /\ slice = FALSE /\ secret = FALSE /\ policy = None
    /\ pending = None /\ aged = FALSE /\ owed = FALSE /\ rolling = FALSE
    /\ cfg = [s \in Saves |-> Off] /\ plan = [s \in Saves |-> FALSE]
    /\ pc = [s \in Saves |-> "idle"]
    /\ tick = "idle" /\ held = None
    /\ mixed = FALSE /\ crossed = FALSE /\ owner = None
    /\ events = 0

Event == events < MaxEvents /\ events' = events + 1
Goto(s, l) == pc' = [pc EXCEPT ![s] = l]

-----------------------------------------------------------------------------
(* snapshot.rs                                                             *)

\* Blank keys count as changed here, and as kept everywhere else.
NeedsRestart(was, new) == was # new.on \/ (new.on /\ new.keys # "kept")

Provided(c) == c.keys = "new"

\* Mutant: blank keys pass for new ones.
LacksKeysKept(c) == c.on /\ c.keys = "kept" /\ ~secret

\* Without keys of its own a configuration needs the stored ones.
LacksKeys(c) == c.on /\ ~Provided(c) /\ ~secret

-----------------------------------------------------------------------------
(* A save: the readings, the pre-flight, and one write after the other.    *)

\* A task that is refused tries again once the deployment has settled.
Ends(c) == IF c.task THEN "wait" ELSE "done"

Begin(s) ==
    /\ \/ pc[s] = "idle" /\ \E c \in Configs : cfg' = [cfg EXCEPT ![s] = c]
       \/ pc[s] = "wait" /\ UNCHANGED cfg
    /\ cfg'[s].task => ~rolling        \* wait_settled
    /\ plan' = [plan EXCEPT ![s] = NeedsRestart(slice, cfg'[s])]
    /\ Goto(s, IF LacksKeys(cfg'[s]) THEN Ends(cfg'[s]) ELSE "preflight")
    /\ mixed' = (Active # {} \/ tick # "idle")
    /\ crossed' = (crossed \/ Active # {})
    /\ UNCHANGED <<cluster, tick, held, owner, events>>

Preflight(s) ==
    /\ pc[s] = "preflight"
    /\ IF plan[s] /\ rolling
       THEN Goto(s, Ends(cfg[s])) /\ UNCHANGED owner
       ELSE /\ Goto(s, IF ~cfg[s].on THEN "prune"
                       ELSE IF Provided(cfg[s]) THEN "secret" ELSE "slice")
            /\ owner' = None
    /\ UNCHANGED <<cluster, cfg, plan, tick, held, mixed, crossed, events>>

\* The keystore moves when its Secret does.
WriteSecret(s) ==
    /\ pc[s] = "secret"
    /\ secret' = TRUE /\ owed' = (owed \/ slice)
    /\ Goto(s, "slice")
    /\ UNCHANGED <<slice, policy, pending, aged, rolling, cfg, plan, tick, held, history, events>>

WriteSlice(s) ==
    /\ pc[s] = "slice"
    /\ slice' = TRUE /\ owed' = (owed \/ ~slice)
    /\ Goto(s, IF cfg[s].sched /\ ~plan[s] THEN "apply" ELSE "drop")
    /\ UNCHANGED <<secret, policy, pending, aged, rolling, cfg, plan, tick, held, history, events>>

Prune(s) ==
    /\ pc[s] = "prune"
    /\ slice' = FALSE /\ owed' = (owed \/ slice)
    /\ Goto(s, "drop")
    /\ UNCHANGED <<secret, policy, pending, aged, rolling, cfg, plan, tick, held, history, events>>

(* The deletion of the policy is best effort: its failure goes unreported. *)
DropPolicy(s) ==
    /\ pc[s] = "drop"
    /\ \/ policy' = None /\ UNCHANGED <<mixed, events>>
       \/ Event /\ UNCHANGED policy /\ mixed' = TRUE
    /\ Goto(s, "pending")
    /\ UNCHANGED <<slice, secret, pending, aged, owed, rolling, cfg, plan, tick, held, crossed, owner>>

ApplyPolicy(s) ==
    /\ pc[s] = "apply"
    /\ policy' = s
    /\ Goto(s, "pending")
    /\ UNCHANGED <<slice, secret, pending, aged, owed, rolling, cfg, plan, tick, held, history, events>>

(* An answered save stands if nobody else wrote in between.                *)
Answers(s) == Goto(s, "done") /\ owner' = IF mixed THEN None ELSE s

\* Mutant: only a disabled schedule clears what waits.
SetPendingUncleared(s) ==
    /\ pc[s] = "pending"
    /\ pending' = IF ~cfg[s].on \/ ~cfg[s].sched THEN None ELSE IF plan[s] THEN s ELSE pending
    /\ aged' = (aged /\ pending' = pending)
    /\ IF cfg[s].on THEN Answers(s) ELSE Goto(s, "forget") /\ UNCHANGED owner
    /\ UNCHANGED <<slice, secret, policy, owed, rolling, cfg, plan, tick, held, mixed, crossed, events>>

SetPending(s) ==
    /\ pc[s] = "pending"
    /\ pending' = IF cfg[s].on /\ cfg[s].sched /\ plan[s] THEN s ELSE None
    /\ aged' = FALSE
    /\ IF cfg[s].on THEN Answers(s) ELSE Goto(s, "forget") /\ UNCHANGED owner
    /\ UNCHANGED <<slice, secret, policy, owed, rolling, cfg, plan, tick, held, mixed, crossed, events>>

ForgetSecret(s) ==
    /\ pc[s] = "forget"
    /\ \/ secret' = FALSE /\ UNCHANGED events
       \/ Event /\ UNCHANGED secret
    /\ Answers(s)
    /\ UNCHANGED <<slice, policy, pending, aged, owed, rolling, cfg, plan, tick, held, mixed, crossed>>

(* A call fails, or the client hangs up, and what was written stays.       *)
SaveFails(s) ==
    /\ pc[s] \in Writing \cup {"preflight"} /\ Event
    /\ Goto(s, Ends(cfg[s]))
    /\ UNCHANGED <<cluster, cfg, plan, tick, held, history>>

Step(s) ==
    \/ Preflight(s) \/ WriteSecret(s) \/ WriteSlice(s) \/ Prune(s)
    \/ DropPolicy(s) \/ ApplyPolicy(s) \/ SetPending(s) \/ ForgetSecret(s)

-----------------------------------------------------------------------------
(* apply_pending_snapshot_policy, at every tick of the sampler.            *)

\* Mutant: settled is enough.
TickReadsAtOnce ==
    /\ tick = "idle" /\ pending # None
    /\ tick' = "check" /\ held' = pending
    /\ mixed' = (mixed \/ Active # {})
    /\ UNCHANGED <<cluster, cfg, plan, pc, crossed, owner, events>>

TickReads ==
    /\ tick = "idle" /\ pending # None /\ aged
    /\ tick' = "check" /\ held' = pending
    /\ mixed' = (mixed \/ Active # {})
    /\ UNCHANGED <<cluster, cfg, plan, pc, crossed, owner, events>>

TickChecks ==
    /\ tick = "check"
    /\ tick' = IF rolling THEN "idle" ELSE "apply"
    /\ UNCHANGED <<cluster, cfg, plan, pc, held, history, events>>

TickApplies ==
    /\ tick = "apply"
    /\ \/ policy' = held /\ tick' = "clear" /\ UNCHANGED events
       \/ Event /\ tick' = "idle" /\ UNCHANGED policy
    /\ UNCHANGED <<slice, secret, pending, aged, owed, rolling, cfg, plan, pc, held, history>>

TickClears ==
    /\ tick = "clear"
    /\ \/ pending' = None /\ aged' = FALSE /\ UNCHANGED events
       \/ Event /\ UNCHANGED <<pending, aged>>
    /\ tick' = "idle"
    /\ UNCHANGED <<slice, secret, policy, owed, rolling, cfg, plan, pc, held, history>>

Sampler == TickReads \/ TickChecks \/ TickApplies \/ TickClears

-----------------------------------------------------------------------------
(* The operator, the clock and the process.                                *)

RollStarts ==
    /\ owed /\ owed' = FALSE /\ rolling' = TRUE
    /\ UNCHANGED <<slice, secret, policy, pending, aged, cfg, plan, pc, tick, held, history, events>>

RollEnds ==
    /\ rolling /\ ~owed /\ rolling' = FALSE
    /\ UNCHANGED <<slice, secret, policy, pending, aged, owed, cfg, plan, pc, tick, held, history, events>>

(* The code counts on a roll to start within POLICY_DEFER_MIN_SECS.        *)
Ages ==
    /\ pending # None /\ ~aged /\ ~owed /\ aged' = TRUE
    /\ UNCHANGED <<slice, secret, policy, pending, owed, rolling, cfg, plan, pc, tick, held, history, events>>

(* A restart ends every save where it stands, the appliers included.       *)
Restart ==
    /\ Event
    /\ pc' = [s \in Saves |-> IF pc[s] = "idle" THEN "idle" ELSE "done"]
    /\ tick' = "idle"
    /\ UNCHANGED <<cluster, cfg, plan, held, history>>

Next ==
    \/ \E s \in Saves : Begin(s) \/ Step(s) \/ SaveFails(s)
    \/ Sampler
    \/ RollStarts \/ RollEnds \/ Ages \/ Restart

Spec == Init /\ [][Next]_vars

-----------------------------------------------------------------------------
(* The operator's reconcile never sees a keystore reference to a Secret    *)
(* that is not there, whatever fails, as long as no two saves overlap (the *)
(* order of the writes in set_snapshot_config).                            *)
SecretFirst == slice => secret \/ crossed

(* From the answer to a save that met no other writer on, its schedule is  *)
(* applied or waits on the CR, at every moment and across restarts, and    *)
(* one that was turned off does not come back.                             *)
AnsweredIsKept ==
    owner # None =>
        LET c == cfg[owner] IN
        IF c.on /\ c.sched
        THEN slice /\ (policy = owner \/ pending = owner)
        ELSE (slice <=> c.on) /\ policy = None /\ pending = None

(* The sampler never applies a policy into a roll, or just before one that *)
(* is owed, unless a save met another writer or failed (the rule of        *)
(* pending_policy_due).                                                    *)
SamplerWaits == [][ TickApplies /\ policy' = held /\ owner # None => ~owed /\ ~rolling ]_vars
=============================================================================
