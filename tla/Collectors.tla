------------------------------ MODULE Collectors -------------------------------
(***************************************************************************)
(* The logins of one deployment's collectors: src/src/agents.rs, and what   *)
(* src/src/otel_stack.rs adds for the OTel stack.                           *)
(*                                                                         *)
(* A Fluent Bit agent per recipe and two pods of the stack send into the    *)
(* deployment's OpenSearch as its admin.  Each group reads the password     *)
(* from a Secret of its own when its pods start, so a hash of the password  *)
(* in the pod template restarts them when it changes.  Every tick of the    *)
(* sampler compares them with the admin Secret, and once OpenSearch takes   *)
(* the password there, writes the Secret and then the templates.            *)
(*                                                                         *)
(* A password is the number of the reset that made it.                      *)
(***************************************************************************)
EXTENDS Naturals, FiniteSets

CONSTANTS Passes,     \* ticks, installs, uninstalls, rotations at one time
          Recipes,    \* the recipes
          None,       \* no collector, no Secret, no hash
          MaxBegun,   \* bound on the passes begun
          MaxResets,  \* bound on the resets of the admin password
          MaxTrouble  \* bound on what goes wrong

Parts == {"exporter", "prepper"}

Passwords == Nat \cup {None}
Templates == [hash : Passwords, env : BOOLEAN, plain : Passwords, run : Passwords,
              due : BOOLEAN]

\* Holds in the modules that take this one in, which assume it.
CollectorsAssumption == None \notin Nat \cup Templates /\ Recipes \cap Parts = {}

Collectors == Recipes \cup Parts

VARIABLES admin,     \* the admin Secret
          accepted,  \* the password OpenSearch takes
          resets,
          login,     \* the Secrets the collectors read, one per group
          made,      \* the collectors: the hash in the template and whether it names
                     \* the Secret (PASSWORD_ENV), the password in the ConfigMap (before
                     \* the fix), the one the pods run with, whether they are to restart
          pass,      \* the passes
          crossed,   \* history: a removal or rotation overlapped a pass, or a pass wrote a
                     \* login that was not the one OpenSearch takes
          torn,      \* history: the stack has its Secret, not all of its hashes
          cut,       \* history: the collectors from before the fix whose ConfigMap was
                     \* applied and whose workload then was not
          ticked,    \* history: the last tick ran to its end ("yes"), alone, with no pass
                     \* begun and no password changed since it began ("running")
          begun, troubles

bounds == <<begun, troubles>>
vars == <<admin, accepted, resets, login, made, pass, crossed, torn, cut, ticked,
          bounds>>

Group(c) == IF c \in Parts THEN "stack" ELSE "agents"

\* own_agents.
Own == {c \in Recipes : made[c] # None}
Installed == login["stack"] # None

-----------------------------------------------------------------------------
(* The admin password: a reset, its job, and the backstop that undoes it.     *)

Reset ==
  /\ resets < MaxResets /\ admin = accepted
  /\ resets' = resets + 1 /\ admin' = resets + 1
  /\ ticked' = "no"
  /\ UNCHANGED <<accepted, login, made, pass, crossed, torn, cut, bounds>>

Job ==
  /\ admin # accepted /\ accepted' = admin
  /\ ticked' = "no"
  /\ UNCHANGED <<admin, resets, login, made, pass, crossed, torn, cut, bounds>>

Backstop ==
  /\ admin # accepted /\ admin' = accepted
  /\ ticked' = "no"
  /\ UNCHANGED <<accepted, resets, login, made, pass, crossed, torn, cut, bounds>>

\* The pods of a changed template start with what the Secret holds then, or cannot; one
\* that does not name the Secret leaves them with what the ConfigMap has.
Start(c) ==
  /\ made[c] # None /\ made[c].due
  /\ made[c].env => login[Group(c)] # None
  /\ made' = [made EXCEPT ![c] =
       [@ EXCEPT !.run = IF made[c].env THEN login[Group(c)] ELSE made[c].plain,
                 !.due = FALSE]]
  /\ UNCHANGED <<admin, accepted, resets, login, pass, crossed, torn, cut, ticked, bounds>>

-----------------------------------------------------------------------------
(* A pass: its kind, the recipe it builds, the password it read, and for a    *)
(* tick what it found.                                                       *)

Idle == [kind |-> None, pc |-> "idle", at |-> None, pw |-> None, want |-> None,
         plain |-> {}, stale |-> {}, otel |-> FALSE]

Active == {r \in Passes : pass[r].pc # "idle"}
Set(r, me) == pass' = [pass EXCEPT ![r] = me]
Over(r) == Set(r, Idle)

Begin(r, kind, pc, at) ==
  /\ pass[r].pc = "idle" /\ begun < MaxBegun /\ begun' = begun + 1
  /\ crossed' = (crossed \/ 
                  \E q \in Active : {"remove", "rotate"} \cap {kind, pass[q].kind} # {})
  /\ ticked' = IF kind = "tick" /\ Active = {} THEN "running" ELSE "no"
  /\ Set(r, [Idle EXCEPT !.kind = kind, !.pc = pc, !.at = at])
  /\ UNCHANGED <<admin, accepted, resets, login, made, torn, cut, troubles>>

\* The sampler's loop: one tick at a time.
BeginTick(r) ==
  /\ \A q \in Active : pass[q].kind # "tick"
  /\ Begin(r, "tick", "look", None)
BeginInstall(r) == \E c \in Recipes : Begin(r, "install", "creds", c)
BeginRemove(r) == \E c \in Recipes : Begin(r, "remove", "delete", c)
BeginRotate(r) == Installed /\ Begin(r, "rotate", "creds", None)
\* A start of the server applies again a collector that lacks the filter of its events:
\* read as there, whatever becomes of it before it is applied.
BeginRepair(r) == \E c \in Own : Begin(r, "install", "creds", c)

\* A template is applied; the pods restart when it changed.
Applied(c, pw) ==
  IF made[c] # None /\ made[c].env /\ made[c].hash = pw THEN made[c]
  ELSE [hash |-> pw, env |-> TRUE, plain |-> None, due |-> TRUE,
        run |-> IF made[c] = None THEN None ELSE made[c].run]

-----------------------------------------------------------------------------
(* apply_agent_workload, which the migration of a tick runs too, and the      *)
(* rotation of the stack's own credential, which applies all of its objects. *)

ReadCreds(r) ==
  /\ pass[r].pc = "creds"
  /\ Set(r, [pass[r] EXCEPT !.pc = "login", !.pw = admin])
  /\ UNCHANGED <<admin, accepted, resets, login, made, crossed, torn, cut, ticked, bounds>>

WriteLogin(r) ==
  LET me == pass[r] IN
  /\ me.pc = "login"
  /\ login' = [login EXCEPT ![IF me.kind = "rotate" THEN "stack" ELSE "agents"] = me.pw]
  /\ torn' = (torn \/ me.kind = "rotate")
  /\ crossed' = (crossed \/ me.pw # accepted)
  /\ Set(r, [me EXCEPT !.pc = IF me.kind = "rotate" THEN "exporter" ELSE "config",
                       !.want = IF me.kind = "rotate" THEN me.pw ELSE me.want])
  /\ UNCHANGED <<admin, accepted, resets, made, cut, ticked, bounds>>

\* What a tick does next: each plaintext one, the Secret if any is stale, the stack.
Turn(me) ==
  IF me.plain # {} THEN {[me EXCEPT !.pc = "creds", !.at = c] : c \in me.plain}
  ELSE {[me EXCEPT !.pc = IF me.stale # {} THEN "secret"
                          ELSE IF me.otel THEN "stack" ELSE "end"]}

\* The ConfigMap goes first, with the variable's name where a password was.
Configure(r) ==
  LET at == pass[r].at IN
  /\ pass[r].pc = "config"
  /\ made' = IF made[at] = None THEN made
             ELSE [made EXCEPT ![at] = [@ EXCEPT !.plain = None]]
  /\ Set(r, [pass[r] EXCEPT !.pc = "workload"])
  /\ UNCHANGED <<admin, accepted, resets, login, crossed, torn, cut, ticked, bounds>>

Workload(r) ==
  LET me == pass[r] IN
  /\ me.pc = "workload"
  /\ made' = [made EXCEPT ![me.at] = Applied(me.at, me.pw)]
  /\ cut' = cut \ {me.at}
  /\ IF me.kind = "install" THEN Over(r)
     ELSE \E next \in Turn([me EXCEPT !.plain = @ \ {me.at}]) : Set(r, next)
  /\ UNCHANGED <<admin, accepted, resets, login, crossed, torn, ticked, bounds>>

-----------------------------------------------------------------------------
(* remove_agent: the last collector takes the login with it.                  *)

Delete(r) ==
  /\ pass[r].pc = "delete"
  /\ made' = [made EXCEPT ![pass[r].at] = None]
  /\ cut' = cut \ {pass[r].at}
  /\ Set(r, [pass[r] EXCEPT !.pc = "last"])
  /\ UNCHANGED <<admin, accepted, resets, login, crossed, torn, ticked, bounds>>

Last(r) ==
  /\ pass[r].pc = "last"
  /\ IF Own = {} THEN Set(r, [pass[r] EXCEPT !.pc = "drop"]) ELSE Over(r)
  /\ UNCHANGED <<admin, accepted, resets, login, made, crossed, torn, cut, ticked, bounds>>

Drop(r) ==
  /\ pass[r].pc = "drop"
  /\ login' = [login EXCEPT !["agents"] = None]
  /\ Over(r)
  /\ UNCHANGED <<admin, accepted, resets, made, crossed, torn, cut, ticked, bounds>>

-----------------------------------------------------------------------------
(* reconcile_creds_inner.                                                     *)

\* Mutant: the Secret tells whether a collector is stale, as it does for the stack.
StaleBySecret(c, want) == login["agents"] # want

Stale(c, want) == made[c].hash # want

Look(r) ==
  LET plain == {c \in Own : made[c].plain # None}
      stale == {c \in Own \ plain : Stale(c, admin)}
      otel == login["stack"] \notin {None, admin} IN  \* creds_stale: by its Secret
  /\ pass[r].pc = "look"
  /\ Set(r, [pass[r] EXCEPT !.want = admin, !.plain = plain, !.stale = stale,
                            !.otel = otel,
                            !.pc = IF plain = {} /\ stale = {} /\ ~otel
                                   THEN "end" ELSE "probe"])
  /\ UNCHANGED <<admin, accepted, resets, login, made, crossed, torn, cut, ticked, bounds>>

\* opensearch_accepts.
Probe(r) ==
  LET me == pass[r] IN
  /\ me.pc = "probe"
  /\ IF me.want = accepted THEN \E next \in Turn(me) : Set(r, next) ELSE Over(r)
  /\ UNCHANGED <<admin, accepted, resets, login, made, crossed, torn, cut, ticked, bounds>>

Secret(r) ==
  LET me == pass[r] IN
  /\ me.pc = "secret"
  /\ login' = [login EXCEPT !["agents"] = me.want]
  /\ crossed' = (crossed \/ me.want # accepted)
  /\ Set(r, [me EXCEPT !.pc = "stamp"])
  /\ UNCHANGED <<admin, accepted, resets, made, torn, cut, ticked, bounds>>

\* A merge patch of a workload that is gone fails, and the tick with it.
Stamp(r) ==
  LET me == pass[r] IN
  /\ me.pc = "stamp"
  /\ \E c \in me.stale :
       IF made[c] = None THEN Over(r) /\ made' = made
       ELSE /\ made' = [made EXCEPT ![c] =
                 [@ EXCEPT !.hash = me.want, !.due = TRUE]]
            /\ LET left == me.stale \ {c} IN
               Set(r, [me EXCEPT !.stale = left,
                                 !.pc = IF left # {} THEN "stamp"
                                        ELSE IF me.otel THEN "stack" ELSE "end"])
  /\ UNCHANGED <<admin, accepted, resets, login, crossed, torn, cut, ticked, bounds>>

\* sync_creds: the Secret, the exporter, Data Prepper.
SyncSecret(r) ==
  /\ pass[r].pc = "stack"
  /\ login' = [login EXCEPT !["stack"] = pass[r].want]
  /\ torn' = TRUE
  /\ Set(r, [pass[r] EXCEPT !.pc = "exporter"])
  /\ UNCHANGED <<admin, accepted, resets, made, crossed, cut, ticked, bounds>>

SyncPart(r) ==
  LET me == pass[r] IN
  /\ me.pc \in Parts
  /\ made' = [made EXCEPT ![me.pc] = Applied(me.pc, me.want)]
  /\ torn' = (torn /\ \E c \in Parts : made'[c].hash # login["stack"])
  /\ IF me.pc = "exporter" THEN Set(r, [me EXCEPT !.pc = "prepper"])
     ELSE IF me.kind = "rotate" THEN Over(r)
     ELSE Set(r, [me EXCEPT !.pc = "end"])
  /\ UNCHANGED <<admin, accepted, resets, login, crossed, cut, ticked, bounds>>

End(r) ==
  /\ pass[r].pc = "end"
  /\ Over(r)
  /\ ticked' = IF ticked = "running" THEN "yes" ELSE ticked
  /\ UNCHANGED <<admin, accepted, resets, login, made, crossed, torn, cut, bounds>>

\* Applying the ConfigMap was all that came of a migration.
Halved(me) == me.pc = "workload" /\ made[me.at] # None /\ ~made[me.at].env

\* A call fails or the process dies.
Ends(r) ==
  /\ r \in Active
  /\ troubles < MaxTrouble /\ troubles' = troubles + 1
  /\ cut' = cut \cup {c \in {pass[r].at} : Halved(pass[r])}
  /\ Over(r)
  /\ UNCHANGED <<admin, accepted, resets, login, made, crossed, torn, ticked, begun>>

-----------------------------------------------------------------------------
\* A collector shipped before the fix has the password in its ConfigMap and no Secret;
\* the stack is installed, or not.
Init ==
  /\ admin = 0 /\ accepted = 0 /\ resets = 0
  /\ \E old \in SUBSET Recipes, stack \in BOOLEAN :
       /\ login = [agents |-> None, stack |-> IF stack THEN 0 ELSE None]
       /\ made = [c \in Collectors |->
            IF c \in old
            THEN [hash |-> None, env |-> FALSE, plain |-> 0, run |-> 0, due |-> FALSE]
            ELSE IF c \in Parts /\ stack
            THEN [hash |-> 0, env |-> TRUE, plain |-> None, run |-> 0, due |-> FALSE]
            ELSE None]
  /\ pass = [r \in Passes |-> Idle]
  /\ crossed = FALSE /\ torn = FALSE /\ cut = {} /\ ticked = "no"
  /\ begun = 0 /\ troubles = 0

Steps(r) ==
  \/ ReadCreds(r) \/ WriteLogin(r) \/ Configure(r) \/ Workload(r)
  \/ Delete(r) \/ Last(r) \/ Drop(r)
  \/ Look(r) \/ Probe(r) \/ Secret(r) \/ Stamp(r) \/ SyncSecret(r) \/ SyncPart(r)
  \/ End(r)

Next ==
  \/ Reset \/ Job \/ Backstop
  \/ \E c \in Collectors : Start(c)
  \/ \E r \in Passes :
       \/ BeginTick(r) \/ BeginInstall(r) \/ BeginRemove(r) \/ BeginRotate(r)
       \/ BeginRepair(r) \/ Steps(r) \/ Ends(r)

Spec == Init /\ [][Next]_vars
-----------------------------------------------------------------------------
(* Properties.                                                               *)

\* A collector signs in: after a tick that ran alone to its end and found OpenSearch
\* taking the admin password, every collector has it in its Secret, names the Secret and
\* has no password in its ConfigMap, and its pods run with it or are about to
\* (reconcile_creds), whatever failed half way before: resets, rollbacks, ticks, installs.
\* Left out: a collector whose migration got no further than the ConfigMap (`cut`), which
\* the next tick takes for a stale one and marks as current; the stack when a switch of
\* its login ended between its Secret and its hashes; and what `crossed` marks.
TickSettlesLogins ==
  (ticked = "yes" /\ ~crossed) =>
    \A c \in Collectors \ cut : (made[c] # None /\ ~(torn /\ c \in Parts)) =>
      /\ made[c].env /\ made[c].hash = admin /\ made[c].plain = None
      /\ login[Group(c)] = admin
      /\ made[c].due \/ made[c].run = admin
=============================================================================
