--------------------------- MODULE SettingsProofs ----------------------------
(***************************************************************************)
(* What holds of the settings of a deployment for any requests, any values *)
(* and any number of failures and restarts.                                *)
(*                                                                         *)
(* Snapshots: while no two writers met, at most one save is active and the *)
(* sampler rests, so what a save has written so far is still there; and    *)
(* once it is answered only the sampler writes, which holds the policy of  *)
(* that very save.                                                         *)
(*                                                                         *)
(* AuthProvider: a save that is alone has written what its place says, the *)
(* slice refers to no files that were never there, and what the last one   *)
(* left is repaired by the next.                                           *)
(*                                                                         *)
(* Access: a pass that may settle the routes is the only one, and goes by  *)
(* the settings and the list of now; so does every pass over settled ones. *)
(*                                                                         *)
(* Activity: what has been unfinished all through a read is in what was    *)
(* read, or is so still; and the counts tell which pods they count.        *)
(*                                                                         *)
(* Accounts: no link is held by two transactions, what one holds is live,  *)
(* and what a committed reset has found outstanding is used.               *)
(***************************************************************************)
EXTENDS MCSettings, MCAccounts, Sequences, FiniteSetTheorems, TLAPS

-----------------------------------------------------------------------------
(* Snapshots.                                                              *)

(* Writers that did not meet: one save, and the sampler at rest.           *)
Alone ==
    /\ ~mixed => /\ \A s, t \in Active : s = t
                 /\ Active # {} => tick = "idle"
    /\ ~crossed => \A s, t \in Active : s = t

(* What a save has seen or written of the Secret and the slice.            *)
SecretKept ==
    ~crossed =>
        /\ slice => secret
        /\ \A s \in Saves :
              /\ pc[s] = "preflight" /\ cfg[s].on /\ ~Provided(cfg[s]) => secret
              /\ pc[s] = "slice" => secret
              /\ pc[s] \in {"drop", "pending", "forget"} /\ ~cfg[s].on => ~slice

(* What a save has written, as long as it met nobody.                      *)
Written ==
    \A s \in Saves :
        /\ pc[s] \in Writing => owner = None
        /\ pc[s] = "drop" /\ cfg[s].on /\ cfg[s].sched => plan[s]
        /\ ~mixed =>
            /\ pc[s] \in {"drop", "apply", "pending", "forget"} => (slice <=> cfg[s].on)
            /\ pc[s] \in {"pending", "forget"} =>
                  policy = IF cfg[s].on /\ cfg[s].sched /\ ~plan[s] THEN s ELSE None
            /\ pc[s] = "forget" => pending = None /\ ~aged

(* What the sampler may be doing once a save has been answered.            *)
Answered ==
    owner # None =>
        /\ pc[owner] = "done" /\ pending \in {None, owner}
        /\ aged => ~owed
        /\ tick # "idle" => held = owner /\ ~owed /\ cfg[owner].on /\ cfg[owner].sched
        /\ tick = "apply" => ~rolling
        /\ tick = "clear" => policy = owner

IInv == TypeOK /\ Alone /\ SecretKept /\ Written /\ AnsweredIsKept /\ Answered

-----------------------------------------------------------------------------

LEMMA Fields == ASSUME NEW c \in Configs PROVE c.on \in BOOLEAN /\ c.sched \in BOOLEAN /\ c.task \in BOOLEAN
<1>1. CASE c = Off
  BY <1>1 DEF Off
<1>2. CASE c \in [on : {TRUE}, sched : BOOLEAN, keys : {"kept", "blank", "new"}, task : BOOLEAN]
  <2>1. c.on = TRUE /\ c.sched \in BOOLEAN /\ c.task \in BOOLEAN
    BY <1>2
  <2> QED
    BY <2>1, Zenon
<1> QED
  BY <1>1, <1>2, Zenon DEF Configs

(* The pc values at which something is asked of the configuration.         *)
LEMMA TypeStep == TypeOK /\ [Next]_vars => TypeOK'
<1> SUFFICES ASSUME TypeOK, [Next]_vars PROVE TypeOK'
    OBVIOUS
<1> USE SnapshotsAssumption DEF TypeOK, PlanFollowed, cluster, history, Goto, Event, Writing, NeedsRestart
<1>0. \A s \in Saves : cfg[s].on \in BOOLEAN /\ cfg[s].sched \in BOOLEAN /\ cfg[s].task \in BOOLEAN
  BY Fields
<1> USE <1>0
<1>1. ASSUME NEW s \in Saves, Begin(s) PROVE TypeOK'
  BY <1>1 DEF Begin, Ends
<1>2. ASSUME NEW s \in Saves, Preflight(s) PROVE TypeOK'
  BY <1>2 DEF Preflight, Ends
<1>3. ASSUME NEW s \in Saves, WriteSecret(s) PROVE TypeOK'
  <2>1. secret' \in BOOLEAN
    BY <1>3, Zenon DEF WriteSecret
  <2> QED
    BY <1>3, <2>1 DEF WriteSecret
<1>4. ASSUME NEW s \in Saves, WriteSlice(s) PROVE TypeOK'
  <2>1. slice' \in BOOLEAN
    BY <1>4, Zenon DEF WriteSlice
  <2> QED
    BY <1>4, <2>1 DEF WriteSlice
<1>5. ASSUME NEW s \in Saves, Prune(s) PROVE TypeOK'
  <2>1. slice' \in BOOLEAN
    BY <1>5, Zenon DEF Prune
  <2> QED
    BY <1>5, <2>1 DEF Prune
<1>6. ASSUME NEW s \in Saves, DropPolicy(s) PROVE TypeOK'
  <2>1. mixed' \in BOOLEAN
    BY <1>6, Zenon DEF DropPolicy
  <2> QED
    BY <1>6, <2>1 DEF DropPolicy
<1>7. ASSUME NEW s \in Saves, ApplyPolicy(s) PROVE TypeOK'
  BY <1>7 DEF ApplyPolicy
<1>8. ASSUME NEW s \in Saves, SetPending(s) PROVE TypeOK'
  <2>1. aged' \in BOOLEAN
    BY <1>8, Zenon DEF SetPending, Answers
  <2> QED
    BY <1>8, <2>1 DEF SetPending, Answers
<1>9. ASSUME NEW s \in Saves, ForgetSecret(s) PROVE TypeOK'
  <2>1. secret' \in BOOLEAN
    BY <1>9, Zenon DEF ForgetSecret, Answers
  <2> QED
    BY <1>9, <2>1 DEF ForgetSecret, Answers
<1>10. ASSUME NEW s \in Saves, SaveFails(s) PROVE TypeOK'
  BY <1>10 DEF SaveFails, Ends
<1>11. CASE TickReads
  BY <1>11 DEF TickReads
<1>12. CASE TickChecks
  BY <1>12 DEF TickChecks
<1>13. CASE TickApplies
  BY <1>13 DEF TickApplies
<1>14. CASE TickClears
  <2>1. aged' \in BOOLEAN
    BY <1>14, Zenon DEF TickClears
  <2> QED
    BY <1>14, <2>1 DEF TickClears
<1>15. CASE RollStarts
  BY <1>15 DEF RollStarts
<1>16. CASE RollEnds
  BY <1>16 DEF RollEnds
<1>17. CASE Ages
  BY <1>17 DEF Ages
<1>18. CASE Restart
  BY <1>18 DEF Restart
<1>19. CASE UNCHANGED vars
  BY <1>19 DEF vars
<1> QED
  BY <1>1, <1>2, <1>3, <1>4, <1>5, <1>6, <1>7, <1>8, <1>9, <1>10, <1>11, <1>12, <1>13, <1>14, <1>15, <1>16, <1>17, <1>18, <1>19
  DEF Next, Step, Sampler

(* A save that starts while another is active is noted, and so is a tick.  *)
LEMMA AloneStep == TypeOK /\ Alone /\ [Next]_vars => Alone'
<1> SUFFICES ASSUME TypeOK, Alone, [Next]_vars PROVE Alone'
    OBVIOUS
<1> USE SnapshotsAssumption DEF TypeOK, Alone, cluster, history, Goto, Event, Writing, Active
<1>1. ASSUME NEW s \in Saves, Begin(s) PROVE Alone'
  <2>1. Active' \subseteq Active \cup {s}
    BY <1>1 DEF Begin, Ends
  <2>2. /\ mixed' = (Active # {} \/ tick # "idle") /\ tick' = tick
        /\ crossed' = (crossed \/ Active # {})
    BY <1>1, Zenon DEF Begin
  <2> HIDE DEF Active
  <2> QED
    BY <2>1, <2>2
<1>2. ASSUME NEW s \in Saves, Preflight(s) PROVE Alone'
  BY <1>2 DEF Preflight, Ends
<1>3. ASSUME NEW s \in Saves, WriteSecret(s) PROVE Alone'
  BY <1>3 DEF WriteSecret
<1>4. ASSUME NEW s \in Saves, WriteSlice(s) PROVE Alone'
  BY <1>4 DEF WriteSlice
<1>5. ASSUME NEW s \in Saves, Prune(s) PROVE Alone'
  BY <1>5 DEF Prune
<1>6. ASSUME NEW s \in Saves, DropPolicy(s) PROVE Alone'
  BY <1>6 DEF DropPolicy
<1>7. ASSUME NEW s \in Saves, ApplyPolicy(s) PROVE Alone'
  BY <1>7 DEF ApplyPolicy
<1>8. ASSUME NEW s \in Saves, SetPending(s) PROVE Alone'
  BY <1>8 DEF SetPending, Answers
<1>9. ASSUME NEW s \in Saves, ForgetSecret(s) PROVE Alone'
  BY <1>9 DEF ForgetSecret, Answers
<1>10. ASSUME NEW s \in Saves, SaveFails(s) PROVE Alone'
  BY <1>10 DEF SaveFails, Ends
<1>11. CASE TickReads
  BY <1>11 DEF TickReads
<1>12. CASE TickChecks
  BY <1>12 DEF TickChecks
<1>13. CASE TickApplies
  BY <1>13 DEF TickApplies
<1>14. CASE TickClears
  BY <1>14 DEF TickClears
<1>15. CASE RollStarts
  BY <1>15 DEF RollStarts
<1>16. CASE RollEnds
  BY <1>16 DEF RollEnds
<1>17. CASE Ages
  BY <1>17 DEF Ages
<1>18. CASE Restart
  BY <1>18 DEF Restart
<1>19. CASE UNCHANGED vars
  BY <1>19 DEF vars
<1> QED
  BY <1>1, <1>2, <1>3, <1>4, <1>5, <1>6, <1>7, <1>8, <1>9, <1>10, <1>11, <1>12, <1>13, <1>14, <1>15, <1>16, <1>17, <1>18, <1>19
  DEF Next, Step, Sampler

(* The Secret is written before the slice and deleted after it.            *)
LEMMA SecretStep == TypeOK /\ Alone /\ SecretKept /\ [Next]_vars => SecretKept'
<1> SUFFICES ASSUME TypeOK, Alone, SecretKept, [Next]_vars PROVE SecretKept'
    OBVIOUS
<1> USE SnapshotsAssumption
    DEF TypeOK, Alone, PlanFollowed, SecretKept, cluster, history, Goto, Event, Writing, Active, Provided, LacksKeys
<1>0. \A s \in Saves : cfg[s].on \in BOOLEAN /\ cfg[s].sched \in BOOLEAN
  BY Fields DEF IInv, TypeOK
<1> USE <1>0
<1>1. ASSUME NEW s \in Saves, Begin(s) PROVE SecretKept'
  BY <1>1 DEF Begin, Ends
<1>2. ASSUME NEW s \in Saves, Preflight(s) PROVE SecretKept'
  BY <1>2 DEF Preflight, Ends
<1>3. ASSUME NEW s \in Saves, WriteSecret(s) PROVE SecretKept'
  BY <1>3 DEF WriteSecret
<1>4. ASSUME NEW s \in Saves, WriteSlice(s) PROVE SecretKept'
  BY <1>4 DEF WriteSlice
<1>5. ASSUME NEW s \in Saves, Prune(s) PROVE SecretKept'
  BY <1>5 DEF Prune
<1>6. ASSUME NEW s \in Saves, DropPolicy(s) PROVE SecretKept'
  BY <1>6 DEF DropPolicy
<1>7. ASSUME NEW s \in Saves, ApplyPolicy(s) PROVE SecretKept'
  BY <1>7 DEF ApplyPolicy
<1>8. ASSUME NEW s \in Saves, SetPending(s) PROVE SecretKept'
  BY <1>8 DEF SetPending, Answers
<1>9. ASSUME NEW s \in Saves, ForgetSecret(s) PROVE SecretKept'
  BY <1>9 DEF ForgetSecret, Answers
<1>10. ASSUME NEW s \in Saves, SaveFails(s) PROVE SecretKept'
  BY <1>10 DEF SaveFails, Ends
<1>11. CASE TickReads
  BY <1>11 DEF TickReads
<1>12. CASE TickChecks
  BY <1>12 DEF TickChecks
<1>13. CASE TickApplies
  BY <1>13 DEF TickApplies
<1>14. CASE TickClears
  BY <1>14 DEF TickClears
<1>15. CASE RollStarts
  BY <1>15 DEF RollStarts
<1>16. CASE RollEnds
  BY <1>16 DEF RollEnds
<1>17. CASE Ages
  BY <1>17 DEF Ages
<1>18. CASE Restart
  BY <1>18 DEF Restart
<1>19. CASE UNCHANGED vars
  BY <1>19 DEF vars
<1> QED
  BY <1>1, <1>2, <1>3, <1>4, <1>5, <1>6, <1>7, <1>8, <1>9, <1>10, <1>11, <1>12, <1>13, <1>14, <1>15, <1>16, <1>17, <1>18, <1>19
  DEF Next, Step, Sampler

(* A save that met nobody finds its own writes.                            *)
LEMMA WrittenStep == TypeOK /\ Alone /\ Written /\ [Next]_vars => Written'
<1> SUFFICES ASSUME TypeOK, Alone, Written, [Next]_vars PROVE Written'
    OBVIOUS
<1> USE SnapshotsAssumption
    DEF TypeOK, PlanFollowed, Alone, Written, cluster, history, Goto, Event, Writing, Active
<1>0. \A s \in Saves : cfg[s].on \in BOOLEAN /\ cfg[s].sched \in BOOLEAN
  BY Fields DEF IInv, TypeOK
<1> USE <1>0
<1>1. ASSUME NEW s \in Saves, Begin(s) PROVE Written'
  BY <1>1 DEF Begin, Ends
<1>2. ASSUME NEW s \in Saves, Preflight(s) PROVE Written'
  BY <1>2 DEF Preflight, Ends
<1>3. ASSUME NEW s \in Saves, WriteSecret(s) PROVE Written'
  BY <1>3 DEF WriteSecret
<1>4. ASSUME NEW s \in Saves, WriteSlice(s) PROVE Written'
  BY <1>4 DEF WriteSlice
<1>5. ASSUME NEW s \in Saves, Prune(s) PROVE Written'
  BY <1>5 DEF Prune
<1>6. ASSUME NEW s \in Saves, DropPolicy(s) PROVE Written'
  BY <1>6 DEF DropPolicy
<1>7. ASSUME NEW s \in Saves, ApplyPolicy(s) PROVE Written'
  BY <1>7 DEF ApplyPolicy
<1>8. ASSUME NEW s \in Saves, SetPending(s) PROVE Written'
  BY <1>8 DEF SetPending, Answers
<1>9. ASSUME NEW s \in Saves, ForgetSecret(s) PROVE Written'
  BY <1>9 DEF ForgetSecret, Answers
<1>10. ASSUME NEW s \in Saves, SaveFails(s) PROVE Written'
  BY <1>10 DEF SaveFails, Ends
<1>11. CASE TickReads
  BY <1>11 DEF TickReads
<1>12. CASE TickChecks
  BY <1>12 DEF TickChecks
<1>13. CASE TickApplies
  BY <1>13 DEF TickApplies
<1>14. CASE TickClears
  BY <1>14 DEF TickClears
<1>15. CASE RollStarts
  BY <1>15 DEF RollStarts
<1>16. CASE RollEnds
  BY <1>16 DEF RollEnds
<1>17. CASE Ages
  BY <1>17 DEF Ages
<1>18. CASE Restart
  BY <1>18 DEF Restart
<1>19. CASE UNCHANGED vars
  BY <1>19 DEF vars
<1> QED
  BY <1>1, <1>2, <1>3, <1>4, <1>5, <1>6, <1>7, <1>8, <1>9, <1>10, <1>11, <1>12, <1>13, <1>14, <1>15, <1>16, <1>17, <1>18, <1>19
  DEF Next, Step, Sampler

(* After the answer only the sampler writes, and what it holds is right.   *)
LEMMA AnsweredStep == IInv /\ [Next]_vars => AnsweredIsKept' /\ Answered'
<1> SUFFICES ASSUME IInv, [Next]_vars PROVE AnsweredIsKept' /\ Answered'
    OBVIOUS
<1> USE SnapshotsAssumption
    DEF IInv, TypeOK, PlanFollowed, Alone, Written, AnsweredIsKept, Answered, cluster, history, Goto, Event, Writing, Active
<1>0. \A s \in Saves : cfg[s].on \in BOOLEAN /\ cfg[s].sched \in BOOLEAN
  BY Fields DEF IInv, TypeOK
<1> USE <1>0
<1>1. ASSUME NEW s \in Saves, Begin(s) PROVE AnsweredIsKept' /\ Answered'
  BY <1>1 DEF Begin, Ends
<1>2. ASSUME NEW s \in Saves, Preflight(s) PROVE AnsweredIsKept' /\ Answered'
  BY <1>2 DEF Preflight, Ends
<1>3. ASSUME NEW s \in Saves, WriteSecret(s) PROVE AnsweredIsKept' /\ Answered'
  BY <1>3 DEF WriteSecret
<1>4. ASSUME NEW s \in Saves, WriteSlice(s) PROVE AnsweredIsKept' /\ Answered'
  BY <1>4 DEF WriteSlice
<1>5. ASSUME NEW s \in Saves, Prune(s) PROVE AnsweredIsKept' /\ Answered'
  BY <1>5 DEF Prune
<1>6. ASSUME NEW s \in Saves, DropPolicy(s) PROVE AnsweredIsKept' /\ Answered'
  BY <1>6 DEF DropPolicy
<1>7. ASSUME NEW s \in Saves, ApplyPolicy(s) PROVE AnsweredIsKept' /\ Answered'
  BY <1>7 DEF ApplyPolicy
<1>8. ASSUME NEW s \in Saves, SetPending(s) PROVE AnsweredIsKept' /\ Answered'
  BY <1>8 DEF SetPending, Answers
<1>9. ASSUME NEW s \in Saves, ForgetSecret(s) PROVE AnsweredIsKept' /\ Answered'
  BY <1>9 DEF ForgetSecret, Answers
<1>10. ASSUME NEW s \in Saves, SaveFails(s) PROVE AnsweredIsKept' /\ Answered'
  BY <1>10 DEF SaveFails, Ends
<1>11. CASE TickReads
  BY <1>11 DEF TickReads
<1>12. CASE TickChecks
  BY <1>12 DEF TickChecks
<1>13. CASE TickApplies
  BY <1>13 DEF TickApplies
<1>14. CASE TickClears
  BY <1>14 DEF TickClears
<1>15. CASE RollStarts
  BY <1>15 DEF RollStarts
<1>16. CASE RollEnds
  BY <1>16 DEF RollEnds
<1>17. CASE Ages
  BY <1>17 DEF Ages
<1>18. CASE Restart
  BY <1>18 DEF Restart
<1>19. CASE UNCHANGED vars
  BY <1>19 DEF vars
<1> QED
  BY <1>1, <1>2, <1>3, <1>4, <1>5, <1>6, <1>7, <1>8, <1>9, <1>10, <1>11, <1>12, <1>13, <1>14, <1>15, <1>16, <1>17, <1>18, <1>19
  DEF Next, Step, Sampler

-----------------------------------------------------------------------------

LEMMA Initially == Init => IInv
<1> SUFFICES ASSUME Init PROVE IInv
    OBVIOUS
<1> USE SnapshotsAssumption DEF Init
<1>1. TypeOK
  <2>1. Off \in Configs
    BY DEF Configs
  <2>2. /\ slice \in BOOLEAN /\ secret \in BOOLEAN /\ aged \in BOOLEAN /\ owed \in BOOLEAN
        /\ rolling \in BOOLEAN /\ mixed \in BOOLEAN /\ crossed \in BOOLEAN
        /\ plan \in [Saves -> BOOLEAN]
    BY Zenon
  <2> QED
    BY <2>1, <2>2 DEF TypeOK, PlanFollowed
<1>2. Alone /\ SecretKept /\ Written
  BY DEF Alone, SecretKept, Written, Active, Writing
<1>3. AnsweredIsKept /\ Answered
  BY DEF AnsweredIsKept, Answered
<1> QED
  BY <1>1, <1>2, <1>3 DEF IInv

LEMMA Invariance == Spec => []IInv
<1>1. Init => IInv
  BY Initially
<1>2. IInv /\ [Next]_vars => IInv'
  BY TypeStep, AloneStep, SecretStep, WrittenStep, AnsweredStep DEF IInv
<1> QED
  BY <1>1, <1>2, PTL DEF Spec

(* TypeOK for any saves and any number of failures: above all, only a save *)
(* whose pre-flight found no restart reaches the immediate apply.          *)
THEOREM Types == Spec => []TypeOK
<1>1. IInv => TypeOK
  BY DEF IInv
<1> QED
  BY <1>1, Invariance, PTL

(* SecretFirst: no dangling keystore reference (set_snapshot_config).      *)
THEOREM NoDanglingKeystore == Spec => []SecretFirst
<1>1. IInv => SecretFirst
  BY DEF IInv, TypeOK, SecretKept, SecretFirst
<1> QED
  BY <1>1, Invariance, PTL

(* AnsweredIsKept: the schedule of an undisturbed save is never lost, not  *)
(* even between the sampler's two writes.                                  *)
THEOREM AnswerKept == Spec => []AnsweredIsKept
<1>1. IInv => AnsweredIsKept
  BY DEF IInv
<1> QED
  BY <1>1, Invariance, PTL

(* SamplerWaits: no policy of an undisturbed save lands in its own roll    *)
(* (pending_policy_due).                                                   *)
THEOREM SamplerIsPatient == Spec => SamplerWaits
<1>1. IInv /\ [Next]_vars => [TickApplies /\ policy' = held /\ owner # None => ~owed /\ ~rolling]_vars
  BY DEF IInv, Answered, TickApplies
<1> QED
  BY <1>1, Invariance, PTL DEF Spec, SamplerWaits

-----------------------------------------------------------------------------
(* The identity provider.                                                    *)

AuthPcs == {"idle", "read", "owned", "accounts", "files", "save", "wire", "point", "prune",
            "unfile", "unsave", "unaccount"}
AuthSaves == [pc : AuthPcs, spec : A!AllSpecs, means : A!AllSpecs, good : BOOLEAN, n : Nat]

AuthTypes ==
  /\ req \in [Saves -> AuthSaves] /\ authBegun \in Nat
  /\ files \in A!FileSets \cup {None} /\ saved \in A!AllSpecs \cup {None}
  /\ account \in Nat \cup {None}
  /\ index \in A!FileSets /\ given \in A!AllSpecs
  /\ amiss \in BOOLEAN

\* The slice refers to files that are there, and files once there stay: the operator
\* pushes what is there in the end, or has never had anything to push.
Grounded ==
  /\ authCr.files => files # None
  /\ files = None => index.domains = {"basic_internal"} /\ index.cred = None /\ ~authCr.account

\* A set of files for a spec.
FilesOf(s) == files # None /\ files.domains = A!Domains(s) /\ files.cred = s.cred

\* CR and Secrets say what the user meant.
Faithful(s) ==
  /\ s.cred # Kept /\ authCr.kind = s.kind
  /\ authCr.files => FilesOf(s) /\ (authCr.account => files.password = account)
  /\ ~authCr.files => files = None /\ s = A!Internal

\* How far a save is that runs alone.
AuthAt(me) ==
  /\ me.pc = "read" => me.means = A!Merge(me.spec, A!Stored)
  /\ me.pc \notin {"idle", "read"} => me.spec = me.means /\ me.spec.cred # Kept
  /\ me.pc \in {"owned", "point", "prune", "unfile", "unsave", "unaccount"} => me.spec = A!Internal
  /\ me.pc \in {"save", "wire"} =>
       me.spec # A!Internal /\ FilesOf(me.spec) /\ files.password = account
  /\ me.pc = "wire" => saved = me.spec
  /\ me.pc = "point" => FilesOf(A!Internal)
  /\ me.pc \in {"prune", "unfile"} => files = None
  /\ me.pc = "unfile" => authCr = A!Slice(A!Internal)
  /\ me.pc \in {"unsave", "unaccount"} =>
       Faithful(A!Internal) /\ ~authCr.account
  /\ me.pc = "unaccount" /\ me.good => saved = None
  /\ me.pc # "idle" /\ ~me.good => amiss

AuthInv ==
  /\ AuthTypes
  /\ authCrossed = "never" =>
       /\ \A r, s \in A!Active : r = s
       /\ \A r \in Saves : AuthAt(req[r])
       /\ Grounded
       /\ ~amiss /\ (\A r \in Saves : req[r].pc \in {"idle", "read"}) =>
            A!Stored = given /\ Faithful(given)

AuthSame == UNCHANGED <<files, saved, account, authCr, index, given, amiss, authCrossed, authBegun>>

LEMMA IdleOK == A!Idle \in AuthSaves /\ A!Idle.pc = "idle" /\ A!Idle.good /\ A!Internal \in A!AllSpecs
<1>1. A!Internal \in A!AllSpecs
  BY DEF A!Internal, A!AllSpecs
<1>2. "idle" \in AuthPcs
  BY DEF AuthPcs
<1>3. A!Idle \in AuthSaves
  BY <1>1, <1>2 DEF A!Idle, AuthSaves
<1>4. QED
  BY <1>1, <1>3 DEF A!Idle

LEMMA SpecFields ==
  ASSUME NEW s \in A!AllSpecs
  PROVE  /\ s.kind \in A!Secretive \cup {"internal", "proxy"} /\ s.cred \in Creds \cup {None, Kept}
         /\ s.kind = "internal" <=> s = A!Internal
<1>1. CASE s = A!Internal
  BY <1>1 DEF A!Internal
<1>2. CASE s \in [kind : A!Secretive \cup {"proxy"}, cred : Creds \cup {None, Kept}]
  BY <1>2 DEF A!Internal, A!Secretive, A!Redirects
<1>3. QED
  BY <1>1, <1>2 DEF A!AllSpecs

\* A save that goes on to another place.
LEMMA GoesOn ==
  ASSUME NEW me \in AuthSaves, NEW to \in AuthPcs, NEW x, x = [me EXCEPT !.pc = to]
  PROVE  /\ x \in AuthSaves /\ x.pc = to /\ x.spec = me.spec /\ x.means = me.means
         /\ x.good = me.good /\ x.n = me.n
BY DEF AuthSaves

\* A save at work, with no other beside it, has made a step.
LEMMA AuthMoves ==
  ASSUME AuthInv, NEW r \in Saves, NEW x \in AuthSaves, r \in A!Active,
         req' = [req EXCEPT ![r] = x], authCrossed' = "never" => authCrossed = "never",
         AuthTypes',
         authCrossed = "never" =>
           /\ AuthAt(x)' /\ Grounded'
           /\ ~amiss' /\ x.pc \in {"idle", "read"} => (A!Stored = given /\ Faithful(given))'
  PROVE  AuthInv'
<1>1. \A s \in Saves : req'[s] = IF s = r THEN x ELSE req[s]
  BY DEF AuthInv, AuthTypes
<1>2. ASSUME authCrossed' = "never" PROVE \A s \in Saves : s # r => req[s].pc = "idle"
  BY <1>2 DEF AuthInv, A!Active
<1>3. ASSUME authCrossed' = "never", NEW s \in Saves PROVE AuthAt(req[s])'
  <2>1. CASE s = r
    BY <1>1, <1>3, <2>1
  <2>2. CASE s # r
    BY <1>1, <1>2, <1>3, <2>2 DEF AuthAt
  <2>3. QED
    BY <2>1, <2>2
<1>4. ASSUME authCrossed' = "never", NEW s \in A!Active', NEW t \in A!Active' PROVE s = t
  BY <1>1, <1>2, <1>4 DEF A!Active
<1>5. ASSUME authCrossed' = "never", ~amiss', \A s \in Saves : req'[s].pc \in {"idle", "read"}
      PROVE  (A!Stored = given /\ Faithful(given))'
  BY <1>1, <1>5
<1>6. QED
  BY <1>3, <1>4, <1>5 DEF AuthInv

\* Of what a save does alone.
LEMMA AuthAlone ==
  ASSUME AuthInv, authCrossed = "never", NEW r \in Saves, req[r].pc # "idle"
  PROVE  /\ r \in A!Active /\ A!Active = {r} /\ AuthAt(req[r]) /\ Grounded
         /\ req[r].pc = "read" /\ ~amiss => A!Stored = given /\ Faithful(given)
<1>1. r \in A!Active /\ A!Active = {r}
  BY DEF AuthInv, A!Active
<1>2. \A s \in Saves : s # r => req[s].pc = "idle"
  BY <1>1 DEF A!Active
<1>3. QED
  BY <1>1, <1>2 DEF AuthInv

LEMMA AuthBegins ==
  ASSUME AuthInv, NEW r \in Saves, A!Begin(r), A!AuthAssumption PROVE AuthInv'
<1>0. PICK a \in A!Asks :
        req' = [q \in Saves |-> IF q = r THEN [pc |-> "read", spec |-> a,
                                              means |-> A!Merge(a, A!Stored),
                                              good |-> A!Active = {}, n |-> authBegun']
                                ELSE [req[q] EXCEPT !.good = FALSE]]
  BY DEF A!Begin
<1>1. PICK x :
        /\ x = [pc |-> "read", spec |-> a, means |-> A!Merge(a, A!Stored),
                good |-> A!Active = {}, n |-> authBegun']
        /\ req' = [q \in Saves |-> IF q = r THEN x ELSE [req[q] EXCEPT !.good = FALSE]]
  BY <1>0
<1>2. /\ UNCHANGED <<files, saved, account, authCr, index, given, amiss>>
      /\ req[r].pc = "idle" /\ authBegun' = authBegun + 1
      /\ authCrossed' = "never" => A!Active = {} /\ authCrossed = "never"
  BY DEF A!Begin, A!cluster
<1>3. A!Internal \in A!AllSpecs /\ A!Stored \in A!AllSpecs
  BY IdleOK DEF A!Stored, AuthInv, AuthTypes
<1>4. a \in A!AllSpecs
  <2>1. \A s \in A!Specs : s \in A!AllSpecs
    BY DEF A!Specs, A!AllSpecs, A!AuthAssumption
  <2>2. \A s \in A!Specs : A!Redacted(s) \in A!AllSpecs
    BY <2>1 DEF A!Redacted, A!AllSpecs, A!Internal
  <2>3. QED
    BY <2>1, <2>2 DEF A!Asks
<1>5. A!Merge(a, A!Stored) \in A!AllSpecs
  BY <1>3, <1>4 DEF A!Merge
<1>6. x \in AuthSaves
  BY <1>1, <1>2, <1>4, <1>5 DEF AuthSaves, AuthPcs, AuthInv, AuthTypes
<1>7. ASSUME NEW q \in Saves
      PROVE  /\ req'[q] \in AuthSaves /\ (q # r => req'[q].pc = req[q].pc) /\ req'[r] = x
  <2>1. req[q] \in AuthSaves
    BY DEF AuthInv, AuthTypes
  <2>2. [req[q] EXCEPT !.good = FALSE] \in AuthSaves /\ [req[q] EXCEPT !.good = FALSE].pc = req[q].pc
    BY <2>1 DEF AuthSaves
  <2>3. QED
    BY <1>1, <1>6, <2>2
<1>8. AuthTypes'
  BY <1>1, <1>2, <1>7 DEF AuthTypes, AuthInv
<1>9. ASSUME authCrossed' = "never"
      PROVE  /\ \A s, t \in A!Active' : s = t
             /\ \A s \in Saves : AuthAt(req[s])'
             /\ Grounded' /\ (~amiss => (A!Stored = given /\ Faithful(given))')
  <2>1. \A q \in Saves : req[q].pc = "idle"
    BY <1>2, <1>9 DEF A!Active
  <2>2. \A s \in A!Active' : s = r
    BY <1>7, <2>1 DEF A!Active
  <2>3. AuthAt(x)'
    <3>1. x.pc = "read" /\ x.spec = a /\ x.means = A!Merge(a, A!Stored) /\ x.good
      BY <1>1, <1>2, <1>9
    <3>2. UNCHANGED A!Stored
      BY <1>2 DEF A!Stored
    <3>3. QED
      BY <1>4, <3>1, <3>2 DEF AuthAt
  <2>4. ASSUME NEW s \in Saves PROVE AuthAt(req[s])'
    <3>1. CASE s = r
      BY <1>7, <2>3, <3>1
    <3>2. CASE s # r
      BY <1>7, <2>1, <3>2 DEF AuthAt
    <3>3. QED
      BY <3>1, <3>2
  <2>5. Grounded /\ (~amiss => A!Stored = given /\ Faithful(given))
    BY <1>2, <1>9, <2>1 DEF AuthInv
  <2>6. Grounded' /\ (~amiss => (A!Stored = given /\ Faithful(given))')
    BY <1>2, <2>5 DEF Grounded, Faithful, FilesOf, A!Stored
  <2>7. QED
    BY <2>2, <2>4, <2>6
<1>10. QED
  BY <1>2, <1>8, <1>9 DEF AuthInv

LEMMA AuthResolves ==
  ASSUME AuthInv, NEW r \in Saves, A!ReadStored(r) \/ A!ReadFails(r), A!AuthAssumption
  PROVE  AuthInv'
<1>1. PICK me \in AuthSaves : me = req[r]
  BY DEF AuthInv, AuthTypes
<1>2. A!Internal \in A!AllSpecs /\ A!Stored \in A!AllSpecs
  BY IdleOK DEF A!Stored, AuthInv, AuthTypes
<1>3. PICK k \in A!AllSpecs :
        A!Resolves(r, k) /\ (k = A!Stored \/ k = A!Internal)
  BY <1>2 DEF A!ReadStored, A!ReadFails
<1>4. PICK s \in A!AllSpecs : s = A!Merge(me.spec, k)
  BY <1>1, <1>3 DEF A!Merge, AuthSaves
<1>5. PICK to \in {"owned", "accounts"} : to = IF s = A!Internal THEN "owned" ELSE "accounts"
  OBVIOUS
<1>6. PICK x : /\ x = IF A!Valid(s) THEN [me EXCEPT !.spec = s, !.pc = to] ELSE A!Idle
               /\ req' = [req EXCEPT ![r] = x]
  BY <1>1, <1>3, <1>4, <1>5 DEF A!Resolves
<1>7. AuthSame /\ me.pc = "read"
  BY <1>1 DEF A!ReadStored, A!ReadFails, A!cluster, A!bounds, AuthSame
<1>8. /\ x \in AuthSaves
      /\ A!Valid(s) => x.pc = to /\ x.spec = s /\ x.means = me.means /\ x.good = me.good
      /\ ~A!Valid(s) => x.pc = "idle"
  <2>1. to \in AuthPcs
    BY DEF AuthPcs
  <2>2. CASE A!Valid(s)
    <3>1. x = [me EXCEPT !.spec = s, !.pc = to]
      BY <1>6, <2>2, Zenon
    <3>2. /\ x \in AuthSaves /\ x.pc = to /\ x.spec = s /\ x.means = me.means
          /\ x.good = me.good
      BY <1>1, <1>4, <2>1, <3>1 DEF AuthSaves
    <3>3. QED
      BY <2>2, <3>2
  <2>3. CASE ~A!Valid(s)
    BY <1>6, <2>3, IdleOK
  <2>4. QED
    BY <2>2, <2>3
<1>9. AuthTypes'
  BY <1>6, <1>7, <1>8 DEF AuthInv, AuthTypes, AuthSame
<1>10. ASSUME authCrossed = "never"
       PROVE  /\ AuthAt(x)' /\ Grounded'
              /\ ~amiss' /\ x.pc \in {"idle", "read"} => (A!Stored = given /\ Faithful(given))'
  <2>1. AuthAt(me) /\ Grounded /\ (~amiss => A!Stored = given /\ Faithful(given))
    BY <1>1, <1>7, <1>10, AuthAlone
  <2>2. Grounded' /\ (~amiss' => (A!Stored = given /\ Faithful(given))')
    BY <1>7, <2>1 DEF AuthSame, Grounded, Faithful, FilesOf, A!Stored
  <2>3. A!Valid(s) => s = me.means
    <3>1. me.means = A!Merge(me.spec, A!Stored) /\ (me.spec.cred = Kept => me.spec.kind # "internal")
      <4>1. me.spec \in A!AllSpecs
        BY DEF AuthSaves
      <4>2. me.spec.kind = "internal" => me.spec.cred = None
        BY <4>1, SpecFields DEF A!Internal
      <4>3. QED
        BY <1>7, <2>1, <4>2 DEF AuthAt, A!AuthAssumption
    <3>2. CASE k = A!Stored
      BY <1>4, <3>1, <3>2
    <3>3. CASE k = A!Internal /\ me.spec.cred # Kept
      BY <1>4, <3>1, <3>3 DEF A!Merge
    <3>4. CASE k = A!Internal /\ me.spec.cred = Kept
      BY <1>4, <3>1, <3>4 DEF A!Merge, A!Internal, A!Valid
    <3>5. QED
      BY <1>3, <3>2, <3>3, <3>4
  <2>4. AuthAt(x)'
    <3>1. CASE A!Valid(s)
      <4>1. s.cred # Kept
        BY <3>1 DEF A!Valid
      <4>2. UNCHANGED <<files, saved, account, authCr, amiss>>
        BY <1>7 DEF AuthSame
      <4>3. x.pc = to /\ x.spec = s /\ x.means = s /\ (to = "owned" => s = A!Internal)
            /\ (~x.good => amiss)
        BY <1>5, <1>7, <1>8, <2>1, <2>3, <3>1 DEF AuthAt
      <4>4. QED
        BY <4>1, <4>2, <4>3 DEF AuthAt
    <3>2. CASE ~A!Valid(s)
      BY <1>8, <3>2 DEF AuthAt
    <3>3. QED
      BY <3>1, <3>2
  <2>5. QED
    BY <2>2, <2>4
<1>11. r \in A!Active
  BY <1>1, <1>7 DEF A!Active
<1>12. QED
  BY <1>6, <1>7, <1>8, <1>9, <1>10, <1>11, AuthMoves DEF AuthSame

\* A step of a save past its reading, which neither ends it nor fails.
LEMMA AuthGoesOn ==
  ASSUME AuthInv, NEW r \in Saves, NEW to \in AuthPcs \ {"idle", "read"},
         req[r].pc \notin {"idle", "read"}, A!At(r, to),
         UNCHANGED <<given, amiss, authCrossed, authBegun>>,
         /\ files' \in A!FileSets \cup {None} /\ saved' \in A!AllSpecs \cup {None}
         /\ index' \in A!FileSets /\ account' \in Nat \cup {None},
         authCrossed = "never" => Grounded',
         \A x \in AuthSaves :
            /\ authCrossed = "never" /\ AuthAt(req[r]) /\ Grounded
            /\ x.pc = to /\ x.spec = req[r].spec /\ x.means = req[r].means
            /\ x.good = req[r].good /\ x.n = req[r].n
            /\ x.spec = x.means /\ x.spec.cred # Kept /\ (~x.good => amiss)
            => AuthAt(x)'
  PROVE  AuthInv'
<1>1. PICK me \in AuthSaves : me = req[r]
  BY DEF AuthInv, AuthTypes
<1>2. PICK x : x = [me EXCEPT !.pc = to] /\ req' = [req EXCEPT ![r] = x]
  BY <1>1 DEF A!At
<1>3. /\ x \in AuthSaves /\ x.pc = to /\ x.spec = me.spec /\ x.means = me.means
      /\ x.good = me.good /\ x.n = me.n
  BY <1>2, GoesOn
<1>4. AuthTypes'
  BY <1>2, <1>3 DEF AuthInv, AuthTypes
<1>5. ASSUME authCrossed = "never" PROVE AuthAt(x)'
  <2>1. AuthAt(me) /\ Grounded
    BY <1>1, <1>5, AuthAlone
  <2>2. me.spec = me.means /\ me.spec.cred # Kept /\ (~me.good => amiss)
    BY <1>1, <2>1 DEF AuthAt
  <2>3. QED
    BY <1>1, <1>3, <1>5, <2>1, <2>2
<1>6. r \in A!Active
  BY DEF A!Active
<1>7. QED
  BY <1>2, <1>3, <1>4, <1>5, <1>6, AuthMoves

LEMMA AuthWrites ==
  ASSUME AuthInv, NEW r \in Saves, A!AuthAssumption,
         \/ A!LookOwned(r) \/ A!EnsureAccount(r) \/ A!WriteFiles(r) \/ A!Save(r)
         \/ A!Point(r) \/ A!Prune(r) \/ A!DropFiles(r) \/ A!Unsave(r)
  PROVE  AuthInv'
<1> USE DEF AuthPcs
<1>1. PICK me \in AuthSaves : me = req[r]
  BY DEF AuthInv, AuthTypes
<1>2. /\ files \in A!FileSets \cup {None} /\ saved \in A!AllSpecs \cup {None}
      /\ index \in A!FileSets /\ A!Internal \in A!AllSpecs
      /\ account \in Nat \cup {None} /\ me.n \in Nat
  BY IdleOK DEF AuthInv, AuthTypes, AuthSaves
<1>3. authCrossed = "never" /\ me.pc # "idle" => Grounded /\ AuthAt(me) /\ A!Active = {r}
  BY <1>1, AuthAlone
<1>4. CASE A!LookOwned(r)
  <2>1. PICK to \in {"prune", "accounts"} : A!At(r, to) /\ (to = "prune" => files = None)
    BY <1>4 DEF A!LookOwned
  <2>2. me.pc = "owned" /\ AuthSame
    BY <1>1, <1>4 DEF A!LookOwned, A!cluster, A!bounds, AuthSame
  <2>3. authCrossed = "never" => Grounded'
    BY <1>3, <2>2 DEF Grounded, AuthSame
  <2>4. authCrossed = "never" => me.spec = A!Internal
    BY <1>3, <2>2 DEF AuthAt
  <2>5. QED
    BY <1>1, <1>2, <2>1, <2>2, <2>3, <2>4, AuthGoesOn DEF AuthSame, AuthAt
<1>5. CASE A!EnsureAccount(r)
  <2>1. /\ me.pc = "accounts" /\ A!At(r, "files")
        /\ UNCHANGED <<files, saved, authCr, index, given, amiss, authCrossed, authBegun>>
    BY <1>1, <1>5 DEF A!EnsureAccount, A!bounds
  <2>2. authCrossed = "never" => Grounded'
    BY <1>3, <2>1 DEF Grounded
  <2>3. account' \in Nat \cup {None}
    BY <1>1, <1>2, <1>5 DEF A!EnsureAccount
  <2>4. QED
    BY <1>1, <1>2, <2>1, <2>2, <2>3, AuthGoesOn DEF AuthAt
<1>6. CASE A!WriteFiles(r)
  <2>1. PICK p : /\ files' = A!Files(me.spec, p)
                 /\ p \in IF A!Active = {r} THEN {account} ELSE 1 .. authBegun
    BY <1>1, <1>6 DEF A!WriteFiles
  <2>2. PICK to \in {"point", "save"} : to = IF me.spec = A!Internal THEN "point" ELSE "save"
    OBVIOUS
  <2>3. /\ me.pc = "files" /\ A!At(r, to)
        /\ UNCHANGED <<saved, account, authCr, index, given, amiss, authCrossed, authBegun>>
    BY <1>1, <1>6, <2>2 DEF A!WriteFiles, A!bounds
  <2>4. files'.domains = A!Domains(me.spec) /\ files'.cred = me.spec.cred /\ files'.password = p
    BY <2>1 DEF A!Files
  <2>5. files' \in A!FileSets /\ files' # None
    <3>1. me.spec \in A!AllSpecs
      BY DEF AuthSaves
    <3>2. A!Domains(me.spec) \in SUBSET ({"basic_internal", "proxy"} \cup A!Secretive)
      BY <3>1, SpecFields DEF A!Domains
    <3>3. me.spec.cred \in Creds \cup {None, Kept}
      BY <3>1, SpecFields
    <3>4. p \in Nat \cup {None}
      BY <2>1 DEF AuthInv, AuthTypes
    <3>5. A!Files(me.spec, p) \in A!FileSets
      BY <3>2, <3>3, <3>4 DEF A!Files, A!FileSets
    <3>6. QED
      BY <2>1, <3>5 DEF A!AuthAssumption
  <2>6. authCrossed = "never" => Grounded'
    BY <1>3, <2>3, <2>5 DEF Grounded
  <2>7. authCrossed = "never" => p = account
    BY <1>3, <2>1, <2>3
  <2>8. ASSUME NEW x \in AuthSaves, authCrossed = "never", x.pc = to, x.spec = me.spec,
               x.means = me.means, x.spec = x.means, x.spec.cred # Kept, ~x.good => amiss
        PROVE  AuthAt(x)'
    <3>1. to = "save" => me.spec # A!Internal
      BY <2>2
    <3>2. to = "point" => me.spec = A!Internal
      BY <2>2
    <3>3. FilesOf(me.spec)' /\ files'.password = account
      BY <2>4, <2>5, <2>7, <2>8 DEF FilesOf
    <3>4. FilesOf(x.spec)'
      BY <2>8, <3>3 DEF FilesOf
    <3>5. to = "point" => FilesOf(A!Internal)'
      BY <2>8, <3>2, <3>3 DEF FilesOf
    <3>6. QED
      BY <2>3, <2>8, <3>1, <3>2, <3>3, <3>4, <3>5 DEF AuthAt
  <2>9. QED
    BY <1>1, <1>2, <2>2, <2>3, <2>5, <2>6, <2>8, AuthGoesOn
<1>7. CASE A!Save(r)
  <2>1. /\ me.pc = "save" /\ A!At(r, "wire") /\ saved' = me.spec
        /\ UNCHANGED <<files, account, authCr, index, given, amiss, authCrossed, authBegun>>
    BY <1>1, <1>7 DEF A!Save, A!bounds
  <2>2. authCrossed = "never" => Grounded'
    BY <1>3, <2>1 DEF Grounded
  <2>3. saved' \in A!AllSpecs
    BY <2>1 DEF AuthSaves
  <2>4. authCrossed = "never" => me.spec # A!Internal /\ FilesOf(me.spec) /\ files.password = account
    BY <1>3, <2>1 DEF AuthAt
  <2>5. QED
    BY <1>1, <1>2, <2>1, <2>2, <2>3, <2>4, AuthGoesOn DEF AuthAt, FilesOf
<1>8. CASE A!Point(r)
  <2>1. /\ me.pc = "point" /\ A!At(r, "unsave") /\ authCr' = A!OwnedSlice
        /\ UNCHANGED <<files, saved, account, index, given, amiss, authCrossed, authBegun>>
    BY <1>1, <1>8 DEF A!Point, A!bounds
  <2>2. authCr'.files /\ ~authCr'.account /\ authCr'.kind = "internal"
    BY <2>1 DEF A!OwnedSlice, A!Slice, A!Internal
  <2>3. authCrossed = "never" => me.spec = A!Internal /\ FilesOf(A!Internal)
    BY <1>3, <2>1 DEF AuthAt
  <2>4. authCrossed = "never" => Grounded' /\ Faithful(A!Internal)'
    BY <1>3, <2>1, <2>2, <2>3 DEF Grounded, Faithful, FilesOf, A!Internal, A!AuthAssumption
  <2>5. QED
    BY <1>1, <1>2, <2>1, <2>2, <2>3, <2>4, AuthGoesOn DEF AuthAt
<1>9. CASE A!Prune(r)
  <2>1. /\ me.pc = "prune" /\ A!At(r, "unfile") /\ authCr' = A!Slice(A!Internal)
        /\ UNCHANGED <<files, saved, account, index, given, amiss, authCrossed, authBegun>>
    BY <1>1, <1>9 DEF A!Prune, A!bounds
  <2>2. ~authCr'.files /\ ~authCr'.account /\ authCr'.kind = "internal"
    BY <2>1 DEF A!Slice, A!Internal
  <2>3. authCrossed = "never" => me.spec = A!Internal /\ files = None
    BY <1>3, <2>1 DEF AuthAt
  <2>4. authCrossed = "never" => Grounded'
    BY <1>3, <2>1, <2>2 DEF Grounded
  <2>5. QED
    BY <1>1, <1>2, <2>1, <2>2, <2>3, <2>4, AuthGoesOn DEF AuthAt
<1>10. CASE A!DropFiles(r)
  <2>1. /\ me.pc = "unfile" /\ A!At(r, "unsave") /\ files' = None
        /\ UNCHANGED <<saved, account, authCr, index, given, amiss, authCrossed, authBegun>>
    BY <1>1, <1>10 DEF A!DropFiles, A!bounds
  <2>2. authCrossed = "never" => me.spec = A!Internal /\ files = None /\ authCr = A!Slice(A!Internal)
    BY <1>3, <2>1 DEF AuthAt
  <2>3. authCrossed = "never" => Grounded' /\ Faithful(A!Internal)' /\ ~authCr.account
    BY <1>3, <2>1, <2>2 DEF Grounded, Faithful, FilesOf, A!Slice, A!Internal, A!AuthAssumption
  <2>4. QED
    BY <1>1, <1>2, <2>1, <2>2, <2>3, AuthGoesOn DEF AuthAt
<1>11. CASE A!Unsave(r)
  <2>1. /\ me.pc = "unsave" /\ A!At(r, "unaccount") /\ saved' = None
        /\ UNCHANGED <<files, account, authCr, index, given, amiss, authCrossed, authBegun>>
    BY <1>1, <1>11 DEF A!Unsave, A!bounds
  <2>2. authCrossed = "never" => me.spec = A!Internal /\ Faithful(A!Internal) /\ ~authCr.account
    BY <1>3, <2>1 DEF AuthAt
  <2>3. authCrossed = "never" => Grounded' /\ Faithful(A!Internal)'
    BY <1>3, <2>1, <2>2 DEF Grounded, Faithful, FilesOf
  <2>4. QED
    BY <1>1, <1>2, <2>1, <2>2, <2>3, AuthGoesOn DEF AuthAt
<1>12. QED
  BY <1>4, <1>5, <1>6, <1>7, <1>8, <1>9, <1>10, <1>11

\* A save that ends, with an answer or without one.
LEMMA AuthEnds ==
  ASSUME AuthInv, NEW r \in Saves, req[r].pc # "idle",
         req' = [req EXCEPT ![r] = A!Idle], authBegun' = authBegun,
         authCrossed' = "never" => authCrossed = "never",
         /\ files' = files /\ saved' = saved /\ index' = index
         /\ account' \in {account, None}
         /\ given' \in A!AllSpecs /\ amiss' \in BOOLEAN,
         authCrossed = "never" =>
           Grounded' /\ (~amiss' => (A!Stored = given /\ Faithful(given))')
  PROVE  AuthInv'
<1>1. PICK x \in AuthSaves : x = A!Idle /\ x.pc = "idle"
  BY IdleOK
<1>2. AuthTypes'
  BY <1>1 DEF AuthInv, AuthTypes
<1>3. AuthAt(x)'
  BY <1>1 DEF AuthAt
<1>4. r \in A!Active
  BY DEF A!Active
<1>5. QED
  BY <1>1, <1>2, <1>3, <1>4, AuthMoves

LEMMA AuthAnswered ==
  ASSUME AuthInv, NEW r \in Saves, A!AuthAssumption,
         A!Wire(r) \/ A!DropAccount(r) \/ A!Ends(r)
  PROVE  AuthInv'
<1>1. PICK me \in AuthSaves : me = req[r]
  BY DEF AuthInv, AuthTypes
<1>2. req' = [req EXCEPT ![r] = A!Idle] /\ me.pc # "idle" /\ authBegun' = authBegun
  BY <1>1 DEF A!Wire, A!DropAccount, A!Ends, A!Answered, A!At, A!bounds, A!Active
<1>3. authCrossed = "never" => Grounded /\ AuthAt(me)
  BY <1>1, <1>2, AuthAlone
<1>4. UNCHANGED <<files, saved, index>> /\ account' \in {account, None}
  BY DEF A!Wire, A!DropAccount, A!Ends, A!cluster
<1>5. authCrossed' = "never" => authCrossed = "never"
  BY DEF A!Wire, A!DropAccount, A!Ends, A!Answered
<1>6. given' \in A!AllSpecs /\ amiss' \in BOOLEAN
  <2>1. me.means \in A!AllSpecs /\ me.good \in BOOLEAN
    BY DEF AuthSaves
  <2>2. given \in A!AllSpecs /\ amiss \in BOOLEAN
    BY DEF AuthInv, AuthTypes
  <2>3. given' \in {given, me.means}
    BY <1>1 DEF A!Wire, A!DropAccount, A!Ends, A!Answered
  <2>4. amiss' = TRUE \/ amiss' = (amiss /\ ~me.good)
    BY <1>1 DEF A!Wire, A!DropAccount, A!Ends, A!Answered
  <2>5. QED
    BY <2>1, <2>2, <2>3, <2>4
<1>7. ASSUME authCrossed = "never"
      PROVE  Grounded' /\ (~amiss' => (A!Stored = given /\ Faithful(given))')
  <2>1. CASE A!Ends(r)
    <3>1. amiss' /\ UNCHANGED <<files, authCr, index>>
      BY <2>1 DEF A!Ends, A!cluster
    <3>2. QED
      BY <1>3, <1>7, <3>1 DEF Grounded
  <2>2. CASE A!Wire(r)
    <3>1. /\ authCr' = A!Slice(me.spec) /\ given' = me.means /\ me.pc = "wire"
          /\ amiss' = (amiss /\ ~me.good) /\ account' = account
      BY <1>1, <2>2 DEF A!Wire, A!Answered
    <3>2. /\ me.spec # A!Internal /\ FilesOf(me.spec) /\ files.password = account
          /\ saved = me.spec /\ me.spec = me.means /\ me.spec.cred # Kept
      BY <1>3, <1>7, <3>1 DEF AuthAt
    <3>3. authCr'.kind = me.spec.kind /\ (authCr'.files <=> me.spec.kind # "internal")
      BY <3>1 DEF A!Slice
    <3>4. me.spec.kind # "internal"
      BY <3>2, SpecFields DEF AuthSaves
    <3>5. saved # None
      BY <3>2 DEF A!AuthAssumption, AuthSaves
    <3>6. QED
      BY <1>3, <1>4, <1>7, <3>1, <3>2, <3>3, <3>4, <3>5 DEF Grounded, Faithful, FilesOf, A!Stored
  <2>3. CASE A!DropAccount(r)
    <3>1. /\ UNCHANGED authCr /\ given' = me.means /\ me.pc = "unaccount"
          /\ amiss' = (amiss /\ ~me.good)
      BY <1>1, <2>3 DEF A!DropAccount, A!Answered
    <3>2. /\ me.spec = A!Internal /\ Faithful(A!Internal) /\ ~authCr.account
          /\ (me.good => saved = None) /\ me.spec = me.means /\ (~me.good => amiss)
      BY <1>3, <1>7, <3>1 DEF AuthAt
    <3>3. Grounded' /\ Faithful(A!Internal)'
      BY <1>3, <1>4, <1>7, <3>1, <3>2 DEF Grounded, Faithful, FilesOf
    <3>4. given' = A!Internal /\ (~amiss' => me.good)
      BY <3>1, <3>2
    <3>5. ~amiss' => A!Stored' = A!Internal
      BY <1>4, <3>2, <3>4 DEF A!Stored
    <3>6. Faithful(given)'
      BY <3>3, <3>4 DEF Faithful, FilesOf
    <3>7. QED
      BY <3>3, <3>4, <3>5, <3>6
  <2>4. QED
    BY <2>1, <2>2, <2>3
<1>8. QED
  BY <1>1, <1>2, <1>4, <1>5, <1>6, <1>7, AuthEnds

\* unfile and unsave go on when their deletion fails; unaccount answers.
LEMMA AuthDeletes ==
  ASSUME AuthInv, NEW r \in Saves, A!AuthAssumption, A!DeleteFails(r)
  PROVE  AuthInv'
<1>1. PICK me \in AuthSaves : me = req[r]
  BY DEF AuthInv, AuthTypes
<1>2. PICK to \in {"unsave", "unaccount"} : to = IF me.pc = "unfile" THEN "unsave" ELSE "unaccount"
  OBVIOUS
<1>3. /\ me.pc \in {"unfile", "unsave", "unaccount"} /\ amiss' = TRUE
      /\ UNCHANGED <<files, saved, account, authCr, index, authCrossed, authBegun>>
      /\ given' = IF me.pc = "unaccount" THEN me.means ELSE given
      /\ req' = [req EXCEPT ![r] = IF me.pc = "unaccount" THEN A!Idle
                                   ELSE [me EXCEPT !.pc = to, !.good = FALSE]]
  <2>1. /\ me.pc \in {"unfile", "unsave", "unaccount"} /\ amiss' = TRUE
        /\ UNCHANGED <<files, saved, account, authCr, index, authCrossed, authBegun>>
        /\ given' = IF me.pc = "unaccount" THEN me.means ELSE given
    BY <1>1 DEF A!DeleteFails, A!cluster
  <2>2. CASE me.pc = "unaccount"
    BY <1>1, <2>1, <2>2 DEF A!DeleteFails
  <2>3. CASE me.pc # "unaccount"
    <3>1. [unfile |-> "unsave", unsave |-> "unaccount"][me.pc] = to
      BY <1>2, <2>1, <2>3
    <3>2. req' = [req EXCEPT ![r] = [me EXCEPT
                    !.pc = [unfile |-> "unsave", unsave |-> "unaccount"][me.pc], !.good = FALSE]]
      BY <1>1, <2>3, Zenon DEF A!DeleteFails
    <3>3. QED
      BY <2>1, <2>3, <3>1, <3>2
  <2>4. QED
    BY <2>1, <2>2, <2>3
<1>4. PICK x : x = IF me.pc = "unaccount" THEN A!Idle ELSE [me EXCEPT !.pc = to, !.good = FALSE]
  OBVIOUS
<1>5. /\ x \in AuthSaves
      /\ me.pc = "unaccount" => x.pc = "idle"
      /\ me.pc # "unaccount" =>
           x.pc = to /\ x.spec = me.spec /\ x.means = me.means /\ x.good = FALSE
  <2>1. CASE me.pc = "unaccount"
    BY <1>4, <2>1, IdleOK
  <2>2. CASE me.pc # "unaccount"
    <3>1. x = [me EXCEPT !.pc = to, !.good = FALSE]
      BY <1>4, <2>2, Zenon
    <3>2. to \in AuthPcs
      BY DEF AuthPcs
    <3>3. /\ x \in AuthSaves /\ x.pc = to /\ x.spec = me.spec /\ x.means = me.means
          /\ x.good = FALSE
      BY <1>1, <3>1, <3>2 DEF AuthSaves
    <3>4. QED
      BY <2>2, <3>3
  <2>3. QED
    BY <2>1, <2>2
<1>6. AuthTypes'
  <2>1. me.means \in A!AllSpecs
    BY DEF AuthSaves
  <2>2. given' \in A!AllSpecs
    BY <1>3, <2>1 DEF AuthInv, AuthTypes
  <2>3. QED
    BY <1>3, <1>4, <1>5, <2>2 DEF AuthInv, AuthTypes
<1>7. ASSUME authCrossed = "never" PROVE AuthAt(x)' /\ Grounded'
  <2>1. AuthAt(me) /\ Grounded
    BY <1>1, <1>3, <1>7, AuthAlone
  <2>2. Grounded'
    BY <1>3, <2>1 DEF Grounded
  <2>3. me.pc = "unfile" => Faithful(A!Internal) /\ ~authCr.account
    <3>1. me.pc = "unfile" => files = None /\ authCr = A!Slice(A!Internal)
      BY <2>1 DEF AuthAt
    <3>2. /\ ~A!Slice(A!Internal).files /\ ~A!Slice(A!Internal).account
          /\ A!Slice(A!Internal).kind = A!Internal.kind /\ A!Internal.cred # Kept
      BY DEF A!Slice, A!Internal, A!AuthAssumption
    <3>3. QED
      BY <3>1, <3>2 DEF Faithful
  <2>4. me.pc = "unsave" => Faithful(A!Internal) /\ ~authCr.account
    BY <2>1 DEF AuthAt
  <2>5. me.spec = me.means /\ me.spec.cred # Kept /\ me.spec = A!Internal
    BY <1>3, <2>1 DEF AuthAt
  <2>6. me.pc # "unaccount" => Faithful(A!Internal)' /\ ~authCr'.account
    BY <1>3, <2>3, <2>4 DEF Faithful, FilesOf
  <2>7. AuthAt(x)'
    BY <1>2, <1>3, <1>5, <2>5, <2>6 DEF AuthAt
  <2>8. QED
    BY <2>2, <2>7
<1>8. r \in A!Active
  BY <1>1, <1>3 DEF A!Active
<1>9. QED
  BY <1>3, <1>4, <1>5, <1>6, <1>7, <1>8, AuthMoves

LEMMA AuthPushes == ASSUME AuthInv, A!Push PROVE AuthInv'
<1>1. /\ index' = files /\ files # None
      /\ UNCHANGED <<files, saved, account, authCr, req, given, authCrossed, amiss, authBegun>>
  BY DEF A!Push, A!Pushes, A!bounds
<1>2. AuthTypes'
  BY <1>1 DEF AuthInv, AuthTypes
<1>3. UNCHANGED <<A!Active, A!Stored>>
  BY <1>1 DEF A!Active, A!Stored
<1>4. \A s : (Faithful(s) <=> Faithful(s)') /\ (FilesOf(s) <=> FilesOf(s)')
  BY <1>1 DEF Faithful, FilesOf
<1>5. \A r \in Saves : AuthAt(req[r]) => AuthAt(req[r])'
  BY <1>1, <1>3, <1>4 DEF AuthAt
<1>6. Grounded => Grounded'
  BY <1>1 DEF Grounded
<1>7. QED
  BY <1>1, <1>2, <1>3, <1>4, <1>5, <1>6 DEF AuthInv

LEMMA AuthStarts == ASSUME A!Init, A!AuthAssumption PROVE AuthInv
<1>1. /\ files = None /\ saved = None /\ account = None /\ index = A!Files(A!Internal, None)
      /\ authCr = A!Slice(A!Internal)
      /\ given = A!Internal /\ amiss = FALSE /\ authBegun = 0
      /\ req \in [Saves -> AuthSaves] /\ \A r \in Saves : req[r].pc = "idle"
  BY IdleOK DEF A!Init
<1>2. A!Files(A!Internal, None) \in A!FileSets
  BY DEF A!Files, A!FileSets, A!Domains, A!Internal
<1>3. AuthTypes
  BY <1>1, <1>2, IdleOK DEF AuthTypes
<1>4. /\ index.domains = {"basic_internal"} /\ index.cred = None
      /\ ~authCr.files /\ ~authCr.account /\ authCr.kind = "internal"
  BY <1>1 DEF A!Files, A!Domains, A!Internal, A!Slice
<1>5. Grounded
  BY <1>1, <1>4 DEF Grounded
<1>6. A!Stored = given /\ Faithful(given)
  BY <1>1, <1>4 DEF A!Stored, Faithful, A!Internal, A!AuthAssumption
<1>7. \A r \in Saves : AuthAt(req[r])
  BY <1>1 DEF AuthAt
<1>8. A!Active = {}
  BY <1>1 DEF A!Active
<1>9. QED
  BY <1>3, <1>5, <1>6, <1>7, <1>8 DEF AuthInv

LEMMA AuthNextInv == ASSUME AuthInv, A!Next, A!AuthAssumption PROVE AuthInv'
<1>1. ASSUME NEW r \in Saves, A!Writes(r) \/ A!LookOwned(r) \/ A!Ends(r) PROVE AuthInv'
  BY <1>1, AuthWrites, AuthAnswered DEF A!Writes
<1>2. ASSUME NEW r \in Saves, A!Begin(r) \/ A!ReadStored(r) \/ A!ReadFails(r) \/ A!DeleteFails(r)
      PROVE  AuthInv'
  BY <1>2, AuthBegins, AuthResolves, AuthDeletes
<1>3. QED
  BY <1>1, <1>2, AuthPushes, Zenon DEF A!Next

\* The variables of the other components do not occur in the invariant.
LEMMA AuthSteps ==
  ASSUME [AllNext]_allVars, part = "auth provider" PROVE A!Next \/ UNCHANGED authVars
<1>1. CASE UNCHANGED allVars
  BY <1>1 DEF allVars
<1>2. CASE SnapNext
  BY <1>2 DEF SnapNext, Snap
<1>3. CASE AccNext
  BY <1>3 DEF AccNext, Acc
<1>4. CASE ActNext
  BY <1>4 DEF ActNext, Act
<1>5. CASE AuthNext
  BY <1>5, Zenon DEF AuthNext, Auth, A!Next, A!Writes
<1>6. QED
  BY <1>1, <1>2, <1>3, <1>4, <1>5, Zenon DEF AllNext

LEMMA PartStays == ASSUME [AllNext]_allVars PROVE part' = part
BY DEF AllNext, allVars, SnapNext, AuthNext, AccNext, ActNext, Snap, Auth, Acc, Act

\* ShownIsRun of AuthProvider: whatever saves failed before, after one that went well
\* alone, and once the operator has nothing to push, what the app shows is what the
\* cluster authenticates against (set_auth_provider).
THEOREM ProviderShownIsRun == AllSpec => []ShownIsRun
<1>1. AllInit => (part = "auth provider" => AuthInv)
  BY SettingsAssumption, AuthStarts DEF AllInit
<1>2. (part = "auth provider" => AuthInv) /\ [AllNext]_allVars => (part = "auth provider" => AuthInv)'
  <2> SUFFICES ASSUME part = "auth provider" => AuthInv, [AllNext]_allVars, part' = "auth provider"
               PROVE  AuthInv'
    BY Zenon
  <2>1. part = "auth provider" /\ AuthInv
    BY PartStays
  <2>2. CASE A!Next
    BY <2>1, <2>2, SettingsAssumption, AuthNextInv
  <2>3. CASE UNCHANGED authVars
    BY <2>1, <2>3 DEF authVars, AuthInv, AuthTypes, AuthAt, Grounded, Faithful, FilesOf,
       A!Active, A!Stored
  <2>4. QED
    BY <2>1, <2>2, <2>3, AuthSteps
<1>3. (part = "auth provider" => AuthInv) => ShownIsRun
  <2> SUFFICES ASSUME AuthInv PROVE A!ShownIsRun
    BY DEF ShownIsRun
  <2> SUFFICES ASSUME authCrossed = "never", ~amiss, A!Active = {}, ~A!Pushes
               PROVE  /\ A!Stored = given /\ authCr.kind = given.kind
                      /\ given.cred # Kept
                      /\ index.domains = A!Domains(given) /\ index.cred = given.cred
                      /\ authCr.account => index.password = account
    BY DEF A!ShownIsRun
  <2>1. Grounded /\ A!Stored = given /\ Faithful(given)
    BY DEF AuthInv, A!Active
  <2>2. CASE authCr.files
    BY <2>1, <2>2 DEF Faithful, FilesOf, A!Pushes
  <2>3. CASE ~authCr.files
    BY <2>1, <2>3 DEF Faithful, Grounded, A!Domains, A!Internal
  <2>4. QED
    BY <2>1, <2>2, <2>3 DEF Faithful
<1>4. QED
  BY <1>1, <1>2, <1>3, PTL DEF AllSpec

-----------------------------------------------------------------------------
(* The public routes.                                                        *)

Routing == {"read", "guard", "clear", "put"}
AccPcs == {"idle", "preflight", "set", "list", "cr", "access"} \cup Routing
AccConfigs == [mode : {"portforward", "ingress"}, site : Sites \cup {None, Fallback},
               class : {"traefik", "nginx"}]
AccLists == Lists \cup {Open, None}
Todos == {<<"opensearch", "dashboards">>, <<"dashboards", "opensearch">>, <<"opensearch">>,
          <<"dashboards">>}
Passes == [kind : {None, "save", "startup", "allow", "apply"}, pc : AccPcs,
           config : AccConfigs, todo : Todos \cup {<<>>}, list : AccLists,
           new : BOOLEAN, good : BOOLEAN]

AccTypes ==
  /\ pass \in [Saves -> Passes] /\ config \in AccConfigs /\ list \in AccLists
  /\ \A r \in Saves : pass[r].pc \in Routing => pass[r].todo \in Todos

\* What Follow asks of each of the objects.
Made == [site |-> config.site, class |-> config.class, guarded |-> list # Open]
DashRight == dashboards = Made
ApiRight ==
  IF config.class = "traefik" THEN route = Made /\ ingress = None ELSE ingress = Made
MidRight ==
  "ingressroutes" \in offers => middleware = IF list = Open THEN None ELSE list
Covered == list # None /\ E!Enabled(config) => DashRight /\ ApiRight /\ MidRight

\* A pass that goes by the settings and the list of now.
OnCourse(me) ==
  /\ me.pc = "list" /\ E!Enabled(me.config) => me.config = config
  /\ me.pc \in Routing => me.config = config
  /\ me.pc \in {"guard", "clear", "put"} /\ list # None => me.list = list
  /\ me.pc = "clear" => E!OnTraefik(me)

\* What a pass has done of its routes.
SoFar(me) ==
  me.pc \in Routing /\ list # None =>
    /\ me.todo = <<"opensearch">> => DashRight
    /\ me.todo = <<"dashboards">> => ApiRight
    /\ Len(me.todo) = 1 \/ me.pc \in {"clear", "put"} => MidRight
    /\ me.pc = "put" /\ E!OnTraefik(me) => ingress = None

Good(r) == pass[r].pc # "idle" /\ pass[r].good

AccInv ==
  /\ AccTypes
  /\ \A r \in Saves : Good(r) => E!Active = {r} /\ OnCourse(pass[r]) /\ SoFar(pass[r])
  /\ settled = "yes" => Covered /\ \A r \in Saves : OnCourse(pass[r])

LEMMA AccIdle ==
  /\ E!Idle \in Passes /\ E!Idle.pc = "idle" /\ E!Default \in AccConfigs
  /\ \A c \in E!Settings : c \in AccConfigs /\ [c EXCEPT !.site = Fallback] \in AccConfigs
<1>1. E!Default \in AccConfigs
  BY DEF E!Default, AccConfigs
<1>2. ASSUME NEW c \in E!Settings PROVE c \in AccConfigs /\ [c EXCEPT !.site = Fallback] \in AccConfigs
  BY <1>2 DEF E!Settings, E!Default, AccConfigs
<1>3. QED
  BY <1>1, <1>2 DEF E!Idle, Passes, AccPcs, AccLists

\* A pass at work has made a step.
LEMMA AccMoves ==
  ASSUME AccInv, NEW r \in E!Active, NEW x \in Passes, pass' = [pass EXCEPT ![r] = x],
         config' \in AccConfigs, list' \in AccLists, x.pc \in Routing => x.todo \in Todos,
         x.pc # "idle" /\ x.good => pass[r].good,
         Good(r) /\ OnCourse(pass[r]) /\ SoFar(pass[r]) /\ x.pc # "idle" /\ x.good
           => OnCourse(x)' /\ SoFar(x)',
         settled' = "yes" =>
           \/ Good(r) /\ x.pc = "idle" /\ Covered'
           \/ settled = "yes" /\ Covered' /\ OnCourse(x)' /\ UNCHANGED <<config, list>>
  PROVE  AccInv'
<1>0. r \in Saves /\ \A q \in Saves : pass'[q] = IF q = r THEN x ELSE pass[q]
  BY DEF AccInv, AccTypes, E!Active
<1>1. AccTypes'
  BY <1>0 DEF AccInv, AccTypes
<1>2. ASSUME NEW q \in Saves, Good(q)'
      PROVE  (E!Active = {q} /\ OnCourse(pass[q]) /\ SoFar(pass[q]))'
  <2>1. CASE q = r
    <3>1. x.pc # "idle" /\ x.good /\ Good(r)
      BY <1>0, <1>2, <2>1 DEF Good, E!Active
    <3>2. E!Active = {r} /\ OnCourse(pass[r]) /\ SoFar(pass[r])
      BY <1>0, <3>1 DEF AccInv
    <3>3. E!Active' = {r}
      BY <1>0, <3>1, <3>2 DEF E!Active
    <3>4. QED
      BY <1>0, <2>1, <3>1, <3>2, <3>3
  <2>2. CASE q # r
    <3>1. Good(q)
      BY <1>0, <1>2, <2>2 DEF Good
    <3>2. QED
      BY <1>0, <2>2, <3>1 DEF AccInv
  <2>3. QED
    BY <2>1, <2>2
<1>3. ASSUME settled' = "yes" PROVE Covered' /\ \A q \in Saves : OnCourse(pass[q])'
  <2>1. CASE Good(r) /\ x.pc = "idle" /\ Covered'
    <3>1. \A q \in Saves : pass'[q].pc = "idle"
      BY <1>0, <2>1 DEF AccInv, E!Active
    <3>2. QED
      BY <2>1, <3>1 DEF OnCourse, Routing
  <2>2. CASE settled = "yes" /\ Covered' /\ OnCourse(x)' /\ UNCHANGED <<config, list>>
    <3>1. \A q \in Saves : OnCourse(pass[q])
      BY <2>2 DEF AccInv
    <3>2. ASSUME NEW q \in Saves PROVE OnCourse(pass[q])'
      <4>1. CASE q = r
        BY <1>0, <2>2, <4>1
      <4>2. CASE q # r
        BY <1>0, <2>2, <3>1, <4>2 DEF OnCourse
      <4>3. QED
        BY <4>1, <4>2
    <3>3. QED
      BY <2>2, <3>2
  <2>3. QED
    BY <1>3, <2>1, <2>2
<1>4. QED
  BY <1>1, <1>2, <1>3 DEF AccInv

\* A pass begins, and the others are no longer alone.
LEMMA AccBegins ==
  ASSUME AccInv, NEW r \in Saves, NEW x \in Passes, pass[r].pc = "idle",
         pass' = [q \in Saves |-> IF q = r THEN x ELSE [pass[q] EXCEPT !.good = FALSE]],
         x.pc # "idle" /\ x.good => E!Active = {}, OnCourse(x)', x.pc \notin Routing,
         list' \in AccLists, UNCHANGED <<config, offers, middleware, dashboards, ingress, route>>,
         settled' = "no" \/ UNCHANGED <<list, settled>>
  PROVE  AccInv'
<1>1. ASSUME NEW q \in Saves, q # r
      PROVE  /\ pass'[q] \in Passes /\ pass'[q].pc = pass[q].pc /\ ~pass'[q].good
             /\ pass'[q].config = pass[q].config /\ pass'[q].todo = pass[q].todo
             /\ pass'[q].list = pass[q].list
  <2>1. PICK me \in Passes : me = pass[q]
    BY DEF AccInv, AccTypes
  <2>2. pass'[q] = [me EXCEPT !.good = FALSE]
    BY <1>1, <2>1
  <2>3. QED
    BY <2>1, <2>2 DEF Passes
<1>2. pass'[r] = x /\ pass' \in [Saves -> Passes]
  BY <1>1
<1>3. AccTypes'
  BY <1>2 DEF AccInv, AccTypes
<1>4. ASSUME NEW q \in Saves, Good(q)'
      PROVE  (E!Active = {q} /\ OnCourse(pass[q]) /\ SoFar(pass[q]))'
  <2>1. q = r /\ x.pc # "idle" /\ x.good
    BY <1>1, <1>2, <1>4 DEF Good
  <2>2. E!Active' = {r}
    BY <1>1, <1>2, <2>1 DEF E!Active
  <2>3. SoFar(x)'
    BY DEF SoFar
  <2>4. QED
    BY <1>2, <2>1, <2>2, <2>3
<1>5. ASSUME settled' = "yes" PROVE Covered' /\ \A q \in Saves : OnCourse(pass[q])'
  <2>1. settled = "yes" /\ UNCHANGED list
    BY <1>5
  <2>2. Covered'
    BY <2>1 DEF AccInv, Covered, DashRight, ApiRight, MidRight, Made
  <2>3. ASSUME NEW q \in Saves PROVE OnCourse(pass[q])'
    <3>1. CASE q = r
      BY <1>2, <3>1
    <3>2. CASE q # r
      BY <1>1, <2>1, <3>2 DEF AccInv, OnCourse, E!OnTraefik
    <3>3. QED
      BY <3>1, <3>2
  <2>4. QED
    BY <2>2, <2>3
<1>6. QED
  BY <1>3, <1>4, <1>5 DEF AccInv

LEMMA AccBegin ==
  ASSUME AccInv, NEW r \in Saves, NEW e \in Passes, E!Begin(r, e), e.pc \notin Routing,
         e.pc = "list" => e.config = config, UNCHANGED config, list' \in AccLists,
         settled' = "no" \/ UNCHANGED <<list, settled>>
  PROVE  AccInv'
<1>1. PICK x : /\ x = [e EXCEPT !.good = E!Active = {}]
               /\ pass' = [q \in Saves |-> IF q = r THEN x ELSE [pass[q] EXCEPT !.good = FALSE]]
  BY DEF E!Begin
<1>2. x \in Passes /\ x.pc = e.pc /\ x.config = e.config /\ (x.good <=> E!Active = {})
  BY <1>1 DEF Passes
<1>3. OnCourse(x)'
  BY <1>2 DEF OnCourse, Routing
<1>4. pass[r].pc = "idle" /\ UNCHANGED <<offers, middleware, dashboards, ingress, route>>
  BY DEF E!Begin, E!routes
<1>5. QED
  BY <1>1, <1>2, <1>3, <1>4, AccBegins

LEMMA AccStarts ==
  ASSUME AccInv, NEW r \in Saves,
         E!BeginSave(r) \/ E!BeginStartup(r) \/ E!BeginAllow(r) \/ E!BeginApply(r)
  PROVE  AccInv'
<1>0. config \in AccConfigs /\ list \in AccLists
  BY DEF AccInv, AccTypes
<1>1. CASE E!BeginSave(r)
  <2>1. PICK c \in E!Settings :
          E!Begin(r, [E!Idle EXCEPT !.kind = "save", !.pc = "preflight", !.config = c])
    BY <1>1 DEF E!BeginSave
  <2>2. PICK i \in Passes : i = E!Idle
    BY AccIdle
  <2>3. PICK e : e = [i EXCEPT !.kind = "save", !.pc = "preflight", !.config = c]
    OBVIOUS
  <2>4. e \in Passes /\ e.pc = "preflight"
    BY <2>3, AccIdle DEF Passes, AccPcs
  <2>5. E!Begin(r, e)
    BY <2>1, <2>2, <2>3, Zenon
  <2>6. UNCHANGED <<config, list, settled>>
    BY <1>1 DEF E!BeginSave
  <2>7. QED
    BY <1>0, <2>4, <2>5, <2>6, AccBegin DEF Routing
<1>2. CASE E!BeginStartup(r)
  <2>1. PICK to \in {"list", "idle"} : to = IF E!Enabled(config) THEN "list" ELSE "idle"
    OBVIOUS
  <2>2. PICK i \in Passes : i = E!Idle
    BY AccIdle
  <2>3. PICK x : x = [i EXCEPT !.kind = "startup", !.config = config, !.pc = to,
                               !.good = E!Active = {}]
    OBVIOUS
  <2>4. x \in Passes /\ x.pc = to /\ x.config = config /\ (x.good <=> E!Active = {})
    BY <1>0, <2>3 DEF Passes, AccPcs
  <2>5. pass' = [q \in Saves |-> IF q = r THEN x ELSE [pass[q] EXCEPT !.good = FALSE]]
    BY <1>2, <2>1, <2>2, <2>3, Zenon DEF E!BeginStartup
  <2>6. /\ pass[r].pc = "idle"
        /\ UNCHANGED <<config, list, settled, offers, middleware, dashboards, ingress, route>>
    BY <1>2 DEF E!BeginStartup, E!routes
  <2>7. OnCourse(x)'
    BY <2>4, <2>6 DEF OnCourse, Routing
  <2>8. QED
    BY <1>0, <2>4, <2>5, <2>6, <2>7, AccBegins DEF Routing
<1>3. CASE E!BeginAllow(r)
  <2>1. PICK i \in Passes : i = E!Idle
    BY AccIdle
  <2>2. PICK e : e = [i EXCEPT !.kind = "allow", !.pc = "access"]
    OBVIOUS
  <2>3. e \in Passes /\ e.pc = "access"
    BY <2>2 DEF Passes, AccPcs
  <2>4. E!Begin(r, e)
    BY <1>3, <2>1, <2>2, Zenon DEF E!BeginAllow
  <2>5. settled' = "no" /\ UNCHANGED config /\ list' \in AccLists
    BY <1>3 DEF E!BeginAllow, AccLists
  <2>6. QED
    BY <2>3, <2>4, <2>5, AccBegin DEF Routing
<1>4. CASE E!BeginApply(r)
  <2>1. PICK to \in {"preflight", "cr"} : to = IF E!Enabled(config) THEN "preflight" ELSE "cr"
    OBVIOUS
  <2>2. PICK i \in Passes : i = E!Idle
    BY AccIdle
  <2>3. PICK e : e = [i EXCEPT !.kind = "apply", !.config = config, !.pc = to]
    OBVIOUS
  <2>4. e \in Passes /\ e.pc = to
    BY <1>0, <2>3 DEF Passes, AccPcs
  <2>5. E!Begin(r, e)
    BY <1>4, <2>1, <2>2, <2>3, Zenon DEF E!BeginApply
  <2>6. UNCHANGED <<config, list, settled>>
    BY <1>4 DEF E!BeginApply
  <2>7. QED
    BY <1>0, <2>4, <2>5, <2>6, AccBegin DEF Routing
<1>5. QED
  BY <1>1, <1>2, <1>3, <1>4

\* A pass that goes on to another place.
LEMMA AccGoes ==
  ASSUME NEW me \in Passes, NEW to \in AccPcs, NEW x, x = [me EXCEPT !.pc = to]
  PROVE  /\ x \in Passes /\ x.pc = to /\ x.config = me.config /\ x.todo = me.todo
         /\ x.list = me.list /\ x.good = me.good
BY DEF Passes

\* A pass is over, or goes on with nothing it could be wrong about.
LEMMA AccEnds ==
  ASSUME AccInv, NEW r \in E!Active, NEW x \in Passes, pass' = [pass EXCEPT ![r] = x],
         config' \in AccConfigs, list' \in AccLists,
         x.pc \in {"idle", "preflight", "set", "cr", "access"},
         x.pc # "idle" => x.good = pass[r].good,
         settled' # "yes" \/
           UNCHANGED <<config, list, offers, middleware, dashboards, ingress, route, settled>>
  PROVE  AccInv'
<1>1. OnCourse(x)' /\ SoFar(x)'
  BY DEF OnCourse, SoFar, Routing
<1>2. settled' = "yes" => settled = "yes" /\ Covered' /\ UNCHANGED <<config, list>>
  BY DEF AccInv, Covered, DashRight, ApiRight, MidRight, Made
<1>3. x.pc \notin Routing
  BY DEF Routing
<1>4. QED
  BY <1>1, <1>2, <1>3, AccMoves

LEMMA AccPlain ==
  ASSUME AccInv, NEW r \in Saves, E!Preflight(r) \/ E!ApplyCr(r) \/ E!ReadAccessFails(r) \/ E!Ends(r)
  PROVE  AccInv'
<1>0. config \in AccConfigs /\ list \in AccLists /\ pass \in [Saves -> Passes]
  BY DEF AccInv, AccTypes
<1>1. PICK me \in Passes : me = pass[r]
  BY <1>0
<1>2. CASE E!Preflight(r)
  <2>1. PICK to \in {"set", "cr"} : to = IF me.kind = "save" THEN "set" ELSE "cr"
    OBVIOUS
  <2>2. PICK x : /\ x = IF E!Blocked(me.config) THEN E!Idle ELSE [me EXCEPT !.pc = to]
                 /\ pass' = [pass EXCEPT ![r] = x]
    BY <1>1, <1>2, <2>1 DEF E!Preflight, E!Set, E!At
  <2>3. x \in Passes /\ x.pc \in {"idle", "set", "cr"} /\ (x.pc # "idle" => x.good = me.good)
    BY <2>2, AccIdle, AccGoes DEF AccPcs
  <2>4. /\ r \in E!Active
        /\ UNCHANGED <<config, list, offers, middleware, dashboards, ingress, route, settled>>
    BY <1>2 DEF E!Preflight, E!Active, E!routes
  <2>5. QED
    BY <1>0, <1>1, <2>2, <2>3, <2>4, AccEnds
<1>3. CASE E!ApplyCr(r)
  <2>1. PICK n \in BOOLEAN : n = (list = None)
    OBVIOUS
  <2>2. PICK x : /\ x = [me EXCEPT !.pc = "access", !.new = n]
                 /\ pass' = [pass EXCEPT ![r] = x]
    BY <1>1, <1>3, <2>1 DEF E!ApplyCr, E!Set
  <2>3. x \in Passes /\ x.pc = "access" /\ x.good = me.good
    BY <2>2 DEF Passes, AccPcs
  <2>4. r \in E!Active /\ UNCHANGED config /\ list' \in AccLists /\ settled' = "no"
    BY <1>0, <1>3 DEF E!ApplyCr, E!Active, AccLists
  <2>5. QED
    BY <1>0, <1>1, <2>2, <2>3, <2>4, AccEnds
<1>4. CASE E!ReadAccessFails(r) \/ E!Ends(r)
  <2>1. pass' = [pass EXCEPT ![r] = E!Idle]
    BY <1>4 DEF E!ReadAccessFails, E!Ends, E!Set, E!Over
  <2>2. /\ r \in E!Active
        /\ UNCHANGED <<config, list, offers, middleware, dashboards, ingress, route>>
        /\ settled' = "no" \/ UNCHANGED settled
    BY <1>4 DEF E!ReadAccessFails, E!Ends, E!Active, E!routes, E!Over
  <2>3. PICK x \in Passes : x = E!Idle
    BY AccIdle
  <2>4. pass' = [pass EXCEPT ![r] = x] /\ x.pc = "idle"
    BY <2>1, <2>3, AccIdle
  <2>5. QED
    BY <1>0, <2>2, <2>4, AccEnds
<1>5. QED
  BY <1>2, <1>3, <1>4

\* The settings of now, of which SetConfig stores those typed unless they lack a domain.
LEMMA AccSets == ASSUME AccInv, NEW r \in Saves, E!SetConfig(r) PROVE AccInv'
<1>0. config \in AccConfigs /\ list \in AccLists /\ pass \in [Saves -> Passes]
  BY DEF AccInv, AccTypes
<1>1. PICK me \in Passes : me = pass[r]
  BY <1>0
<1>2. PICK x : x = [me EXCEPT !.pc = "list"] /\ pass' = [pass EXCEPT ![r] = x]
  BY <1>1 DEF E!SetConfig, E!At, E!Set
<1>3. x \in Passes /\ x.pc = "list" /\ x.config = me.config /\ x.good = me.good
  BY <1>2, AccGoes DEF AccPcs
<1>4. PICK c \in AccConfigs : c = me.config
  BY DEF Passes
<1>5. config' = IF c.mode = "ingress" /\ c.site = None THEN [c EXCEPT !.site = Fallback] ELSE c
  BY <1>1, <1>4 DEF E!SetConfig
<1>6. config' \in AccConfigs /\ (E!Enabled(c) => config' = c)
  BY <1>5 DEF AccConfigs, E!Enabled
<1>7. r \in E!Active /\ settled' = "no" /\ UNCHANGED list
  BY DEF E!SetConfig, E!Active
<1>8. OnCourse(x)' /\ SoFar(x)'
  BY <1>3, <1>4, <1>6 DEF OnCourse, SoFar, Routing
<1>9. x.pc \notin Routing
  BY <1>3 DEF Routing
<1>10. QED
  BY <1>0, <1>1, <1>2, <1>3, <1>6, <1>7, <1>8, <1>9, AccMoves

\* Backfill and the two that read the settings: on to the routes, or over.
LEMMA AccTakesUp ==
  ASSUME AccInv, NEW r \in Saves, NEW t \in Todos, NEW c \in AccConfigs,
         Len(t) = 2, t # <<"opensearch">>, t # <<"dashboards">>,
         UNCHANGED <<config, offers, list, middleware, dashboards, ingress, route>>,
         r \in E!Active, NEW x \in Passes, pass' = [pass EXCEPT ![r] = x],
         OnCourse(pass[r]) => c = config \/ ~E!Enabled(c),
         \/ /\ x.pc = "read" /\ x.todo = t /\ x.config = c /\ x.good = pass[r].good
            /\ E!Enabled(c) /\ UNCHANGED settled
         \/ /\ x.pc = "idle" /\ ~(E!Enabled(c) /\ list # None)
            /\ settled' = IF ~pass[r].good THEN settled ELSE IF c = config THEN "yes" ELSE "typed"
  PROVE  AccInv'
<1>0. config \in AccConfigs /\ list \in AccLists /\ pass \in [Saves -> Passes] /\ r \in Saves
  BY DEF AccInv, AccTypes, E!Active
<1>1. CASE x.pc = "read"
  <2>1. x.todo = t /\ x.config = c /\ x.good = pass[r].good /\ E!Enabled(c) /\ UNCHANGED settled
    BY <1>1
  <2>2. OnCourse(pass[r]) => OnCourse(x)' /\ SoFar(x)'
    BY <1>1, <2>1 DEF OnCourse, SoFar, Routing
  <2>3. settled = "yes" => OnCourse(pass[r]) /\ Covered'
    BY <1>0 DEF AccInv, Covered, DashRight, ApiRight, MidRight, Made
  <2>4. QED
    BY <1>0, <2>1, <2>2, <2>3, AccMoves
<1>2. CASE x.pc = "idle"
  <2>1. OnCourse(x)'
    BY <1>2 DEF OnCourse, Routing
  <2>2. settled = "yes" => Covered'
    BY DEF AccInv, Covered, DashRight, ApiRight, MidRight, Made
  <2>3. ASSUME pass[r].good, c = config PROVE Good(r) /\ Covered'
    <3>1. Good(r)
      BY <2>3 DEF Good, E!Active
    <3>2. ~(E!Enabled(config) /\ list # None)
      BY <1>2, <2>3
    <3>3. QED
      BY <3>1, <3>2 DEF Covered, E!Enabled
  <2>4. x.pc \notin Routing
    BY <1>2 DEF Routing
  <2>5. QED
    BY <1>0, <1>2, <2>1, <2>2, <2>3, <2>4, AccMoves
<1>3. QED
  BY <1>1, <1>2

LEMMA AccReads ==
  ASSUME AccInv, NEW r \in Saves, E!Backfill(r) \/ E!ReadAccess(r) PROVE AccInv'
<1>0. config \in AccConfigs /\ list \in AccLists /\ pass \in [Saves -> Passes]
  BY DEF AccInv, AccTypes
<1>1. PICK me \in Passes : me = pass[r]
  BY <1>0
<1>2. /\ r \in E!Active
      /\ UNCHANGED <<config, offers, list, middleware, dashboards, ingress, route>>
  BY DEF E!Backfill, E!ReadAccess, E!Active, E!routes
<1>3. CASE E!Backfill(r)
  <2>1. PICK t \in Todos : t = <<"opensearch", "dashboards">>
    BY DEF Todos
  <2>2. PICK c \in AccConfigs : c = me.config
    BY DEF Passes
  <2>3. me.pc = "list"
    BY <1>1, <1>3 DEF E!Backfill
  <2>4. OnCourse(pass[r]) => c = config \/ ~E!Enabled(c)
    BY <1>1, <2>2, <2>3 DEF OnCourse
  <2>5. Len(t) = 2 /\ t # <<"opensearch">> /\ t # <<"dashboards">>
    BY <2>1
  <2>6. CASE E!Enabled(c) /\ list # None
    <3>1. PICK x : x = [me EXCEPT !.pc = "read", !.todo = t] /\ pass' = [pass EXCEPT ![r] = x]
      BY <1>1, <1>3, <2>1, <2>2, <2>6 DEF E!Backfill, E!Set
    <3>2. x \in Passes /\ x.pc = "read" /\ x.todo = t /\ x.config = c /\ x.good = me.good
      BY <2>2, <3>1 DEF Passes, AccPcs, Routing
    <3>3. UNCHANGED settled
      BY <1>1, <1>3, <2>2, <2>6 DEF E!Backfill
    <3>4. QED
      BY <1>1, <1>2, <2>4, <2>5, <2>6, <3>1, <3>2, <3>3, AccTakesUp
  <2>7. CASE ~(E!Enabled(c) /\ list # None)
    <3>1. E!Done(r, c)
      BY <1>1, <1>3, <2>2, <2>7 DEF E!Backfill
    <3>2. PICK x \in Passes : x = E!Idle /\ x.pc = "idle"
      BY AccIdle
    <3>3. /\ pass' = [pass EXCEPT ![r] = x]
          /\ settled' = IF ~pass[r].good THEN settled ELSE IF c = config THEN "yes" ELSE "typed"
      BY <3>1, <3>2 DEF E!Done, E!Set
    <3>4. QED
      BY <1>2, <2>4, <2>5, <2>7, <3>2, <3>3, AccTakesUp
  <2>8. QED
    BY <2>6, <2>7
<1>4. CASE E!ReadAccess(r)
  <2>1. PICK t \in Todos : t = <<"dashboards", "opensearch">>
    BY DEF Todos
  <2>2. PICK c \in AccConfigs : c = config
    BY <1>0
  <2>3. Len(t) = 2 /\ t # <<"opensearch">> /\ t # <<"dashboards">>
    BY <2>1
  <2>4. CASE E!Enabled(c)
    <3>1. PICK x : /\ x = [me EXCEPT !.pc = "read", !.config = c, !.todo = t]
                   /\ pass' = [pass EXCEPT ![r] = x]
      BY <1>1, <1>4, <2>1, <2>2, <2>4 DEF E!ReadAccess, E!Set
    <3>2. x \in Passes /\ x.pc = "read" /\ x.todo = t /\ x.config = c /\ x.good = me.good
      BY <3>1 DEF Passes, AccPcs, Routing
    <3>3. UNCHANGED settled
      BY <1>4, <2>2, <2>4 DEF E!ReadAccess
    <3>4. QED
      BY <1>1, <1>2, <2>2, <2>3, <2>4, <3>1, <3>2, <3>3, AccTakesUp
  <2>5. CASE ~E!Enabled(c)
    <3>1. E!Done(r, c)
      BY <1>4, <2>2, <2>5 DEF E!ReadAccess
    <3>2. PICK x \in Passes : x = E!Idle /\ x.pc = "idle"
      BY AccIdle
    <3>3. /\ pass' = [pass EXCEPT ![r] = x]
          /\ settled' = IF ~pass[r].good THEN settled ELSE IF c = config THEN "yes" ELSE "typed"
      BY <3>1, <3>2 DEF E!Done, E!Set
    <3>4. QED
      BY <1>2, <2>2, <2>3, <2>5, <3>2, <3>3, AccTakesUp
  <2>6. QED
    BY <2>4, <2>5
<1>5. QED
  BY <1>3, <1>4

\* A pass at a route goes on with it.  What is asked of it is for one that may still
\* settle the routes, or that goes over settled ones.
LEMMA AccOnRoute ==
  ASSUME AccInv, NEW r \in E!Active, NEW x \in Passes, pass' = [pass EXCEPT ![r] = x],
         pass[r].pc \in Routing, x.pc \in Routing, x.config = pass[r].config, x.todo = pass[r].todo,
         UNCHANGED <<config, offers, list, dashboards, route>>,
         x.good => pass[r].good, settled' = "no" \/ UNCHANGED settled,
         x.good \/ settled' = "yes" =>
           /\ x.pc \in {"guard", "clear", "put"} /\ list # None /\ OnCourse(pass[r]) => x.list = list
           /\ x.pc = "clear" => E!OnTraefik(x)
           /\ MidRight /\ OnCourse(pass[r]) /\ list # None => MidRight'
           /\ ApiRight /\ OnCourse(pass[r]) => ApiRight',
         (OnCourse(pass[r]) /\ SoFar(pass[r]) /\ x.good /\ list # None) =>
           /\ x.pc \in {"clear", "put"} => MidRight'
           /\ x.pc = "put" /\ E!OnTraefik(x) => ingress' = None
  PROVE  AccInv'
<1>0. config \in AccConfigs /\ list \in AccLists /\ pass \in [Saves -> Passes] /\ r \in Saves
  BY DEF AccInv, AccTypes, E!Active
<1>1. ASSUME x.good \/ settled' = "yes", OnCourse(pass[r]) PROVE OnCourse(x)'
  BY <1>1 DEF OnCourse, Routing, E!OnTraefik
<1>2. UNCHANGED DashRight
  BY DEF DashRight, Made
<1>3. ASSUME Good(r), OnCourse(pass[r]), SoFar(pass[r]), x.good PROVE SoFar(x)'
  <2> SUFFICES ASSUME list # None
               PROVE  /\ x.todo = <<"opensearch">> => DashRight'
                      /\ x.todo = <<"dashboards">> => ApiRight'
                      /\ Len(x.todo) = 1 \/ x.pc \in {"clear", "put"} => MidRight'
                      /\ x.pc = "put" /\ E!OnTraefik(x) => ingress' = None
    BY DEF SoFar, E!OnTraefik
  <2>1. /\ pass[r].todo = <<"opensearch">> => DashRight
        /\ pass[r].todo = <<"dashboards">> => ApiRight
        /\ Len(pass[r].todo) = 1 => MidRight
    BY <1>3 DEF SoFar
  <2>2. QED
    BY <1>2, <1>3, <2>1
<1>4. settled' = "yes" => settled = "yes" /\ Covered' /\ OnCourse(x)'
  <2> SUFFICES ASSUME settled' = "yes" PROVE settled = "yes" /\ Covered' /\ OnCourse(x)'
    OBVIOUS
  <2>1. settled = "yes" /\ Covered /\ OnCourse(pass[r])
    BY <1>0 DEF AccInv
  <2>2. Covered'
    BY <1>2, <2>1 DEF Covered
  <2>3. QED
    BY <1>1, <2>1, <2>2
<1>5. x.todo \in Todos
  BY <1>0 DEF AccInv, AccTypes
<1>6. QED
  BY <1>0, <1>1, <1>3, <1>4, <1>5, AccMoves

LEMMA AccRoutes ==
  ASSUME AccInv, NEW r \in Saves,
         E!ReadList(r) \/ E!ReadListFails(r) \/ E!Guard(r) \/ E!Clear(r) \/ E!Skipped(r)
  PROVE  AccInv'
<1>0. config \in AccConfigs /\ list \in AccLists /\ pass \in [Saves -> Passes]
  BY DEF AccInv, AccTypes
<1>1. PICK me \in Passes : me = pass[r]
  BY <1>0
<1>2. r \in E!Active /\ UNCHANGED <<config, offers, list, dashboards, route>>
  BY DEF E!ReadList, E!ReadListFails, E!Guard, E!Clear, E!Skipped, E!Active, E!routes
<1>3. CASE E!ReadList(r) \/ E!ReadListFails(r)
  <2>1. PICK g \in BOOLEAN : g = (me.good /\ E!ReadList(r))
    BY DEF Passes
  <2>2. PICK l \in AccLists :
          l = IF list = None \/ ~E!ReadList(r) THEN Open ELSE list
    BY <1>0 DEF AccLists
  <2>3. me.pc = "read" /\ UNCHANGED <<middleware, ingress>>
    BY <1>1, <1>3 DEF E!ReadList, E!ReadListFails, E!routes
  <2>4. PICK x : /\ x \in Passes /\ x.pc = "guard" /\ x.config = me.config /\ x.todo = me.todo
                 /\ x.list = l /\ x.good = g
                 /\ pass' = [pass EXCEPT ![r] = x]
                 /\ IF E!ReadList(r) THEN UNCHANGED settled ELSE settled' = "no"
    <3>1. CASE E!ReadList(r)
      <4>1. PICK x : x = [me EXCEPT !.pc = "guard", !.list = l] /\ pass' = [pass EXCEPT ![r] = x]
        BY <1>1, <2>2, <3>1 DEF E!ReadList, E!Set
      <4>2. /\ x \in Passes /\ x.pc = "guard" /\ x.config = me.config /\ x.todo = me.todo
            /\ x.list = l /\ x.good = me.good
        BY <4>1 DEF Passes, AccPcs, Routing
      <4>3. g = me.good
        BY <2>1, <3>1 DEF Passes
      <4>4. UNCHANGED settled
        BY <3>1 DEF E!ReadList
      <4>5. QED
        BY <3>1, <4>1, <4>2, <4>3, <4>4
    <3>2. CASE ~E!ReadList(r)
      <4>1. PICK x : /\ x = [me EXCEPT !.pc = "guard", !.list = l, !.good = FALSE]
                     /\ pass' = [pass EXCEPT ![r] = x]
        BY <1>1, <1>3, <2>2, <3>2 DEF E!ReadListFails, E!Set
      <4>2. /\ x \in Passes /\ x.pc = "guard" /\ x.config = me.config /\ x.todo = me.todo
            /\ x.list = l /\ x.good = FALSE
        BY <4>1 DEF Passes, AccPcs, Routing
      <4>3. settled' = "no" /\ g = FALSE
        BY <1>3, <2>1, <3>2 DEF E!ReadListFails
      <4>4. QED
        BY <3>2, <4>1, <4>2, <4>3
    <3>3. QED
      BY <3>1, <3>2
  <2>5. x.good => me.good
    BY <2>1, <2>4
  <2>6. x.good \/ settled' = "yes" => E!ReadList(r)
    BY <2>1, <2>4
  <2>7. E!ReadList(r) /\ list # None => x.list = list
    BY <2>2, <2>4
  <2>8. UNCHANGED <<MidRight, ApiRight>>
    BY <1>2, <2>3 DEF MidRight, ApiRight, Made
  <2>9. settled' = "no" \/ UNCHANGED settled
    BY <2>4
  <2>10. QED
    BY <1>1, <1>2, <2>3, <2>4, <2>5, <2>6, <2>7, <2>8, <2>9, AccOnRoute DEF Routing
<1>4. CASE E!Guard(r)
  <2>1. PICK to \in {"clear", "put"} : to = IF E!OnTraefik(me) THEN "clear" ELSE "put"
    OBVIOUS
  <2>2. PICK x : x = [me EXCEPT !.pc = to] /\ pass' = [pass EXCEPT ![r] = x]
    BY <1>1, <1>4, <2>1 DEF E!Guard, E!At, E!Set
  <2>3. /\ x \in Passes /\ x.pc = to /\ x.config = me.config /\ x.todo = me.todo
        /\ x.list = me.list /\ x.good = me.good
    BY <2>1, <2>2, AccGoes DEF AccPcs, Routing
  <2>4. /\ me.pc = "guard" /\ UNCHANGED <<ingress, settled>>
        /\ middleware' = IF me.list = Open \/ "ingressroutes" \notin offers THEN None ELSE me.list
    BY <1>1, <1>4 DEF E!Guard
  <2>5. OnCourse(me) /\ list # None => me.list = list /\ MidRight'
    BY <1>2, <2>4 DEF OnCourse, MidRight
  <2>6. E!OnTraefik(x) <=> E!OnTraefik(me)
    BY <2>3 DEF E!OnTraefik
  <2>7. UNCHANGED ApiRight
    BY <1>2, <2>4 DEF ApiRight, Made
  <2>8. QED
    BY <1>1, <1>2, <2>1, <2>2, <2>3, <2>4, <2>5, <2>6, <2>7, AccOnRoute DEF Routing
<1>5. CASE E!Clear(r)
  <2>1. PICK x : x = [me EXCEPT !.pc = "put"] /\ pass' = [pass EXCEPT ![r] = x]
    BY <1>1, <1>5 DEF E!Clear, E!At, E!Set
  <2>2. /\ x \in Passes /\ x.pc = "put" /\ x.config = me.config /\ x.todo = me.todo
        /\ x.list = me.list /\ x.good = me.good
    BY <2>1, AccGoes DEF AccPcs, Routing
  <2>3. me.pc = "clear" /\ ingress' = None /\ UNCHANGED <<middleware, settled>>
    BY <1>1, <1>5 DEF E!Clear
  <2>4. OnCourse(me) => (list # None => me.list = list) /\ me.config = config /\ config.class = "traefik"
    BY <2>3 DEF OnCourse, Routing, E!OnTraefik
  <2>5. UNCHANGED MidRight
    BY <1>2, <2>3 DEF MidRight
  <2>6. OnCourse(me) /\ ApiRight => ApiRight'
    BY <1>2, <2>3, <2>4 DEF ApiRight, Made
  <2>7. SoFar(me) /\ list # None => MidRight
    BY <2>3 DEF SoFar, Routing
  <2>8. QED
    BY <1>1, <1>2, <2>1, <2>2, <2>3, <2>4, <2>5, <2>6, <2>7, AccOnRoute DEF Routing
<1>6. CASE E!Skipped(r)
  <2>1. PICK to \in {"clear", "put"} :
          to = IF me.pc = "guard" /\ E!OnTraefik(me) THEN "clear" ELSE "put"
    OBVIOUS
  <2>2. PICK x : x = [me EXCEPT !.pc = to, !.good = FALSE] /\ pass' = [pass EXCEPT ![r] = x]
    BY <1>1, <1>6, <2>1 DEF E!Skipped, E!Set
  <2>3. x \in Passes /\ x.pc = to /\ x.config = me.config /\ x.todo = me.todo /\ ~x.good
    BY <2>2 DEF Passes, AccPcs, Routing
  <2>4. me.pc \in {"guard", "clear"} /\ settled' = "no"
    BY <1>1, <1>6 DEF E!Skipped
  <2>5. QED
    BY <1>1, <1>2, <2>1, <2>2, <2>3, <2>4, AccOnRoute DEF Routing
<1>7. QED
  BY <1>3, <1>4, <1>5, <1>6

LEMMA TodoFacts ==
  ASSUME NEW t \in Todos
  PROVE  /\ Head(t) \in {"dashboards", "opensearch"} /\ Len(t) \in {1, 2}
         /\ Len(t) = 1 => (t = <<"opensearch">> /\ Head(t) = "opensearch") \/
                          (t = <<"dashboards">> /\ Head(t) = "dashboards")
         /\ Len(t) # 1 => /\ Tail(t) \in Todos /\ Len(Tail(t)) = 1
                          /\ Head(t) = "opensearch" => Tail(t) = <<"dashboards">>
                          /\ Head(t) = "dashboards" => Tail(t) = <<"opensearch">>
<1>1. CASE t = <<"opensearch", "dashboards">>
  <2>1. Len(t) = 2 /\ Head(t) = "opensearch" /\ Tail(t) = <<"dashboards">>
    BY <1>1
  <2>2. QED
    BY <2>1 DEF Todos
<1>2. CASE t = <<"dashboards", "opensearch">>
  <2>1. Len(t) = 2 /\ Head(t) = "dashboards" /\ Tail(t) = <<"opensearch">>
    BY <1>2
  <2>2. QED
    BY <2>1 DEF Todos
<1>3. CASE t = <<"opensearch">>
  BY <1>3
<1>4. CASE t = <<"dashboards">>
  BY <1>4
<1>5. QED
  BY <1>1, <1>2, <1>3, <1>4 DEF Todos

LEMMA AccPuts == ASSUME AccInv, NEW r \in Saves, E!Put(r) PROVE AccInv'
<1>0. config \in AccConfigs /\ list \in AccLists /\ pass \in [Saves -> Passes]
  BY DEF AccInv, AccTypes
<1>1. PICK me \in Passes : me = pass[r]
  BY <1>0
<1>2. PICK made : made = [site |-> me.config.site, class |-> me.config.class, guarded |-> me.list # Open]
  OBVIOUS
<1>3. /\ me.pc = "put" /\ r \in E!Active
      /\ dashboards' = IF Head(me.todo) = "dashboards" THEN made ELSE dashboards
      /\ route' = IF E!OnTraefik(me) THEN made ELSE route
      /\ ingress' = IF Head(me.todo) = "opensearch" /\ ~E!OnTraefik(me) THEN made ELSE ingress
      /\ E!Onward(r, me)
      /\ UNCHANGED <<config, offers, list, middleware>>
  BY <1>1, <1>2 DEF E!Put, E!Active
<1>4. UNCHANGED <<MidRight, Made>>
  BY <1>3 DEF MidRight, Made
<1>5. ASSUME OnCourse(me), list # None
      PROVE  /\ made = Made /\ me.config = config /\ me.todo \in Todos
             /\ Head(me.todo) = "dashboards" => DashRight' /\ (ApiRight => ApiRight')
             /\ Head(me.todo) = "opensearch" => DashRight' = DashRight
             /\ Head(me.todo) = "opensearch" /\ (E!OnTraefik(me) => ingress = None) => ApiRight'
  <2>1. me.config = config /\ me.list = list /\ me.todo \in Todos
    BY <1>1, <1>3, <1>5 DEF OnCourse, Routing, AccInv, AccTypes
  <2>2. made = Made
    BY <1>2, <2>1 DEF Made
  <2>3. Head(me.todo) = "dashboards" => DashRight' /\ (ApiRight => ApiRight')
    BY <1>3, <1>4, <2>2 DEF DashRight, ApiRight, E!OnTraefik
  <2>4. Head(me.todo) = "opensearch" => DashRight' = DashRight
    BY <1>3, <1>4 DEF DashRight
  <2>5. Head(me.todo) = "opensearch" /\ (E!OnTraefik(me) => ingress = None) => ApiRight'
    BY <1>3, <1>4, <2>1, <2>2 DEF ApiRight, E!OnTraefik
  <2>6. QED
    BY <2>1, <2>2, <2>3, <2>4, <2>5
<1>6. ASSUME settled = "yes" PROVE OnCourse(me) /\ Covered'
  <2>1. OnCourse(me) /\ Covered
    BY <1>1, <1>6 DEF AccInv
  <2> SUFFICES ASSUME list # None, E!Enabled(config) PROVE DashRight' /\ ApiRight' /\ MidRight'
    BY <1>3, <2>1 DEF Covered, E!Enabled
  <2>2. DashRight /\ ApiRight /\ MidRight
    BY <2>1 DEF Covered
  <2>3. E!OnTraefik(me) => ingress = None
    BY <1>5, <2>1, <2>2 DEF E!OnTraefik, ApiRight
  <2>4. Head(me.todo) \in {"dashboards", "opensearch"}
    BY <1>5, <2>1, TodoFacts
  <2>5. QED
    BY <1>4, <1>5, <2>1, <2>2, <2>3, <2>4
<1>7. CASE Len(me.todo) = 1
  <2>1. E!Done(r, me.config)
    BY <1>3, <1>7 DEF E!Onward
  <2>2. PICK x \in Passes : x = E!Idle /\ x.pc = "idle"
    BY AccIdle
  <2>3. /\ pass' = [pass EXCEPT ![r] = x]
        /\ settled' = IF ~me.good THEN settled ELSE IF me.config = config THEN "yes" ELSE "typed"
    BY <1>1, <2>1, <2>2 DEF E!Done, E!Set
  <2>4. OnCourse(x)'
    BY <2>2 DEF OnCourse, Routing
  <2>5. ASSUME me.good PROVE Good(r) /\ Covered'
    <3>1. Good(r)
      BY <1>1, <1>3, <2>5 DEF Good
    <3>2. OnCourse(me) /\ SoFar(me)
      BY <1>1, <3>1 DEF AccInv
    <3> SUFFICES ASSUME list # None PROVE DashRight' /\ ApiRight' /\ MidRight'
      BY <1>3, <3>1 DEF Covered
    <3>3. me.todo \in Todos /\ MidRight
      BY <1>3, <1>5, <3>2 DEF SoFar, Routing
    <3>4. \/ me.todo = <<"opensearch">> /\ Head(me.todo) = "opensearch"
          \/ me.todo = <<"dashboards">> /\ Head(me.todo) = "dashboards"
      BY <1>7, <3>3, TodoFacts
    <3>5. /\ me.todo = <<"opensearch">> => DashRight
          /\ me.todo = <<"dashboards">> => ApiRight
          /\ E!OnTraefik(me) => ingress = None
      BY <1>3, <3>2 DEF SoFar, Routing
    <3>6. QED
      BY <1>4, <1>5, <3>2, <3>3, <3>4, <3>5
  <2>6. x.pc \notin Routing
    BY <2>2 DEF Routing
  <2>7. QED
    BY <1>0, <1>1, <1>3, <1>6, <2>2, <2>3, <2>4, <2>5, <2>6, AccMoves
<1>8. CASE Len(me.todo) # 1
  <2>1. PICK t : t = Tail(me.todo)
    OBVIOUS
  <2>2. PICK x : x = [me EXCEPT !.pc = "read", !.todo = t] /\ pass' = [pass EXCEPT ![r] = x]
    BY <1>1, <1>3, <1>8, <2>1 DEF E!Onward, E!Set
  <2>3. UNCHANGED settled
    BY <1>3, <1>8 DEF E!Onward
  <2>4. me.todo \in Todos
    BY <1>1, <1>3 DEF AccInv, AccTypes, Routing
  <2>5. t \in Todos
    BY <1>8, <2>1, <2>4, TodoFacts
  <2>6. x \in Passes /\ x.pc = "read" /\ x.config = me.config /\ x.todo = t /\ x.good = me.good
    BY <2>2, <2>5 DEF Passes, AccPcs, Routing
  <2>7. ASSUME OnCourse(me) PROVE OnCourse(x)'
    <3>1. me.config = config
      BY <1>3, <2>7 DEF OnCourse, Routing
    <3>2. QED
      BY <1>3, <2>6, <3>1 DEF OnCourse, Routing
  <2>8. ASSUME OnCourse(me), SoFar(me) PROVE SoFar(x)'
    <3> SUFFICES ASSUME list # None
                 PROVE  /\ t = <<"opensearch">> => DashRight'
                        /\ t = <<"dashboards">> => ApiRight'
                        /\ MidRight'
      BY <1>3, <2>6 DEF SoFar
    <3>1. me.todo \in Todos /\ MidRight /\ (E!OnTraefik(me) => ingress = None)
      BY <1>3, <1>5, <2>8 DEF SoFar, Routing
    <3>2. Head(me.todo) = "opensearch" => t = <<"dashboards">>
      BY <1>8, <2>1, <3>1, TodoFacts
    <3>3. Head(me.todo) = "dashboards" => t = <<"opensearch">>
      BY <1>8, <2>1, <3>1, TodoFacts
    <3>4. Head(me.todo) \in {"dashboards", "opensearch"} /\ <<"opensearch">> # <<"dashboards">>
      BY <3>1, TodoFacts
    <3>5. QED
      BY <1>4, <1>5, <2>8, <3>1, <3>2, <3>3, <3>4
  <2>9. QED
    BY <1>0, <1>1, <1>3, <1>6, <2>2, <2>3, <2>5, <2>6, <2>7, <2>8, AccMoves
<1>9. QED
  BY <1>7, <1>8

\* A route that is refused: on to the next, or over, with nothing settled.
LEMMA AccRefused == ASSUME AccInv, NEW r \in Saves, E!Refused(r) PROVE AccInv'
<1>0. config \in AccConfigs /\ list \in AccLists /\ pass \in [Saves -> Passes]
  BY DEF AccInv, AccTypes
<1>1. PICK me \in Passes : me = pass[r]
  BY <1>0
<1>2. /\ me.pc = "put" /\ r \in E!Active /\ settled' = "no" /\ config' \in AccConfigs
      /\ list' \in AccLists /\ me.todo \in Todos
  BY <1>0, <1>1 DEF E!Refused, E!Active, AccLists, AccInv, AccTypes, Routing
<1>3. CASE me.kind \in {"save", "startup"} /\ Len(me.todo) > 1
  <2>1. PICK t \in Todos : t = Tail(me.todo)
    <3>1. PICK n \in {1, 2} : n = Len(me.todo)
      BY <1>2, TodoFacts
    <3>2. n > 1
      BY <1>3, <3>1, Zenon
    <3>3. n # 1
      BY <3>2
    <3>4. QED
      BY <1>2, <3>1, <3>3, TodoFacts
  <2>2. PICK x : x = [me EXCEPT !.pc = "read", !.todo = t, !.good = FALSE]
                 /\ pass' = [pass EXCEPT ![r] = x]
    BY <1>1, <1>3, <2>1 DEF E!Refused, E!Set
  <2>3. x \in Passes /\ x.todo = t /\ ~x.good
    BY <2>2 DEF Passes, AccPcs, Routing
  <2>4. QED
    BY <1>2, <2>2, <2>3, AccMoves
<1>4. CASE ~(me.kind \in {"save", "startup"} /\ Len(me.todo) > 1)
  <2>1. PICK x \in Passes : x = E!Idle /\ x.pc = "idle"
    BY AccIdle
  <2>2. pass' = [pass EXCEPT ![r] = x]
    BY <1>1, <1>4, <2>1 DEF E!Refused, E!Set
  <2>3. QED
    BY <1>2, <2>1, <2>2, AccEnds
<1>5. QED
  BY <1>3, <1>4

\* What comes from elsewhere leaves no pass one that may settle the routes.
LEMMA AccDisturbed ==
  ASSUME AccInv, E!Restart \/ E!EditConfig \/ E!DropTraefik PROVE AccInv'
<1>1. /\ config' \in AccConfigs /\ list' \in AccLists /\ settled' = "no"
  BY AccIdle DEF E!Restart, E!EditConfig, E!DropTraefik, E!Beside, AccInv, AccTypes
<1>2. ASSUME NEW q \in Saves
      PROVE  /\ pass'[q] \in Passes /\ (pass'[q].pc = "idle" \/ ~pass'[q].good)
             /\ pass'[q].pc = "idle" \/ (pass'[q].pc = pass[q].pc /\ pass'[q].todo = pass[q].todo)
  <2>1. CASE E!Restart
    BY <2>1, AccIdle DEF E!Restart
  <2>2. CASE E!EditConfig \/ E!DropTraefik
    <3>1. PICK me \in Passes : me = pass[q]
      BY DEF AccInv, AccTypes
    <3>2. pass'[q] = [me EXCEPT !.good = FALSE]
      BY <2>2, <3>1 DEF E!EditConfig, E!DropTraefik, E!Beside
    <3>3. QED
      BY <3>1, <3>2 DEF Passes
  <2>3. QED
    BY <2>1, <2>2
<1>3. pass' \in [Saves -> Passes]
  <2>1. pass' = [q \in Saves |-> pass'[q]]
    BY DEF E!Restart, E!EditConfig, E!DropTraefik, E!Beside
  <2>2. QED
    BY <1>2, <2>1
<1>4. \A q \in Saves : pass'[q].pc \in Routing => pass'[q].todo \in Todos
  BY <1>2 DEF AccInv, AccTypes, Routing
<1>5. AccTypes'
  BY <1>1, <1>3, <1>4 DEF AccTypes
<1>6. QED
  BY <1>1, <1>2, <1>5 DEF AccInv, Good

LEMMA AccInit == ASSUME E!Init PROVE AccInv
<1>1. \A c \in E!Settings \cup {E!Default} : c \in AccConfigs
  BY AccIdle
<1>2. config \in AccConfigs /\ list \in AccLists /\ settled = "no"
  BY <1>1 DEF E!Init, AccLists
<1>3. pass = [r \in Saves |-> E!Idle]
  BY DEF E!Init
<1>4. QED
  BY <1>2, <1>3, AccIdle DEF AccInv, AccTypes, Good, Routing

LEMMA AccNextInv == ASSUME AccInv, E!Next PROVE AccInv'
<1>1. ASSUME NEW r \in Saves,
             \/ E!BeginSave(r) \/ E!BeginStartup(r) \/ E!BeginAllow(r) \/ E!BeginApply(r)
             \/ E!Preflight(r) \/ E!SetConfig(r) \/ E!Backfill(r) \/ E!ApplyCr(r)
             \/ E!ReadAccess(r) \/ E!ReadAccessFails(r) \/ E!ReadList(r) \/ E!ReadListFails(r)
             \/ E!Guard(r) \/ E!Clear(r) \/ E!Skipped(r) \/ E!Put(r) \/ E!Refused(r) \/ E!Ends(r)
      PROVE  AccInv'
  BY <1>1, AccStarts, AccPlain, AccSets, AccReads, AccRoutes, AccPuts, AccRefused
<1>2. QED
  BY <1>1, AccDisturbed DEF E!Next

LEMMA AccSteps ==
  ASSUME [AllNext]_allVars, part = "access" PROVE E!Next \/ UNCHANGED accVars
BY Zenon DEF AllNext, allVars, SnapNext, AuthNext, AccNext, ActNext, Snap, Auth, Acc, Act, E!Next

\* RoutesFollow of Access: after a pass that ran well and alone, whatever went wrong
\* before it, and for as long as nothing else changes the settings, the list or the
\* routes, these are what the stored settings and the CR ask for (backfill_ingresses,
\* set_ip_allow_list, create_cluster).
THEOREM AccessRoutesFollow == AllSpec => []RoutesFollow
<1>1. AllInit => (part = "access" => AccInv)
  BY AccInit DEF AllInit
<1>2. (part = "access" => AccInv) /\ [AllNext]_allVars => (part = "access" => AccInv)'
  <2> SUFFICES ASSUME part = "access" => AccInv, [AllNext]_allVars, part' = "access"
               PROVE  AccInv'
    BY Zenon
  <2>1. part = "access" /\ AccInv
    BY PartStays
  <2>2. CASE E!Next
    BY <2>1, <2>2, AccNextInv
  <2>3. CASE UNCHANGED accVars
    BY <2>1, <2>3 DEF accVars, AccInv, AccTypes, Good, OnCourse, SoFar, Covered, DashRight,
       ApiRight, MidRight, Made, E!Active
  <2>4. QED
    BY <2>1, <2>2, <2>3, AccSteps
<1>3. (part = "access" => AccInv) => RoutesFollow
  BY DEF AccInv, RoutesFollow, E!RoutesFollow, E!Follow, Covered, DashRight, ApiRight, MidRight, Made
<1>4. QED
  BY <1>1, <1>2, <1>3, PTL DEF AllSpec

-----------------------------------------------------------------------------
(* What a deployment is doing.                                               *)

Names == {"restart", "security", "upgrade", "row", "dashboards"}
Pods == [made : BOOLEAN, current : BOOLEAN, ready : BOOLEAN]
Reads == [pc : {"idle", "sts", "claims", "dash"}, green : BOOLEAN, init : BOOLEAN,
          row : BOOLEAN, want : Nat, upgrade : BOOLEAN, ready : Nat, updated : Nat,
          claims : Nat, bound : Nat, dash : BOOLEAN, calm : BOOLEAN, whole : BOOLEAN]

ActTypes ==
  /\ want \in V!Nodes /\ size \in Nat
  /\ pods \in [V!Nodes -> Pods]
  /\ \A n \in V!Nodes : (pods[n].ready => pods[n].made) /\ (pods[n].made => n <= size)
  /\ actCr \in [green : BOOLEAN, init : BOOLEAN, row : BOOLEAN]
  /\ read \in Reads
  /\ open \in [nodes : SUBSET V!Nodes, rest : SUBSET Names]

\* What has been unfinished all through a read is so now, and is in what was read of it.
Seen ==
  /\ read.ready = 0
  /\ open.nodes \subseteq (1 .. read.want) \ V!Ready
  /\ "restart" \in open.rest => V!Rolling
  /\ "security" \in open.rest => ~read.init
  /\ "upgrade" \in open.rest => read.upgrade
  /\ "row" \in open.rest => read.row

ActInv ==
  /\ ActTypes
  /\ read.pc = "sts" => Seen
  /\ read.pc \in {"claims", "dash"} /\ V!NodesSettled(read) =>
       open.nodes = {} /\ open.rest \subseteq {"dashboards"}
  /\ read.pc # "idle" /\ "dashboards" \in open.rest => dash = "down"
  /\ shown.missed = V!Nothing /\ ~read.dash

\* With no more pods than nodes wanted, the counts of a StatefulSet say which are up, and
\* that all are on the current revision.
LEMMA CountsTell ==
  ASSUME ActTypes, NEW w \in Nat, size <= w, Cardinality(V!Ready) = w, Cardinality(V!Current) = w,
         V!ActivityAssumption
  PROVE  V!Ready = 1 .. w /\ ~V!Rolling
<1>1. V!Ready \subseteq V!Made /\ V!Current \subseteq V!Made /\ V!Made \subseteq 1 .. w
  BY DEF ActTypes, V!Ready, V!Made, V!Current, V!Nodes, V!ActivityAssumption
<1>2. IsFiniteSet(1 .. w) /\ Cardinality(1 .. w) = w
  BY FS_Interval
<1>3. V!Ready \subseteq 1 .. w /\ V!Current \subseteq 1 .. w
  BY <1>1
<1>4. \A S \in SUBSET (1 .. w) : Cardinality(S) = Cardinality(1 .. w) => S = 1 .. w
  BY <1>2, FS_Subset
<1>6. V!Ready = 1 .. w /\ V!Current = 1 .. w
  BY <1>2, <1>3, <1>4
<1>7. QED
  BY <1>1, <1>6 DEF V!Rolling

\* What goes on during a read takes away from what has been unfinished all through it.
LEMMA ActGoes ==
  ASSUME ActInv, V!Goes, ActTypes', shown'.missed = V!Nothing,
         \/ UNCHANGED read
         \/ read' = [read EXCEPT !.calm = FALSE]
  PROVE  ActInv'
<1>1. /\ read'.pc = read.pc /\ read'.want = read.want /\ read'.init = read.init
      /\ read'.upgrade = read.upgrade /\ read'.row = read.row /\ read'.green = read.green
      /\ read'.ready = read.ready /\ read'.updated = read.updated /\ read'.dash = read.dash
  BY DEF ActInv, ActTypes, Reads
<1>2. V!NodesSettled(read') <=> V!NodesSettled(read)
  BY <1>1 DEF V!NodesSettled
<1>3. /\ open'.nodes = open.nodes \cap V!Unfinished'.nodes
      /\ open'.rest = open.rest \cap V!Unfinished'.rest
  BY DEF V!Goes, ActInv, ActTypes
<1>4. /\ open'.nodes \subseteq open.nodes /\ open'.rest \subseteq open.rest
      /\ open'.nodes \cap V!Ready' = {}
      /\ "restart" \in open'.rest => V!Rolling'
      /\ "dashboards" \in open'.rest => dash' = "down"
  BY <1>3 DEF V!Unfinished
<1>5. read.pc = "sts" => Seen'
  BY <1>1, <1>4 DEF ActInv, Seen
<1>6. QED
  BY <1>1, <1>2, <1>4, <1>5 DEF ActInv

LEMMA ActReadsCr == ASSUME ActInv, V!ReadCr PROVE ActInv'
<1>1. PICK u \in Reads : u = V!Unread
  BY DEF V!Unread, Reads
<1>2. PICK b \in BOOLEAN : b = (upgrade # "none")
  OBVIOUS
<1>3. read' = [u EXCEPT !.pc = "sts", !.green = actCr.green, !.init = actCr.init,
                        !.row = actCr.row, !.want = want, !.upgrade = b]
  BY <1>1, <1>2, Zenon DEF V!ReadCr
<1>4. want \in Nat /\ actCr \in [green : BOOLEAN, init : BOOLEAN, row : BOOLEAN]
  BY DEF ActInv, ActTypes, V!Nodes
<1>5. /\ read' \in Reads /\ read'.pc = "sts" /\ read'.want = want /\ read'.init = actCr.init
      /\ read'.row = actCr.row /\ read'.upgrade = b /\ read'.ready = u.ready
      /\ read'.dash = u.dash
  BY <1>3, <1>4 DEF Reads
<1>6. /\ UNCHANGED <<want, upgrade, actCr, size, pods, claims, dash, shown>>
      /\ open' = V!Unfinished
  BY DEF V!ReadCr, V!cluster
<1>7. UNCHANGED <<V!Ready, V!Rolling>>
  BY <1>6 DEF V!Ready, V!Rolling, V!Made, V!Current
<1>8. open' \in [nodes : SUBSET V!Nodes, rest : SUBSET Names]
  <2>1. (1 .. want) \ V!Ready \in SUBSET V!Nodes
    BY SettingsAssumption DEF V!Nodes, ActInv, ActTypes, V!ActivityAssumption
  <2>2. V!Unfinished.rest \in SUBSET Names
    BY DEF V!Unfinished, Names
  <2>3. QED
    BY <1>6, <2>1, <2>2 DEF V!Unfinished
<1>9. ActTypes'
  BY <1>5, <1>6, <1>8 DEF ActInv, ActTypes
<1>10. Seen' /\ ("dashboards" \in open'.rest => dash' = "down")
  <2>1. u.ready = 0
    BY <1>1 DEF V!Unread
  <2>2. QED
    BY <1>2, <1>5, <1>6, <1>7, <2>1 DEF Seen, V!Unfinished
<1>11. ~u.dash
  BY <1>1 DEF V!Unread
<1>12. QED
  BY <1>5, <1>6, <1>9, <1>10, <1>11 DEF ActInv

\* Choose, for a read that has just seen the StatefulSet, or failed to.
LEMMA ActChooses ==
  ASSUME ActInv, V!ActivityAssumption, read.pc = "sts",
         UNCHANGED <<want, upgrade, actCr, size, pods, claims, dash, shown>>,
         NEW i \in Reads, i.want = read.want, i.init = read.init, i.upgrade = read.upgrade,
         i.row = read.row, i.dash = read.dash,
         i.ready = 0 \/ (i.ready = Cardinality(V!Ready) /\ i.updated = Cardinality(V!Current)),
         V!Choose(i)
  PROVE  ActInv'
<1>1. PICK to \in {"dash", "claims"} : read' = [i EXCEPT !.pc = to]
  BY DEF V!Choose
<1>2. /\ read' \in Reads /\ read'.pc = to /\ read'.want = i.want /\ read'.init = i.init
      /\ read'.upgrade = i.upgrade /\ read'.row = i.row /\ read'.green = i.green
      /\ read'.ready = i.ready /\ read'.updated = i.updated /\ read'.dash = i.dash
  BY <1>1 DEF Reads
<1>3. V!NodesSettled(read') <=> V!NodesSettled(i)
  BY <1>2 DEF V!NodesSettled
<1>4. open \in [nodes : SUBSET V!Nodes, rest : SUBSET Names]
  BY DEF ActInv, ActTypes
<1>5. /\ open' \in [nodes : SUBSET V!Nodes, rest : SUBSET Names]
      /\ open'.nodes \subseteq open.nodes /\ open'.rest \subseteq open.rest
      /\ V!NodesSettled(i) /\ size > i.want =>
           open'.nodes = {} /\ open'.rest = open.rest \ {"restart"}
  <2>1. CASE ~V!NodesSettled(i)
    <3>1. open' = [nodes |-> {}, rest |-> {}]
      BY <2>1 DEF V!Choose, V!Nothing
    <3>2. QED
      BY <1>4, <2>1, <3>1
  <2>2. CASE V!NodesSettled(i) /\ size > i.want
    <3>1. PICK fs \in SUBSET Names : fs = open.rest \ {"restart"}
      BY <1>4
    <3>2. open' = [nodes |-> {}, rest |-> fs]
      BY <2>2, <3>1 DEF V!Choose
    <3>3. QED
      BY <1>4, <3>1, <3>2
  <2>3. CASE V!NodesSettled(i) /\ ~(size > i.want)
    BY <1>4, <2>3 DEF V!Choose
  <2>4. QED
    BY <2>1, <2>2, <2>3
<1>6. ActTypes'
  BY <1>2, <1>5 DEF ActInv, ActTypes
<1>7. ASSUME V!NodesSettled(i) PROVE open'.nodes = {} /\ open'.rest \subseteq {"dashboards"}
  <2>1. /\ i.init /\ ~i.upgrade /\ ~i.row /\ i.want > 0 /\ i.ready = i.want /\ i.updated = i.want
        /\ i.want \in Nat
    BY <1>7 DEF V!NodesSettled, Reads
  <2>2. open'.rest \subseteq {"restart", "dashboards"}
    BY <1>5, <2>1 DEF ActInv, Seen, Names
  <2>3. CASE size > i.want
    BY <1>5, <1>7, <2>2, <2>3
  <2>4. CASE ~(size > i.want)
    <3>1. Cardinality(V!Ready) = i.want /\ Cardinality(V!Current) = i.want /\ size <= i.want
      BY <2>1, <2>4 DEF ActInv, ActTypes
    <3>2. V!Ready = 1 .. i.want /\ ~V!Rolling
      BY <2>1, <3>1, CountsTell DEF ActInv
    <3>3. open.nodes = {} /\ "restart" \notin open.rest
      BY <3>2 DEF ActInv, Seen
    <3>4. QED
      BY <1>5, <1>7, <2>2, <2>4, <3>3
  <2>5. QED
    BY <2>3, <2>4
<1>8. "dashboards" \in open'.rest => dash' = "down"
  BY <1>5 DEF ActInv
<1>9. QED
  BY <1>2, <1>3, <1>5, <1>6, <1>7, <1>8 DEF ActInv

LEMMA ActReads ==
  ASSUME ActInv, V!ActivityAssumption,
         V!ReadSts \/ V!StsFails \/ V!ReadClaims \/ V!ClaimsFail
  PROVE  ActInv'
<1>1. UNCHANGED <<want, upgrade, actCr, size, pods, claims, dash, shown>>
  BY DEF V!ReadSts, V!StsFails, V!ReadClaims, V!ClaimsFail, V!cluster
<1>2. read \in Reads
  BY DEF ActInv, ActTypes
<1>3. CASE V!ReadSts
  <2>1. PICK b \in BOOLEAN :
          b = (size <= want /\ \A n \in 1 .. want : pods[n].made /\ claims[n] = "bound")
    OBVIOUS
  <2>2. Cardinality(V!Ready) \in Nat /\ Cardinality(V!Current) \in Nat
    <3>1. IsFiniteSet(V!Nodes)
      BY FS_Interval DEF V!Nodes, V!ActivityAssumption
    <3>2. V!Ready \in SUBSET V!Nodes /\ V!Current \in SUBSET V!Nodes
      BY DEF V!Ready, V!Current
    <3>3. QED
      BY <3>1, <3>2, FS_Subset, FS_CardinalityType
  <2>3. PICK i : i = [read EXCEPT !.ready = Cardinality(V!Ready), !.updated = Cardinality(V!Current),
                                  !.whole = b]
    OBVIOUS
  <2>4. /\ i \in Reads /\ i.want = read.want /\ i.init = read.init /\ i.upgrade = read.upgrade
        /\ i.row = read.row /\ i.dash = read.dash /\ i.ready = Cardinality(V!Ready) /\ i.updated = Cardinality(V!Current)
    BY <1>2, <2>2, <2>3 DEF Reads
  <2>5. V!Choose(i) /\ read.pc = "sts"
    BY <1>3, <2>1, <2>3, Zenon DEF V!ReadSts
  <2>6. QED
    BY <1>1, <2>4, <2>5, ActChooses
<1>4. CASE V!StsFails
  <2>1. PICK i : i = [read EXCEPT !.calm = FALSE]
    OBVIOUS
  <2>2. /\ i \in Reads /\ i.want = read.want /\ i.init = read.init /\ i.upgrade = read.upgrade
        /\ i.row = read.row /\ i.ready = read.ready /\ i.dash = read.dash
    BY <1>2, <2>1 DEF Reads
  <2>3. V!Choose(i) /\ read.pc = "sts"
    BY <1>4, <2>1, Zenon DEF V!StsFails
  <2>4. read.ready = 0
    BY <2>3 DEF ActInv, Seen
  <2>5. QED
    BY <1>1, <2>2, <2>3, <2>4, ActChooses
<1>5. CASE V!ReadClaims \/ V!ClaimsFail
  <2>1. /\ read.pc = "claims" /\ UNCHANGED open
        /\ read'.pc = "dash" /\ read' \in Reads /\ read'.want = read.want
        /\ read'.init = read.init /\ read'.upgrade = read.upgrade /\ read'.row = read.row
        /\ read'.green = read.green /\ read'.ready = read.ready /\ read'.updated = read.updated
        /\ read'.dash = read.dash
    <3>1. CASE V!ReadClaims
      <4>1. \A S \in SUBSET V!Nodes : Cardinality(S) \in Nat
        <5>1. IsFiniteSet(V!Nodes)
          BY FS_Interval DEF V!Nodes, V!ActivityAssumption
        <5>2. QED
          BY <5>1, FS_Subset, FS_CardinalityType
      <4>2. PICK c, b \in Nat :
              /\ c = Cardinality({n \in V!Nodes : claims[n] # "none"})
              /\ b = Cardinality({n \in V!Nodes : claims[n] = "bound"})
        BY <4>1
      <4>3. read' = [read EXCEPT !.pc = "dash", !.claims = c, !.bound = b]
        BY <3>1, <4>2, Zenon DEF V!ReadClaims
      <4>4. read.pc = "claims" /\ UNCHANGED open
        BY <3>1 DEF V!ReadClaims
      <4>5. QED
        BY <1>2, <4>3, <4>4 DEF Reads
    <3>2. CASE V!ClaimsFail
      BY <1>2, <3>2 DEF V!ClaimsFail, Reads
    <3>3. QED
      BY <1>5, <3>1, <3>2
  <2>2. V!NodesSettled(read') <=> V!NodesSettled(read)
    BY <2>1 DEF V!NodesSettled
  <2>3. ActTypes'
    BY <1>1, <2>1 DEF ActInv, ActTypes
  <2>4. QED
    BY <1>1, <2>1, <2>2, <2>3 DEF ActInv
<1>6. QED
  BY <1>3, <1>4, <1>5

LEMMA ActShows == ASSUME ActInv, V!ReadDash \/ V!DashFails PROVE ActInv'
<1>1. PICK b \in BOOLEAN : b = (dash # "down")
  OBVIOUS
<1>2. PICK i : /\ i = IF V!ReadDash THEN [read EXCEPT !.dash = b] ELSE read
               /\ V!Show(i)
  BY <1>1 DEF V!ReadDash, V!DashFails
<1>3. /\ i.green = read.green /\ i.want = read.want /\ i.ready = read.ready
      /\ i.updated = read.updated /\ i.init = read.init /\ i.upgrade = read.upgrade
      /\ i.row = read.row /\ i.dash = IF V!ReadDash THEN b ELSE read.dash
  BY <1>2 DEF ActInv, ActTypes, Reads
<1>4. /\ UNCHANGED <<want, upgrade, actCr, size, pods, claims, dash>>
      /\ read.pc = "dash" /\ read' = V!Unread /\ open' = V!Nothing
      /\ shown'.missed = IF V!Settled(i) THEN open ELSE V!Nothing
  BY <1>2 DEF V!ReadDash, V!DashFails, V!cluster, V!Show, V!Verdict
<1>5. read' \in Reads /\ read'.pc = "idle" /\ ~read'.dash
  BY <1>4 DEF V!Unread, Reads
<1>6. ActTypes'
  BY <1>4, <1>5 DEF ActInv, ActTypes, V!Nothing
<1>7. ASSUME V!Settled(i) PROVE open = V!Nothing
  <2>1. V!NodesSettled(read) /\ V!ReadDash /\ dash # "down"
    BY <1>1, <1>3, <1>7 DEF V!Settled, V!NodesSettled, ActInv
  <2>2. open.nodes = {} /\ open.rest = {}
    BY <1>4, <2>1 DEF ActInv, ActTypes
  <2>3. QED
    BY <2>2 DEF ActInv, ActTypes, V!Nothing
<1>8. QED
  BY <1>4, <1>5, <1>6, <1>7 DEF ActInv

\* The operator, Kubernetes and the users.
LEMMA ActTurns ==
  ASSUME ActInv, V!ActivityAssumption,
         \/ \E n \in V!Nodes : V!StartPod(n) \/ V!Bind(n) \/ V!GetsReady(n) \/ V!Restart(n) \/ V!Crash(n)
         \/ V!Resize \/ V!Report \/ V!Initialize \/ V!MakeDash \/ V!DashUp \/ V!DashDown
         \/ V!Template \/ V!Scale \/ V!AskUpgrade \/ V!Upgrade \/ V!Upgraded
  PROVE  ActInv'
<1>1. V!Onward \/ V!Back
  BY DEF V!StartPod, V!Bind, V!GetsReady, V!Restart, V!Crash, V!Resize, V!Report,
     V!Initialize, V!MakeDash, V!DashUp, V!DashDown, V!Template, V!Scale, V!AskUpgrade,
     V!Upgrade, V!Upgraded
<1>2. /\ V!Goes /\ shown'.missed = V!Nothing
      /\ UNCHANGED read \/ read' = [read EXCEPT !.calm = FALSE]
  BY <1>1 DEF V!Onward, V!Back, V!Unshown, ActInv
<1>3. read' \in Reads
  BY <1>2 DEF ActInv, ActTypes, Reads
<1>4. open' \in [nodes : SUBSET V!Nodes, rest : SUBSET Names]
  <2>1. open \in [nodes : SUBSET V!Nodes, rest : SUBSET Names]
    BY DEF ActInv, ActTypes
  <2>2. open' = [f \in {"nodes", "rest"} |-> open[f] \cap V!Unfinished'[f]]
    BY <1>2, <2>1 DEF V!Goes
  <2>3. QED
    BY <2>1, <2>2
<1>5. want' \in V!Nodes
  BY DEF V!StartPod, V!Bind, V!GetsReady, V!Restart, V!Crash, V!Resize, V!Report,
     V!Initialize, V!MakeDash, V!DashUp, V!DashDown, V!Template, V!Scale, V!AskUpgrade,
     V!Upgrade, V!Upgraded, ActInv, ActTypes
<1>6. actCr' \in [green : BOOLEAN, init : BOOLEAN, row : BOOLEAN]
  <2>1. CASE V!Report
    <3>1. PICK g \in BOOLEAN, row \in BOOLEAN : actCr' = [actCr EXCEPT !.green = g, !.row = row]
      BY <2>1 DEF V!Report, V!Healthy
    <3>2. QED
      BY <3>1 DEF ActInv, ActTypes
  <2>2. CASE V!Initialize
    BY <2>2 DEF V!Initialize, ActInv, ActTypes
  <2>3. CASE UNCHANGED actCr
    BY <2>3 DEF ActInv, ActTypes
  <2>4. QED
    BY <2>1, <2>2, <2>3 DEF V!StartPod, V!Bind, V!GetsReady, V!Restart, V!Crash, V!Resize,
       V!MakeDash, V!DashUp, V!DashDown, V!Template, V!Scale, V!AskUpgrade, V!Upgrade, V!Upgraded
<1>7. /\ size' \in Nat /\ pods' \in [V!Nodes -> Pods]
      /\ \A n \in V!Nodes : (pods'[n].ready => pods'[n].made) /\ (pods'[n].made => n <= size')
  <2>0. /\ want \in Nat /\ size \in Nat /\ pods \in [V!Nodes -> Pods] /\ V!Nodes \subseteq Nat
        /\ \A n \in V!Nodes : (pods[n].ready => pods[n].made) /\ (pods[n].made => n <= size)
    BY DEF ActInv, ActTypes, V!Nodes
  <2>1. CASE UNCHANGED <<size, pods>>
    BY <2>0, <2>1
  <2>2. CASE V!Resize
    <3>1. PICK next \in Nat : next = IF size < want THEN size + 1 ELSE size - 1
      BY <2>0, <2>2 DEF V!Resize
    <3>2. size' = next /\ pods' = [n \in V!Nodes |-> IF n > next THEN V!NoPod ELSE pods[n]]
      BY <2>2, <3>1 DEF V!Resize
    <3>3. V!NoPod \in Pods /\ ~V!NoPod.ready /\ ~V!NoPod.made
      BY DEF V!NoPod, Pods
    <3>4. QED
      BY <2>0, <3>2, <3>3
  <2>3. ASSUME NEW n \in V!Nodes, V!StartPod(n)
        PROVE  /\ size' \in Nat /\ pods' \in [V!Nodes -> Pods]
               /\ \A m \in V!Nodes : (pods'[m].ready => pods'[m].made) /\ (pods'[m].made => m <= size')
    BY <2>0, <2>3 DEF V!StartPod, Pods
  <2>4. ASSUME NEW n \in V!Nodes, V!GetsReady(n) \/ V!Restart(n) \/ V!Crash(n)
        PROVE  /\ size' \in Nat /\ pods' \in [V!Nodes -> Pods]
               /\ \A m \in V!Nodes : (pods'[m].ready => pods'[m].made) /\ (pods'[m].made => m <= size')
    <3>1. PICK p \in Pods : p = pods[n]
      BY <2>0
    <3>2. PICK q : /\ q \in Pods /\ (q.ready => q.made) /\ (q.made => p.made)
                   /\ pods' = [pods EXCEPT ![n] = q] /\ UNCHANGED size
      <4>1. CASE V!GetsReady(n)
        <5>1. PICK q : q = [p EXCEPT !.ready = TRUE]
          OBVIOUS
        <5>2. pods' = [pods EXCEPT ![n] = q] /\ UNCHANGED size /\ p.made
          BY <3>1, <4>1, <5>1 DEF V!GetsReady
        <5>3. QED
          BY <5>1, <5>2 DEF Pods
      <4>2. CASE V!Restart(n)
        <5>1. PICK q : q = [p EXCEPT !.current = TRUE, !.ready = FALSE]
          OBVIOUS
        <5>2. pods' = [pods EXCEPT ![n] = q] /\ UNCHANGED size
          BY <3>1, <4>2, <5>1 DEF V!Restart
        <5>3. QED
          BY <5>1, <5>2 DEF Pods
      <4>3. CASE V!Crash(n)
        <5>1. PICK q : q = [p EXCEPT !.ready = FALSE]
          OBVIOUS
        <5>2. pods' = [pods EXCEPT ![n] = q] /\ UNCHANGED size
          BY <3>1, <4>3, <5>1 DEF V!Crash
        <5>3. QED
          BY <5>1, <5>2 DEF Pods
      <4>4. QED
        BY <2>4, <4>1, <4>2, <4>3
    <3>3. QED
      BY <2>0, <3>1, <3>2
  <2>5. CASE V!Template \/ V!Upgrade
    <3>1. pods' = [n \in V!Nodes |-> [pods[n] EXCEPT !.current = FALSE]] /\ UNCHANGED size
      BY <2>5 DEF V!Template, V!Upgrade
    <3>2. ASSUME NEW n \in V!Nodes
          PROVE  pods'[n] \in Pods /\ pods'[n].ready = pods[n].ready /\ pods'[n].made = pods[n].made
      <4>1. PICK p \in Pods : p = pods[n]
        BY <2>0
      <4>2. pods'[n] = [p EXCEPT !.current = FALSE]
        BY <3>1, <4>1
      <4>3. QED
        BY <4>1, <4>2 DEF Pods
    <3>3. QED
      BY <2>0, <3>1, <3>2
  <2>6. QED
    BY <2>1, <2>2, <2>3, <2>4, <2>5 DEF V!Bind, V!Report, V!Initialize, V!MakeDash, V!DashUp,
       V!DashDown, V!Scale, V!AskUpgrade, V!Upgraded
<1>8. ActTypes'
  BY <1>3, <1>4, <1>5, <1>6, <1>7 DEF ActTypes
<1>9. QED
  BY <1>2, <1>8, ActGoes

LEMMA ActInit == ASSUME V!Init, V!ActivityAssumption PROVE ActInv
<1>1. PICK u \in Reads : u = V!Unread
  BY DEF V!Unread, Reads
<1>2. u.pc = "idle" /\ ~u.dash
  BY <1>1 DEF V!Unread
<1>3. read = u /\ open = V!Nothing /\ shown.missed = V!Nothing /\ want \in V!Nodes /\ size = 0
  BY <1>1 DEF V!Init, V!Unshown
<1>4. actCr \in [green : BOOLEAN, init : BOOLEAN, row : BOOLEAN]
  BY DEF V!Init
<1>5. /\ pods \in [V!Nodes -> Pods]
      /\ \A n \in V!Nodes : (pods[n].ready => pods[n].made) /\ (pods[n].made => n <= size)
  BY DEF V!Init, V!NoPod, Pods
<1>6. open \in [nodes : SUBSET V!Nodes, rest : SUBSET Names]
  BY <1>3 DEF V!Nothing
<1>7. QED
  BY <1>2, <1>3, <1>4, <1>5, <1>6 DEF ActInv, ActTypes

LEMMA ActNextInv == ASSUME ActInv, V!Next, V!ActivityAssumption PROVE ActInv'
<1>1. CASE V!ReadCr
  BY <1>1, ActReadsCr
<1>2. CASE V!ReadSts \/ V!StsFails \/ V!ReadClaims \/ V!ClaimsFail
  BY <1>2, ActReads
<1>3. CASE V!ReadDash \/ V!DashFails
  BY <1>3, ActShows
<1>4. QED
  BY <1>1, <1>2, <1>3, ActTurns DEF V!Next

LEMMA ActSteps ==
  ASSUME [AllNext]_allVars, part = "activity" PROVE V!Next \/ UNCHANGED actVars
<1>1. CASE UNCHANGED allVars
  BY <1>1 DEF allVars
<1>2. CASE SnapNext
  BY <1>2 DEF SnapNext, Snap
<1>3. CASE AuthNext
  BY <1>3 DEF AuthNext, Auth
<1>4. CASE AccNext
  BY <1>4 DEF AccNext, Acc
<1>5. CASE ActNext
  BY <1>5, Zenon DEF ActNext, Act, V!Next
<1>6. QED
  BY <1>1, <1>2, <1>3, <1>4, <1>5, Zenon DEF AllNext

\* SettledMissesNothing of Activity: for any number of nodes, edits, crashes and failed
\* reads, no read calls a deployment settled that had something unfinished before it all
\* along (nodes_settled_of, settled_of).
THEOREM ActivityMissesNothing == AllSpec => []SettledMissesNothing
<1>1. AllInit => (part = "activity" => ActInv)
  BY SettingsAssumption, ActInit DEF AllInit
<1>2. (part = "activity" => ActInv) /\ [AllNext]_allVars => (part = "activity" => ActInv)'
  <2> SUFFICES ASSUME part = "activity" => ActInv, [AllNext]_allVars, part' = "activity"
               PROVE  ActInv'
    BY Zenon
  <2>1. part = "activity" /\ ActInv
    BY PartStays
  <2>2. CASE V!Next
    BY <2>1, <2>2, SettingsAssumption, ActNextInv
  <2>3. CASE UNCHANGED actVars
    BY <2>1, <2>3 DEF actVars, ActInv, ActTypes, Seen, V!NodesSettled, V!Rolling, V!Made,
       V!Current, V!Ready
  <2>4. QED
    BY <2>1, <2>2, <2>3, ActSteps
<1>3. (part = "activity" => ActInv) => SettledMissesNothing
  BY DEF ActInv, SettledMissesNothing, V!SettledMissesNothing
<1>4. QED
  BY <1>1, <1>2, <1>3, PTL DEF AllSpec

-----------------------------------------------------------------------------
(* Accounts: the links of an address.                                        *)

\* Who has not issued its link yet.
Early == {"new", "inserted", "issue"}

DeadAreUsed == \A l \in dead : link[l] = "used"
NotIssuedYet == \A q \in Callers : asking[q].pc \in Early => link[q] = "none"
SweepsLast == \A q \in Callers : asking[q].pc # "swept" => asking[q].swept = {}

\* What an open transaction has consumed is live for everyone else.
HeldAreLive ==
  \A q \in Callers : asking[q].pc \in U!InTx =>
    /\ asking[q].link \in Callers /\ link[asking[q].link] = "live"
    /\ \A l \in asking[q].swept : link[l] = "live"

\* A row is locked by one transaction.
HeldByOne ==
  \A p, q \in Callers : p # q =>
    \A l \in Callers : ~(U!HoldsLink(p, l) /\ U!HoldsLink(q, l))

LinksInv == DeadAreUsed /\ NotIssuedYet /\ SweepsLast /\ HeldAreLive /\ HeldByOne
AccountsInv == U!TypeOK /\ LinksInv

Places == {"idle", "new", "inserted", "issue", "apply", "audit", "mail", "over"} \cup U!InTx
Askers == Callers \cup {Reconciler}
Asking == [pc : Places, link : Callers \cup {NoLink}, swept : SUBSET Callers,
           tries : 0 .. Attempts, applied : BOOLEAN]

LEMMA FieldsStay ==
  ASSUME NEW q \in Asking
  PROVE  /\ \A at \in Places : [q EXCEPT !.pc = at] \in Asking
         /\ \A t \in 0 .. Attempts : [q EXCEPT !.tries = t] \in Asking
BY SMT DEF Asking

LEMMA NewIsARequest ==
  /\ U!Over.pc = "over" /\ U!Over.swept = {}
  /\ U!New \in Asking /\ U!Over \in Asking /\ [U!New EXCEPT !.pc = "idle"] \in Asking
  /\ [U!New EXCEPT !.pc = "issue"] \in Asking
  /\ \A t \in 0 .. Attempts : [U!New EXCEPT !.tries = t] \in Asking
<1>1. U!New \in Asking
  BY AccountsAssumption, SMT DEF U!AccountsAssumption, U!New, Asking, Places
<1>2. U!Over.pc = "over" /\ U!Over.swept = {}
  BY SMT DEF U!Over, U!New
<1> QED
  BY <1>1, <1>2, FieldsStay, SMT DEF U!Over, Places

\* A step of one request, field by field.
LEMMA FieldStays ==
  ASSUME NEW f \in [Askers -> Asking], NEW p \in Askers
  PROVE  /\ \A to \in Asking : [f EXCEPT ![p] = to] \in [Askers -> Asking]
         /\ \A at \in Places : [f EXCEPT ![p].pc = at] \in [Askers -> Asking]
         /\ \A l \in Callers : [f EXCEPT ![p].link = l] \in [Askers -> Asking]
         /\ \A ls \in SUBSET Callers : [f EXCEPT ![p].swept = ls] \in [Askers -> Asking]
         /\ \A ok \in BOOLEAN : [f EXCEPT ![p].applied = ok] \in [Askers -> Asking]
<1>1. ASSUME NEW to \in Asking PROVE [f EXCEPT ![p] = to] \in [Askers -> Asking]
  BY SMT
<1>2. ASSUME NEW at \in Places PROVE [f EXCEPT ![p].pc = at] \in [Askers -> Asking]
  BY SMT DEF Asking
<1>3. ASSUME NEW l \in Callers PROVE [f EXCEPT ![p].link = l] \in [Askers -> Asking]
  BY SMT DEF Asking
<1>4. ASSUME NEW ls \in SUBSET Callers PROVE [f EXCEPT ![p].swept = ls] \in [Askers -> Asking]
  BY SMT DEF Asking
<1>5. ASSUME NEW ok \in BOOLEAN PROVE [f EXCEPT ![p].applied = ok] \in [Askers -> Asking]
  BY SMT DEF Asking
<1> QED
  BY <1>1, <1>2, <1>3, <1>4, <1>5

LEMMA TwoFields ==
  ASSUME NEW f \in [Askers -> Asking], NEW p \in Askers, NEW at \in Places
  PROVE  /\ \A l \in Callers : [f EXCEPT ![p].pc = at, ![p].link = l] \in [Askers -> Asking]
         /\ \A ls \in SUBSET Callers :
              [f EXCEPT ![p].pc = at, ![p].swept = ls] \in [Askers -> Asking]
         /\ \A ok \in BOOLEAN : [f EXCEPT ![p].pc = at, ![p].applied = ok] \in [Askers -> Asking]
<1> DEFINE g == [f EXCEPT ![p].pc = at]
<1>1. g \in [Askers -> Asking]
  BY FieldStays
<1>2. /\ \A l \in Callers : [g EXCEPT ![p].link = l] \in [Askers -> Asking]
      /\ \A ls \in SUBSET Callers : [g EXCEPT ![p].swept = ls] \in [Askers -> Asking]
      /\ \A ok \in BOOLEAN : [g EXCEPT ![p].applied = ok] \in [Askers -> Asking]
  <2> HIDE DEF g
  <2> QED
    BY <1>1, FieldStays
<1>3. ASSUME NEW l \in Callers
      PROVE  [f EXCEPT ![p].pc = at, ![p].link = l] = [g EXCEPT ![p].link = l]
  BY SMT
<1>4. ASSUME NEW l \in SUBSET Callers
      PROVE  [f EXCEPT ![p].pc = at, ![p].swept = l] = [g EXCEPT ![p].swept = l]
  OBVIOUS
<1>5. ASSUME NEW l \in BOOLEAN
      PROVE  [f EXCEPT ![p].pc = at, ![p].applied = l] = [g EXCEPT ![p].applied = l]
  OBVIOUS
<1> HIDE DEF g
<1> QED
  BY <1>2, <1>3, <1>4, <1>5

LEMMA FieldIs ==
  ASSUME NEW f \in [Askers -> Asking], NEW p \in Askers, NEW v
  PROVE  /\ \A q \in Askers \ {p} :
              /\ [f EXCEPT ![p].pc = v][q] = f[q] /\ [f EXCEPT ![p].link = v][q] = f[q]
              /\ [f EXCEPT ![p].swept = v][q] = f[q] /\ [f EXCEPT ![p].applied = v][q] = f[q]
         /\ [f EXCEPT ![p].pc = v][p].pc = v
         /\ [f EXCEPT ![p].pc = v][p].link = f[p].link
         /\ [f EXCEPT ![p].pc = v][p].swept = f[p].swept
         /\ [f EXCEPT ![p].link = v][p].pc = f[p].pc
         /\ [f EXCEPT ![p].link = v][p].link = v
         /\ [f EXCEPT ![p].link = v][p].swept = f[p].swept
         /\ [f EXCEPT ![p].swept = v][p].pc = f[p].pc
         /\ [f EXCEPT ![p].swept = v][p].link = f[p].link
         /\ [f EXCEPT ![p].swept = v][p].swept = v
         /\ [f EXCEPT ![p].applied = v][p].pc = f[p].pc
         /\ [f EXCEPT ![p].applied = v][p].link = f[p].link
         /\ [f EXCEPT ![p].applied = v][p].swept = f[p].swept
BY SMT DEF Asking

LEMMA TwoFieldsAre ==
  ASSUME NEW f \in [Askers -> Asking], NEW p \in Askers, NEW at \in Places, NEW v
  PROVE  /\ \A q \in Askers \ {p} : /\ [f EXCEPT ![p].pc = at, ![p].link = v][q] = f[q]
                                    /\ [f EXCEPT ![p].pc = at, ![p].swept = v][q] = f[q]
                                    /\ [f EXCEPT ![p].pc = at, ![p].applied = v][q] = f[q]
         /\ [f EXCEPT ![p].pc = at, ![p].link = v][p].pc = at
         /\ [f EXCEPT ![p].pc = at, ![p].link = v][p].link = v
         /\ [f EXCEPT ![p].pc = at, ![p].link = v][p].swept = f[p].swept
         /\ [f EXCEPT ![p].pc = at, ![p].swept = v][p].pc = at
         /\ [f EXCEPT ![p].pc = at, ![p].swept = v][p].link = f[p].link
         /\ [f EXCEPT ![p].pc = at, ![p].swept = v][p].swept = v
         /\ [f EXCEPT ![p].pc = at, ![p].applied = v][p].pc = at
         /\ [f EXCEPT ![p].pc = at, ![p].applied = v][p].swept = f[p].swept
<1> DEFINE g == [f EXCEPT ![p].pc = at]
<1>1. /\ g \in [Askers -> Asking] /\ \A q \in Askers \ {p} : g[q] = f[q]
      /\ g[p].pc = at /\ g[p].link = f[p].link /\ g[p].swept = f[p].swept
  BY FieldStays, FieldIs
<1>2. /\ [f EXCEPT ![p].pc = at, ![p].link = v] = [g EXCEPT ![p].link = v]
      /\ [f EXCEPT ![p].pc = at, ![p].swept = v] = [g EXCEPT ![p].swept = v]
      /\ [f EXCEPT ![p].pc = at, ![p].applied = v] = [g EXCEPT ![p].applied = v]
  OBVIOUS
<1> HIDE DEF g
<1>3. /\ \A q \in Askers \ {p} : /\ [g EXCEPT ![p].link = v][q] = g[q]
                                 /\ [g EXCEPT ![p].swept = v][q] = g[q]
                                 /\ [g EXCEPT ![p].applied = v][q] = g[q]
      /\ [g EXCEPT ![p].link = v][p].pc = g[p].pc
      /\ [g EXCEPT ![p].link = v][p].link = v
      /\ [g EXCEPT ![p].link = v][p].swept = g[p].swept
      /\ [g EXCEPT ![p].swept = v][p].pc = g[p].pc
      /\ [g EXCEPT ![p].swept = v][p].link = g[p].link
      /\ [g EXCEPT ![p].swept = v][p].swept = v
      /\ [g EXCEPT ![p].applied = v][p].pc = g[p].pc
      /\ [g EXCEPT ![p].applied = v][p].swept = g[p].swept
  BY <1>1, FieldIs
<1> QED
  BY <1>1, <1>2, <1>3, Zenon

LEMMA AccountTypes0 == ASSUME U!Init PROVE U!TypeOK
<1>1. asking \in [Askers -> Asking]
  BY NewIsARequest, SMT DEF U!Init, Askers
<1>2. asking \in [Callers \cup {Reconciler} -> 
                [pc : {"idle", "new", "inserted", "issue", "apply", "audit", "mail", "over"} \cup U!InTx,
                 link : Callers \cup {NoLink}, swept : SUBSET Callers,
                 tries : 0 .. Attempts, applied : BOOLEAN]]
  BY <1>1 DEF Askers, Asking, Places
<1>3. /\ person \in [exists : BOOLEAN, verified : BOOLEAN]
      /\ link \in [Callers -> {"none", "live", "used", "expired"}]
  BY SMT DEF U!Init
<1>4. mishaps \in 0 .. MaxMishaps
  BY AccountsAssumption, SMT DEF U!Init, U!AccountsAssumption
<1> QED
  BY <1>2, <1>3, <1>4, Zenon DEF U!Init, U!TypeOK

LEMMA RequestsAreTyped ==
  ASSUME AccountsInv, AccountsMove
  PROVE  asking' \in [Askers -> Asking]
<1>0. asking \in [Askers -> Asking] /\ HeldAreLive /\ Callers \subseteq Askers
  BY DEF AccountsInv, LinksInv, U!TypeOK, Askers, Asking, Places
<1>0a. {"idle", "issue", "inserted", "apply", "audit", "mail", "over", "consumed", "updated", "swept"}
        \subseteq Places
  BY DEF Places, U!InTx
<1> USE <1>0
<1>1. ASSUME NEW r \in Callers, U!InsertUser(r) PROVE asking' \in [Askers -> Asking]
  <2>1. [asking[r] EXCEPT !.pc = "inserted"] \in Asking
    BY <1>0a, FieldsStay
  <2>2. asking' = [asking EXCEPT ![r] = U!Over]
        \/ asking' = [asking EXCEPT ![r] = [asking[r] EXCEPT !.pc = "inserted"]]
    BY <1>1 DEF U!InsertUser
  <2> QED
    BY <2>1, <2>2, NewIsARequest, FieldStays
<1>2. ASSUME NEW r \in Callers, U!SlugTaken(r) PROVE asking' \in [Askers -> Asking]
  <2>1. ASSUME U!GivesUp(r) PROVE asking' \in [Askers -> Asking]
    BY <1>2, <2>1, NewIsARequest, FieldStays DEF U!SlugTaken
  <2>2. ASSUME ~U!GivesUp(r) PROVE asking' \in [Askers -> Asking]
    <3>1. asking[r].tries + 1 \in 0 .. Attempts
      BY <2>2, AccountsAssumption, SMT DEF U!GivesUp, Asking, U!AccountsAssumption
    <3> QED
      BY <1>2, <2>2, <3>1, NewIsARequest, FieldStays DEF U!SlugTaken
  <2> QED
    BY <2>1, <2>2
<1>3. ASSUME NEW r \in Callers, U!CommitSignup(r) PROVE asking' \in [Askers -> Asking]
  BY <1>3, NewIsARequest, FieldStays DEF U!CommitSignup
<1>4. ASSUME NEW r \in Callers, U!Issue(r) PROVE asking' \in [Askers -> Asking]
  BY <1>0a, <1>4, FieldStays DEF U!Issue, U!At
<1>5. ASSUME NEW r \in Callers, U!Mail(r) PROVE asking' \in [Askers -> Asking]
  BY <1>0a, <1>5, FieldStays DEF U!Mail, U!At
<1>6. ASSUME NEW r \in Callers, U!Forgot(r) PROVE asking' \in [Askers -> Asking]
  BY <1>0a, <1>6, FieldStays DEF U!Forgot, U!At
<1>7. ASSUME NEW r \in Callers, U!Consume(r) PROVE asking' \in [Askers -> Asking]
  <2>1. PICK l \in Callers :
          asking' = IF U!Redeems(l)
                    THEN [asking EXCEPT ![r].pc = "consumed", ![r].link = l]
                    ELSE [asking EXCEPT ![r].pc = "over"]
    BY <1>7, Zenon DEF U!Consume, U!Links, U!Of
  <2>2. "consumed" \in Places /\ "over" \in Places
    BY DEF Places, U!InTx
  <2> QED
    BY <2>1, <2>2, FieldStays, TwoFields, Zenon
<1>8. ASSUME NEW r \in Callers, U!UpdateUser(r) PROVE asking' \in [Askers -> Asking]
  BY <1>0a, <1>8, FieldStays DEF U!UpdateUser, U!At
<1>9. ASSUME NEW r \in Callers, U!Invalidate(r) PROVE asking' \in [Askers -> Asking]
  <2>1. "swept" \in Places /\ U!Outstanding \ {asking[r].link} \in SUBSET Callers
    BY DEF Places, U!InTx, U!Outstanding, U!Of
  <2> QED
    <3> DEFINE ls == U!Outstanding \ {asking[r].link}
    <3>1. ls \in SUBSET Callers /\ asking' = [asking EXCEPT ![r].pc = "swept", ![r].swept = ls]
      BY <1>9, <2>1 DEF U!Invalidate
    <3> HIDE DEF ls
    <3> QED
      BY <2>1, <3>1, TwoFields
<1>10. ASSUME NEW r \in Callers,
              U!Commits(r) \/ U!Deadlock(r) \/ U!Ends(r) \/ U!CommitLost(r)
       PROVE  asking' \in [Askers -> Asking]
  <2>1. asking' = [asking EXCEPT ![r] = U!Over]
    BY <1>10, Zenon DEF U!Commits, U!Deadlock, U!Ends, U!CommitLost
  <2> QED
    BY <2>1, NewIsARequest, FieldStays
<1>11. ASSUME NEW r \in Callers, U!Expires(r) PROVE asking' \in [Askers -> Asking]
  BY <1>11 DEF U!Expires
<1>12. ASSUME NEW p \in Askers, U!Provisions(p) \/ U!ApplyFails(p) \/ U!AuditFails(p)
       PROVE  asking' \in [Askers -> Asking]
  <2>1. PICK at \in Places, ok \in BOOLEAN :
          asking' = [asking EXCEPT ![p].pc = at, ![p].applied = ok]
    <3>1. "audit" \in Places /\ U!AfterAudit(p) \in Places
      BY SMT DEF Places, U!AfterAudit
    <3> QED
      BY <1>12, <3>1, Zenon
         DEF U!Provisions, U!Apply, U!Applied, U!Audit, U!ApplyFails, U!AuditFails
  <2> QED
    BY <2>1, TwoFields
<1>13. CASE U!Reconcile
  BY <1>0a, <1>13, FieldStays DEF U!Reconcile, U!At, Askers
<1>14. CASE U!Restart
  BY <1>14, NewIsARequest, SMT DEF U!Restart, Askers
<1> QED
  BY <1>1, <1>2, <1>3, <1>4, <1>5, <1>6, <1>7, <1>8, <1>9, <1>10, <1>11, <1>12, <1>13, <1>14,
     Zenon DEF AccountsMove, U!Next, U!Works, Askers

\* The types of everything but the requests.
TablesTyped ==
  /\ person \in [exists : BOOLEAN, verified : BOOLEAN]
  /\ link \in [Callers -> {"none", "live", "used", "expired"}]
  /\ mailed \subseteq Callers /\ dead \subseteq Callers
  /\ outcome \in {"none", "provisioned", "failed"} /\ walls \in BOOLEAN
  /\ mishaps \in 0 .. MaxMishaps

LEMMA AccountStays ==
  ASSUME NEW a \in [exists : BOOLEAN, verified : BOOLEAN]
  PROVE  /\ [a EXCEPT !.exists = TRUE] \in [exists : BOOLEAN, verified : BOOLEAN]
         /\ [a EXCEPT !.verified = TRUE] \in [exists : BOOLEAN, verified : BOOLEAN]
BY Zenon

LEMMA TypesAre == U!TypeOK <=> TablesTyped /\ asking \in [Askers -> Asking]
BY DEF U!TypeOK, TablesTyped, Askers, Asking, Places

LEMMA TablesStayTyped ==
  ASSUME AccountsInv, AccountsMove
  PROVE  TablesTyped'
<1>0. TablesTyped /\ HeldAreLive
  BY TypesAre DEF AccountsInv, LinksInv
<1>0a. ASSUME U!Trouble PROVE mishaps' \in 0 .. MaxMishaps
  BY <1>0, <1>0a, AccountsAssumption, SMT DEF U!Trouble, U!AccountsAssumption, TablesTyped
<1> USE <1>0 DEF TablesTyped
<1>1. ASSUME NEW r \in Callers,
             \/ U!InsertUser(r) \/ U!SlugTaken(r) \/ U!Forgot(r) \/ U!Consume(r)
             \/ U!UpdateUser(r) \/ U!Invalidate(r) \/ U!Deadlock(r)
      PROVE  TablesTyped'
  <2>1. UNCHANGED <<person, link, mailed, outcome, walls, dead, mishaps>>
    BY <1>1, Zenon DEF U!InsertUser, U!SlugTaken, U!Forgot, U!Consume, U!UpdateUser,
                       U!Invalidate, U!Deadlock
  <2> QED
    BY <2>1
<1>2. ASSUME NEW r \in Callers, U!CommitSignup(r) \/ U!CommitLost(r) PROVE TablesTyped'
  <2>1. mishaps' \in 0 .. MaxMishaps
    BY <1>0a, <1>2 DEF U!CommitSignup, U!CommitLost
  <2>2. /\ person' = [person EXCEPT !.exists = TRUE]
        /\ UNCHANGED <<link, mailed, outcome, walls, dead>>
    BY <1>2 DEF U!CommitSignup, U!CommitLost
  <2> QED
    BY <2>1, <2>2, AccountStays
<1>3. ASSUME NEW r \in Callers, U!Issue(r) \/ U!Expires(r) PROVE TablesTyped'
  BY <1>3, SMT DEF U!Issue, U!Expires
<1>4. ASSUME NEW r \in Callers, U!Mail(r) PROVE TablesTyped'
  BY <1>4, SMT DEF U!Mail
<1>5. ASSUME NEW r \in Callers, U!Commits(r) PROVE TablesTyped'
  <2>1. link' \in [Callers -> {"none", "live", "used", "expired"}]
    BY <1>5, SMT DEF U!Commits, U!Consumed
  <2>2. dead' \subseteq Callers
    <3>1. asking[r].pc \in U!InTx
      BY <1>5, SMT DEF U!Commits, U!InTx
    <3>2. asking[r].swept \subseteq Callers
      BY TypesAre, SMT DEF AccountsInv, Asking, Askers
    <3>3. U!Redeemed(r) \subseteq Callers
      BY <3>1, <3>2 DEF HeldAreLive, U!Redeemed
    <3> QED
      BY <1>5, <3>3, SMT DEF U!Commits
  <2>3. person' \in [exists : BOOLEAN, verified : BOOLEAN]
    BY <1>5, AccountStays DEF U!Commits
  <2> QED
    BY <1>5, <2>1, <2>2, <2>3 DEF U!Commits
<1>6. ASSUME NEW r \in Callers, U!Ends(r) PROVE TablesTyped'
  BY <1>0a, <1>6 DEF U!Ends
<1>7. ASSUME NEW p \in Askers, U!Apply(p) \/ U!Audit(p) PROVE TablesTyped'
  BY <1>7, Zenon DEF U!Apply, U!Audit
<1>8. ASSUME NEW p \in Askers, U!ApplyFails(p) PROVE TablesTyped'
  <2>1. walls' \in BOOLEAN
    BY <1>8, Zenon DEF U!ApplyFails
  <2> QED
    BY <1>0a, <1>8, <2>1, Zenon DEF U!ApplyFails
<1>9. ASSUME NEW p \in Askers, U!AuditFails(p) PROVE TablesTyped'
  BY <1>0a, <1>9 DEF U!AuditFails
<1>10. CASE U!Reconcile
  BY <1>10 DEF U!Reconcile
<1>11. CASE U!Restart
  BY <1>0a, <1>11 DEF U!Restart
<1> QED
  BY <1>1, <1>2, <1>3, <1>4, <1>5, <1>6, <1>7, <1>8, <1>9, <1>10, <1>11, Zenon
     DEF AccountsMove, U!Next, U!Works, U!Provisions, Askers

-----------------------------------------------------------------------------
(* The steps that leave the links alone.                                     *)

\* A request is where it was with its links, or outside any transaction on them.
Holds(q) == /\ asking'[q].pc = asking[q].pc /\ asking'[q].link = asking[q].link
            /\ asking'[q].swept = asking[q].swept
Rests(q) == /\ asking'[q].pc \notin U!InTx /\ asking'[q].swept = {}
            /\ asking'[q].pc \in Early => asking[q].pc \in Early

LEMMA QuietKeeps ==
  ASSUME LinksInv, UNCHANGED <<link, dead>>, \A q \in Callers : Holds(q) \/ Rests(q)
  PROVE  LinksInv'
<1>1. DeadAreUsed' /\ NotIssuedYet'
  BY SMT DEF LinksInv, DeadAreUsed, NotIssuedYet, Holds, Rests
<1>2. SweepsLast'
  BY SMT DEF LinksInv, SweepsLast, Holds, Rests
<1>3. HeldAreLive'
  BY SMT DEF LinksInv, HeldAreLive, Holds, Rests
<1>4. \A q \in Callers, l \in Callers : U!HoldsLink(q, l)' => U!HoldsLink(q, l)
  BY SMT DEF U!HoldsLink, Holds, Rests
<1>5. HeldByOne'
  BY <1>4, SMT DEF LinksInv, HeldByOne
<1> QED
  BY <1>1, <1>2, <1>3, <1>5 DEF LinksInv

\* One request leaves its place.
LEMMA QuietStep ==
  ASSUME AccountsInv, NEW p \in Askers, UNCHANGED <<link, dead>>,
         \A q \in Callers \ {p} : asking'[q] = asking[q],
         p \in Callers => /\ asking'[p].pc \notin U!InTx /\ asking'[p].swept = {}
                          /\ asking'[p].pc \in Early => asking[p].pc \in Early
  PROVE  LinksInv'
<1>1. \A q \in Callers : Holds(q) \/ Rests(q)
  BY SMT DEF Holds, Rests
<1> QED
  BY <1>1, QuietKeeps DEF AccountsInv

\* One request leaves its place, and the links that it held.
LEMMA OverIsQuiet ==
  ASSUME AccountsInv, NEW p \in Callers, UNCHANGED <<link, dead>>,
         asking' = [asking EXCEPT ![p] = U!Over]
  PROVE  LinksInv'
<1>1. asking \in [Askers -> Asking] /\ p \in Askers
  BY TypesAre DEF AccountsInv, Askers
<1>2. asking'[p] = U!Over /\ \A q \in Callers \ {p} : asking'[q] = asking[q]
  BY <1>1, SMT DEF Askers
<1> QED
  BY <1>1, <1>2, NewIsARequest, QuietStep DEF U!InTx, Early

LEMMA QuietSteps ==
  ASSUME AccountsInv, NEW r \in Callers,
         \/ U!InsertUser(r) \/ U!SlugTaken(r) \/ U!CommitSignup(r) \/ U!Mail(r) \/ U!Forgot(r)
         \/ U!Deadlock(r) \/ U!Ends(r) \/ U!CommitLost(r)
  PROVE  LinksInv'
<1>1. /\ asking \in [Askers -> Asking] /\ Callers \subseteq Askers
      /\ asking[r].pc # "swept" => asking[r].swept = {}
      /\ UNCHANGED <<link, dead>>
  <2>1. UNCHANGED <<link, dead>>
    BY Zenon DEF U!InsertUser, U!SlugTaken, U!CommitSignup, U!Mail, U!Forgot,
                 U!Deadlock, U!Ends, U!CommitLost
  <2> QED
    BY <2>1, TypesAre DEF AccountsInv, LinksInv, SweepsLast, Askers
<1>2. CASE asking' = [asking EXCEPT ![r] = U!Over]
  BY <1>1, <1>2, OverIsQuiet
<1>3. ASSUME U!InsertUser(r), asking' # [asking EXCEPT ![r] = U!Over] PROVE LinksInv'
  <2>1. asking[r].pc = "new" /\ asking' = [asking EXCEPT ![r] = [asking[r] EXCEPT !.pc = "inserted"]]
    BY <1>3 DEF U!InsertUser
  <2>2. /\ asking'[r].pc = "inserted" /\ asking'[r].swept = {}
        /\ \A q \in Callers \ {r} : asking'[q] = asking[q]
    BY <1>1, <2>1, SMT DEF Asking
  <2> QED
    BY <1>1, <2>1, <2>2, QuietStep DEF U!InTx, Early
<1>4. ASSUME U!SlugTaken(r), asking' # [asking EXCEPT ![r] = U!Over] PROVE LinksInv'
  <2>1. /\ asking[r].pc = "inserted"
        /\ asking' = [asking EXCEPT ![r] = [U!New EXCEPT !.tries = asking[r].tries + 1]]
    BY <1>4 DEF U!SlugTaken
  <2>2. /\ asking'[r].pc = "new" /\ asking'[r].swept = {}
        /\ \A q \in Callers \ {r} : asking'[q] = asking[q]
    BY <1>1, <2>1, SMT DEF Asking, U!New
  <2> QED
    BY <1>1, <2>1, <2>2, QuietStep DEF U!InTx, Early
<1>5. ASSUME U!CommitSignup(r) PROVE LinksInv'
  <2>1. /\ asking[r].pc = "inserted"
        /\ asking' = [asking EXCEPT ![r] = [U!New EXCEPT !.pc = "issue"]]
    BY <1>5 DEF U!CommitSignup
  <2>2. /\ asking'[r].pc = "issue" /\ asking'[r].swept = {}
        /\ \A q \in Callers \ {r} : asking'[q] = asking[q]
    BY <1>1, <2>1, SMT DEF Asking, U!New
  <2> QED
    BY <1>1, <2>1, <2>2, QuietStep DEF U!InTx, Early
<1>6. ASSUME U!Mail(r) \/ U!Forgot(r) PROVE LinksInv'
  <2>1. PICK at \in {"over", "issue"} : asking' = [asking EXCEPT ![r].pc = at]
    BY <1>6, SMT DEF U!Mail, U!Forgot, U!At
  <2>2. /\ at = "issue" => asking[r].pc = "new"
        /\ asking[r].pc \in {"new", "mail"}
    BY <1>6, <2>1, <1>1, SMT DEF U!Mail, U!Forgot, U!At, Asking
  <2>3. /\ asking'[r].pc = at /\ asking'[r].swept = {}
        /\ \A q \in Callers \ {r} : asking'[q] = asking[q]
    BY <1>1, <2>1, <2>2, FieldIs, SMT
  <2> QED
    BY <1>1, <2>2, <2>3, QuietStep, SMT DEF U!InTx, Early
<1> QED
  BY <1>2, <1>3, <1>4, <1>5, <1>6, Zenon DEF U!Deadlock, U!Ends, U!CommitLost

LEMMA ProvisionsAreQuiet ==
  ASSUME AccountsInv, NEW p \in Askers, U!Provisions(p) \/ U!ApplyFails(p) \/ U!AuditFails(p)
  PROVE  LinksInv'
<1>1. asking \in [Askers -> Asking] /\ Callers \subseteq Askers
  BY TypesAre DEF AccountsInv, Askers
<1>2. asking[p].pc \in {"apply", "audit"} /\ UNCHANGED <<link, dead>>
  BY Zenon DEF U!Provisions, U!Apply, U!Audit, U!ApplyFails, U!AuditFails
<1>3. PICK at \in {"audit", "idle", "mail"}, ok \in BOOLEAN :
        asking' = [asking EXCEPT ![p].pc = at, ![p].applied = ok]
  <2>1. U!AfterAudit(p) \in {"audit", "idle", "mail"}
    BY DEF U!AfterAudit
  <2> QED
    BY <2>1, Zenon
       DEF U!Provisions, U!Apply, U!Applied, U!Audit, U!ApplyFails, U!AuditFails
<1>4. at \in Places /\ at \notin U!InTx /\ at \notin Early
  BY DEF Places, U!InTx, Early
<1>5. /\ asking'[p].pc = at /\ asking'[p].swept = asking[p].swept
      /\ \A q \in Callers \ {p} : asking'[q] = asking[q]
  <2>1. /\ asking'[p].pc = at /\ asking'[p].swept = asking[p].swept
        /\ \A q \in Askers \ {p} : asking'[q] = asking[q]
    BY <1>1, <1>3, <1>4, TwoFieldsAre
  <2> QED
    BY <1>1, <2>1
<1>6. p \in Callers => asking[p].swept = {}
  BY <1>2 DEF AccountsInv, LinksInv, SweepsLast
<1> QED
  BY <1>2, <1>4, <1>5, <1>6, QuietStep

LEMMA BackgroundIsQuiet ==
  ASSUME AccountsInv, U!Reconcile \/ U!Restart
  PROVE  LinksInv'
<1>1. asking \in [Askers -> Asking] /\ UNCHANGED <<link, dead>> /\ LinksInv
  BY TypesAre DEF AccountsInv, U!Reconcile, U!Restart
<1>2. CASE U!Reconcile
  <2>1. Reconciler \notin Callers /\ Reconciler \in Askers
    BY AccountsAssumption DEF U!AccountsAssumption, Askers
  <2>2. \A q \in Callers \ {Reconciler} : asking'[q] = asking[q]
    BY <1>1, <1>2, SMT DEF U!Reconcile, U!At, Askers
  <2> QED
    BY <1>1, <2>1, <2>2, QuietStep
<1>3. CASE U!Restart
  <2>1. \A q \in Callers : Holds(q) \/ Rests(q)
    <3>1. TAKE q \in Callers
    <3>2. q # Reconciler
      BY AccountsAssumption DEF U!AccountsAssumption
    <3>3. asking'[q] = asking[q] \/ asking'[q] = U!Over
      BY <1>3, <3>2, SMT DEF U!Restart
    <3> QED
      BY <3>3, NewIsARequest DEF Holds, Rests, U!InTx, Early
  <2> QED
    BY <1>1, <2>1, QuietKeeps
<1> QED
  BY <1>2, <1>3

-----------------------------------------------------------------------------
(* The steps on the links.                                                   *)

LEMMA IssueKeeps ==
  ASSUME AccountsInv, NEW r \in Callers, U!Issue(r) PROVE LinksInv'
<1>1. /\ asking \in [Askers -> Asking] /\ Callers \subseteq Askers
      /\ link \in [Callers -> {"none", "live", "used", "expired"}]
      /\ DeadAreUsed /\ NotIssuedYet /\ SweepsLast /\ HeldAreLive /\ HeldByOne
  BY TypesAre DEF AccountsInv, LinksInv, TablesTyped, Askers
<1>2. /\ asking[r].pc = "issue" /\ link[r] = "none" /\ asking[r].swept = {}
      /\ link' = [link EXCEPT ![r] = "live"] /\ dead' = dead
  BY <1>1 DEF U!Issue, NotIssuedYet, SweepsLast, Early
<1>3. PICK at \in {"apply", "mail"} : asking' = [asking EXCEPT ![r].pc = at]
  BY DEF U!Issue, U!At
<1>4. \A q \in Callers : IF q = r THEN Rests(q) /\ asking'[q].pc \notin Early
                                  ELSE asking'[q] = asking[q]
  BY <1>1, <1>2, <1>3, FieldIs, SMT DEF Rests, U!InTx, Early
<1>5. DeadAreUsed'
  BY <1>1, <1>2, SMT DEF DeadAreUsed
<1>6. NotIssuedYet' /\ SweepsLast'
  BY <1>1, <1>2, <1>4, SMT DEF NotIssuedYet, SweepsLast, Rests
<1>7. HeldAreLive'
  BY <1>1, <1>2, <1>4, SMT DEF HeldAreLive, Rests
<1>8. HeldByOne'
  BY <1>1, <1>4, SMT DEF HeldByOne, U!HoldsLink, Rests
<1> QED
  BY <1>5, <1>6, <1>7, <1>8 DEF LinksInv

LEMMA ConsumeKeeps ==
  ASSUME AccountsInv, NEW r \in Callers, U!Consume(r) PROVE LinksInv'
<1>1. /\ asking \in [Askers -> Asking] /\ r \in Askers /\ Callers \subseteq Askers
      /\ DeadAreUsed /\ NotIssuedYet /\ SweepsLast /\ HeldAreLive /\ HeldByOne
  BY TypesAre DEF AccountsInv, LinksInv, Askers
<1>2. /\ asking[r].pc = "new" /\ asking[r].swept = {} /\ UNCHANGED <<link, dead>>
  BY <1>1 DEF U!Consume, SweepsLast
<1>3. PICK l \in Callers :
        /\ U!Free(r, l)
        /\ asking' = IF U!Redeems(l)
                     THEN [asking EXCEPT ![r].pc = "consumed", ![r].link = l]
                     ELSE [asking EXCEPT ![r].pc = "over"]
  BY Zenon DEF U!Consume, U!Links, U!Of
<1>4. CASE ~U!Redeems(l)
  <2>1. /\ asking'[r].pc = "over" /\ asking'[r].swept = {}
        /\ \A q \in Callers \ {r} : asking'[q] = asking[q]
    BY <1>1, <1>2, <1>3, <1>4, FieldIs
  <2> QED
    BY <1>1, <1>2, <2>1, QuietStep DEF U!InTx, Early
<1>5. CASE U!Redeems(l)
  <2>0. "consumed" \in Places
    BY DEF Places, U!InTx
  <2>1. /\ asking'[r].pc = "consumed" /\ asking'[r].link = l /\ asking'[r].swept = {}
        /\ \A q \in Askers \ {r} : asking'[q] = asking[q]
    BY <1>1, <1>2, <1>3, <1>5, <2>0, TwoFieldsAre
  <2>2. DeadAreUsed' /\ NotIssuedYet' /\ SweepsLast'
    BY <1>1, <1>2, <2>1, SMT DEF DeadAreUsed, NotIssuedYet, SweepsLast, Early
  <2>3. HeldAreLive'
    BY <1>1, <1>2, <1>5, <2>1, SMT DEF HeldAreLive, U!Redeems
  <2>4. \A q \in Callers \ {r}, k \in Callers : U!HoldsLink(q, k)' <=> U!HoldsLink(q, k)
    BY <1>1, <2>1, SMT DEF U!HoldsLink
  <2>5. \A k \in Callers : U!HoldsLink(r, k)' => k = l
    BY <2>1, SMT DEF U!HoldsLink
  <2>6. \A q \in Callers \ {r} : ~U!HoldsLink(q, l)'
    BY <1>3, <2>4 DEF U!Free
  <2>7. HeldByOne'
    BY <1>1, <2>4, <2>5, <2>6, Zenon DEF HeldByOne
  <2> QED
    BY <2>2, <2>3, <2>7 DEF LinksInv
<1> QED
  BY <1>4, <1>5

LEMMA UpdateKeeps ==
  ASSUME AccountsInv, NEW r \in Callers, U!UpdateUser(r) PROVE LinksInv'
<1>1. /\ asking \in [Askers -> Asking] /\ r \in Askers /\ Callers \subseteq Askers
      /\ DeadAreUsed /\ NotIssuedYet /\ SweepsLast /\ HeldAreLive /\ HeldByOne
  BY TypesAre DEF AccountsInv, LinksInv, Askers
<1>2. /\ asking[r].pc = "consumed" /\ asking' = [asking EXCEPT ![r].pc = "updated"]
      /\ UNCHANGED <<link, dead>>
  BY DEF U!UpdateUser, U!At
<1>3. /\ asking'[r].pc = "updated" /\ asking'[r].link = asking[r].link
      /\ asking'[r].swept = asking[r].swept
      /\ \A q \in Askers \ {r} : asking'[q] = asking[q]
  BY <1>1, <1>2, FieldIs
<1>4. DeadAreUsed' /\ NotIssuedYet' /\ SweepsLast'
  BY <1>1, <1>2, <1>3, SMT DEF DeadAreUsed, NotIssuedYet, SweepsLast, Early
<1>5. HeldAreLive'
  BY <1>1, <1>2, <1>3, SMT DEF HeldAreLive, U!InTx
<1>6. \A q \in Callers, l \in Callers : U!HoldsLink(q, l)' <=> U!HoldsLink(q, l)
  BY <1>1, <1>2, <1>3, SMT DEF U!HoldsLink, U!InTx
<1>7. HeldByOne'
  BY <1>1, <1>6, Zenon DEF HeldByOne
<1> QED
  BY <1>4, <1>5, <1>7 DEF LinksInv

LEMMA InvalidateKeeps ==
  ASSUME AccountsInv, NEW r \in Callers, U!Invalidate(r) PROVE LinksInv'
<1>1. /\ asking \in [Askers -> Asking] /\ r \in Askers /\ Callers \subseteq Askers
      /\ DeadAreUsed /\ NotIssuedYet /\ SweepsLast /\ HeldAreLive /\ HeldByOne
  BY TypesAre DEF AccountsInv, LinksInv, Askers
<1> DEFINE ls == U!Outstanding \ {asking[r].link}
<1>2. /\ asking[r].pc = "updated" /\ UNCHANGED <<link, dead>>
      /\ asking' = [asking EXCEPT ![r].pc = "swept", ![r].swept = ls]
  BY DEF U!Invalidate
<1>3. \A l \in ls : /\ l \in Callers /\ link[l] = "live"
                    /\ \A q \in Callers \ {r} : ~U!HoldsLink(q, l)
  BY DEF U!Invalidate, U!Outstanding, U!Of, U!Free
<1> HIDE DEF ls
<1>4. "swept" \in Places
  BY DEF Places, U!InTx
<1>5. /\ asking'[r].pc = "swept" /\ asking'[r].link = asking[r].link /\ asking'[r].swept = ls
      /\ \A q \in Askers \ {r} : asking'[q] = asking[q]
  BY <1>1, <1>2, <1>4, TwoFieldsAre
<1>6. DeadAreUsed' /\ NotIssuedYet' /\ SweepsLast'
  BY <1>1, <1>2, <1>5, SMT DEF DeadAreUsed, NotIssuedYet, SweepsLast, Early
<1>7. HeldAreLive'
  BY <1>1, <1>2, <1>3, <1>5, SMT DEF HeldAreLive, U!InTx
<1>8. \A q \in Callers \ {r}, l \in Callers : U!HoldsLink(q, l)' <=> U!HoldsLink(q, l)
  BY <1>1, <1>5, SMT DEF U!HoldsLink
<1>9. \A l \in Callers : U!HoldsLink(r, l)' => U!HoldsLink(r, l) \/ l \in ls
  BY <1>2, <1>5, SMT DEF U!HoldsLink, U!InTx
<1>10. HeldByOne'
  BY <1>1, <1>3, <1>8, <1>9, Zenon DEF HeldByOne
<1> QED
  BY <1>6, <1>7, <1>10 DEF LinksInv

\* A commit uses up what its transaction holds, and nobody else holds any of it.
LEMMA CommitKeeps ==
  ASSUME AccountsInv, NEW r \in Callers, U!Commits(r) PROVE LinksInv'
<1>1. /\ asking \in [Askers -> Asking] /\ r \in Askers /\ Callers \subseteq Askers
      /\ link \in [Callers -> {"none", "live", "used", "expired"}] /\ dead \subseteq Callers
      /\ DeadAreUsed /\ NotIssuedYet /\ SweepsLast /\ HeldAreLive /\ HeldByOne
  BY TypesAre DEF AccountsInv, LinksInv, TablesTyped, Askers
<1>2. asking[r].pc \in U!InTx
  BY SMT DEF U!Commits, U!InTx
<1>3. asking'[r] = U!Over /\ \A q \in Callers \ {r} : asking'[q] = asking[q]
  BY <1>1, SMT DEF U!Commits
<1>4. \A l \in Callers : link'[l] = IF l \in U!Redeemed(r) THEN "used" ELSE link[l]
  BY Zenon DEF U!Commits, U!Consumed
<1>5. dead' = dead \/ dead' = dead \cup U!Redeemed(r)
  BY DEF U!Commits
<1>6. \A l \in Callers : l \in U!Redeemed(r) <=> U!HoldsLink(r, l)
  BY <1>2 DEF U!Redeemed, U!HoldsLink
<1>7. U!Redeemed(r) \subseteq Callers /\ \A l \in U!Redeemed(r) : link[l] = "live"
  BY <1>1, <1>2, SMT DEF U!Redeemed, HeldAreLive, Asking
<1>8. U!Over.pc \notin U!InTx \cup Early /\ U!Over.swept = {}
  BY NewIsARequest DEF U!InTx, Early
<1>9. DeadAreUsed'
  BY <1>1, <1>4, <1>5, <1>7, SMT DEF DeadAreUsed
<1>10. NotIssuedYet' /\ SweepsLast'
  BY <1>1, <1>3, <1>4, <1>7, <1>8, SMT DEF NotIssuedYet, SweepsLast
<1>11. \A q \in Callers, l \in Callers :
         U!HoldsLink(q, l)' => q # r /\ U!HoldsLink(q, l)
  BY <1>3, <1>8, SMT DEF U!HoldsLink
<1>12. HeldAreLive'
  <2>1. SUFFICES ASSUME NEW q \in Callers, asking'[q].pc \in U!InTx
                 PROVE  /\ asking'[q].link \in Callers /\ link'[asking'[q].link] = "live"
                        /\ \A l \in asking'[q].swept : link'[l] = "live"
    BY DEF HeldAreLive
  <2>2. q # r /\ asking'[q] = asking[q]
    BY <1>3, <1>8, <2>1
  <2>3. asking[q].swept \subseteq Callers
    BY <1>1, SMT DEF Asking
  <2>4. \A l \in Callers : U!HoldsLink(q, l) => l \notin U!Redeemed(r)
    BY <1>1, <1>6, <2>2 DEF HeldByOne
  <2>5. /\ asking[q].link \in Callers /\ link[asking[q].link] = "live"
        /\ \A l \in asking[q].swept : link[l] = "live"
    BY <1>1, <2>1, <2>2 DEF HeldAreLive
  <2>6. \A l \in {asking[q].link} \cup asking[q].swept : l \in Callers /\ U!HoldsLink(q, l)
    BY <2>1, <2>2, <2>3, <2>5 DEF U!HoldsLink
  <2> QED
    BY <1>4, <2>2, <2>4, <2>5, <2>6
<1>13. HeldByOne'
  BY <1>1, <1>11, Zenon DEF HeldByOne
<1> QED
  BY <1>9, <1>10, <1>12, <1>13 DEF LinksInv

LEMMA ExpiryKeeps ==
  ASSUME AccountsInv, NEW r \in Callers, U!Expires(r) PROVE LinksInv'
<1>1. /\ asking \in [Askers -> Asking] /\ Callers \subseteq Askers
      /\ link \in [Callers -> {"none", "live", "used", "expired"}]
      /\ DeadAreUsed /\ NotIssuedYet /\ SweepsLast /\ HeldAreLive /\ HeldByOne
  BY TypesAre DEF AccountsInv, LinksInv, TablesTyped, Askers
<1>2. /\ link[r] = "live" /\ \A q \in Callers : ~U!HoldsLink(q, r)
      /\ link' = [link EXCEPT ![r] = "expired"] /\ UNCHANGED <<asking, dead>>
  BY DEF U!Expires
<1>3. DeadAreUsed' /\ NotIssuedYet' /\ SweepsLast' /\ HeldByOne'
  BY <1>1, <1>2, SMT
     DEF DeadAreUsed, NotIssuedYet, SweepsLast, HeldByOne, Early, U!HoldsLink
<1>4. HeldAreLive'
  BY <1>1, <1>2, SMT DEF HeldAreLive, U!HoldsLink
<1> QED
  BY <1>3, <1>4 DEF LinksInv

LEMMA AccountsBegins == ASSUME AccountsBegin PROVE AccountsInv
<1>1. U!TypeOK
  BY AccountTypes0 DEF AccountsBegin
<1>2. /\ asking \in [Askers -> Asking] /\ dead = {}
      /\ \A q \in Callers : asking[q] = U!New /\ link[q] = "none"
  BY <1>1, TypesAre, AccountsAssumption, SMT DEF AccountsBegin, U!Init, U!AccountsAssumption
<1>3. U!New.pc = "new" /\ U!New.swept = {} /\ "new" \notin U!InTx
  BY DEF U!New, U!InTx
<1>4. LinksInv
  BY <1>2, <1>3, SMT DEF LinksInv, DeadAreUsed, NotIssuedYet, SweepsLast, HeldAreLive, HeldByOne,
                         U!HoldsLink
<1> QED
  BY <1>1, <1>4 DEF AccountsInv

LEMMA AccountsStep ==
  ASSUME AccountsInv, [AccountsMove]_accountVars PROVE AccountsInv'
<1>1. CASE AccountsMove
  <2>1. U!TypeOK'
    <3>1. TablesTyped' /\ asking' \in [Askers -> Asking]
      BY <1>1, RequestsAreTyped, TablesStayTyped
    <3> QED
      BY <3>1 DEF U!TypeOK, TablesTyped, Askers, Asking, Places
  <2>2. LinksInv'
    BY <1>1, QuietSteps, ProvisionsAreQuiet, BackgroundIsQuiet, IssueKeeps, ConsumeKeeps,
       UpdateKeeps, InvalidateKeeps, CommitKeeps, ExpiryKeeps, Zenon
       DEF AccountsMove, U!Next, U!Works, Askers
  <2> QED
    BY <2>1, <2>2 DEF AccountsInv
<1>2. CASE UNCHANGED accountVars
  BY <1>2, SMT DEF accountVars, AccountsInv, U!TypeOK, LinksInv, DeadAreUsed, NotIssuedYet,
                   SweepsLast, HeldAreLive, HeldByOne, U!HoldsLink
<1> QED
  BY <1>1, <1>2

LEMMA LinksWorkOnce ==
  ASSUME AccountsInv, AccountsMove PROVE U!WorksOnce
<1>1. SUFFICES ASSUME NEW r \in Callers, Kind[r] = "reset", U!Commits(r)
               PROVE  asking[r].link \notin dead
  BY DEF U!WorksOnce, U!Of
<1>2. asking[r].pc \in U!InTx
  BY <1>1, SMT DEF U!Commits, U!InTx
<1>3. link[asking[r].link] = "live"
  BY <1>2 DEF AccountsInv, LinksInv, HeldAreLive
<1> QED
  BY <1>3 DEF AccountsInv, LinksInv, DeadAreUsed

\* TypeOK of Accounts: the rows and the requests have the types that the code gives them.
THEOREM AccountTypes == AccountsSpec => []U!TypeOK
<1>1. AccountsInv => U!TypeOK
  BY DEF AccountsInv
<1> QED
  BY <1>1, AccountsBegins, AccountsStep, PTL DEF AccountsSpec

\* OldLinksDie of Accounts: a reset link works once, and a committed reset leaves no other
\* link of the address that works, however many are redeemed at once (consume_token and
\* reset_password of tenants.rs, in one transaction).
THEOREM OldLinksAreDead == AccountsSpec => OldLinksDie
<1>1. AccountsInv /\ [AccountsMove]_accountVars => [U!WorksOnce]_accountVars
  BY LinksWorkOnce
<1> QED
  BY <1>1, AccountsBegins, AccountsStep, PTL DEF AccountsSpec, OldLinksDie
=============================================================================
