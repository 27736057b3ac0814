----------------------- MODULE BootstrapGrantsProofs -----------------------
(***************************************************************************)
(* The types of BootstrapGrants and its three safety properties, for any   *)
(* requests and any number of events.  The argument: as long as no two     *)
(* installs overlapped, at most one request is inside an install or an     *)
(* upgrade, so the job it marked is still marked; and what made the watch  *)
(* decide on a revocation (installed components, a StorageClass) cannot    *)
(* be undone except by a sizing, so no install can begin applying after.   *)
(* Then the upgrade verdict: only the tops of the subtrees that go are     *)
(* reported, and still every use of a path that goes is found.             *)
(***************************************************************************)
EXTENDS BootstrapGrants, SequenceTheorems, WellFoundedInduction, TLAPS

Busy == Installing \cup Upgrading

(* Installs that did not overlap are one install.                          *)
Alone == upset \/ \A r, s \in Busy : r = s

(* A gate that lets a creation go has seen a class, and it is still there. *)
ClassSeen == upset \/ \A r \in Requests : pc[r] \in {"free", "passed"} => sc # "absent"

(* What the watch saw when it decided holds until it deletes.              *)
DueMeansIdle ==
    watch = "due" =>
        /\ cm # "absent" /\ (foreign \/ ours # "absent")
        /\ upset \/ (sc # "absent" /\ Applying = {})

(* WorkIsShown, of the jobs themselves.                                    *)
Shown ==
    ~upset => /\ Installing # {} => job = "running"
              /\ Upgrading # {} => ujob = "running"

IInv == TypeOK /\ Alone /\ Shown /\ ClassSeen /\ DueMeansIdle

-----------------------------------------------------------------------------

(* Whatever is read of the cluster, the installer takes one of three ways. *)
LEMMA EnsureSteps == \A f : EnsureStep(f) \in {"recheck", "done", "begin"}
  BY DEF EnsureStep

(* What the create flow polls says of the job what the job is.             *)
LEMMA StorageTells == \A nodes : StorageState(nodes).installing <=> job = "running"
  BY DEF StorageState

(* TypeOK is inductive by itself.                                          *)
LEMMA TypeStep == TypeOK /\ [Next]_vars => TypeOK'
<1> SUFFICES ASSUME TypeOK, [Next]_vars PROVE TypeOK'
    OBVIOUS
<1> USE GrantsAssumption DEF TypeOK, cluster, Deploys, Goto, Event, Starts, EnsurePcs, GatePcs, UpgradePcs
<1>1. ASSUME NEW r \in Requests, Ensure(r) PROVE TypeOK'
  BY <1>1, EnsureSteps DEF Ensure
<1>2. ASSUME NEW r \in Requests, EnsureRechecks(r) PROVE TypeOK'
  BY <1>2 DEF EnsureRechecks
<1>3. ASSUME NEW r \in Requests, EnsureRevokes(r) PROVE TypeOK'
  <2>1. bind' \in BOOLEAN
    BY <1>3, Zenon DEF EnsureRevokes
  <2> QED
    BY <1>3, <2>1 DEF EnsureRevokes
<1>4. ASSUME NEW r \in Requests, EnsureBegins(r) PROVE TypeOK'
  BY <1>4 DEF EnsureBegins
<1>5. ASSUME NEW r \in Requests, CertManagerStep(r) PROVE TypeOK'
  BY <1>5 DEF CertManagerStep, InstallStep
<1>6. ASSUME NEW r \in Requests, CertManagerApply(r) PROVE TypeOK'
  BY <1>6 DEF CertManagerApply
<1>7. ASSUME NEW r \in Requests, CertManagerWait(r) PROVE TypeOK'
  BY <1>7 DEF CertManagerWait, Serves
<1>8. ASSUME NEW r \in Requests, OperatorStep(r) PROVE TypeOK'
  BY <1>8 DEF OperatorStep, InstallStep
<1>9. ASSUME NEW r \in Requests, OperatorApply(r) PROVE TypeOK'
  <2>1. drift' \in BOOLEAN
    BY <1>9, Zenon DEF OperatorApply
  <2> QED
    BY <1>9, <2>1 DEF OperatorApply
<1>10. ASSUME NEW r \in Requests, OperatorWait(r) PROVE TypeOK'
  BY <1>10 DEF OperatorWait, Serves
<1>11. ASSUME NEW r \in Requests, StorageStep(r) PROVE TypeOK'
  BY <1>11 DEF StorageStep
<1>12. ASSUME NEW r \in Requests, InstallRevokes(r) PROVE TypeOK'
  <2>1. bind' \in BOOLEAN
    BY <1>12, Zenon DEF InstallRevokes
  <2> QED
    BY <1>12, <2>1 DEF InstallRevokes
<1>13. ASSUME NEW r \in Requests, InstallFails(r) PROVE TypeOK'
  BY <1>13 DEF InstallFails
<1>14. ASSUME NEW r \in Requests, StorageGate(r) PROVE TypeOK'
  <2>1. upset' \in BOOLEAN
    BY <1>14, Zenon DEF StorageGate
  <2> QED
    BY <1>14, <2>1 DEF StorageGate
<1>15. ASSUME NEW r \in Requests, LonghornApply(r) PROVE TypeOK'
  BY <1>15 DEF LonghornApply
<1>16. ASSUME NEW r \in Requests, LonghornWait(r) PROVE TypeOK'
  BY <1>16 DEF LonghornWait
<1>43. ASSUME NEW r \in Requests, LonghornRefuses(r) PROVE TypeOK'
  BY <1>43 DEF LonghornRefuses
<1>17. ASSUME NEW r \in Requests, DeleteClass(r, "size", "sizing") PROVE TypeOK'
  BY <1>17 DEF DeleteClass
<1>18. ASSUME NEW r \in Requests, DeleteClass(r, "lh_size", "lh_sizing") PROVE TypeOK'
  BY <1>18 DEF DeleteClass
<1>19. ASSUME NEW r \in Requests, ClassRebuilt(r, "sizing", "free") PROVE TypeOK'
  BY <1>19 DEF ClassRebuilt
<1>20. ASSUME NEW r \in Requests, ClassRebuilt(r, "lh_sizing", "lh_check") PROVE TypeOK'
  BY <1>20 DEF ClassRebuilt
<1>21. ASSUME NEW r \in Requests, LonghornCheck(r) PROVE TypeOK'
  BY <1>21 DEF LonghornCheck
<1>22. ASSUME NEW r \in Requests, GateRevokes(r, "free", "passed") PROVE TypeOK'
  <2>1. bind' \in BOOLEAN
    BY <1>22, Zenon DEF GateRevokes
  <2> QED
    BY <1>22, <2>1 DEF GateRevokes
<1>23. ASSUME NEW r \in Requests, GateRevokes(r, "lh_free", "regate") PROVE TypeOK'
  <2>1. bind' \in BOOLEAN
    BY <1>23, Zenon DEF GateRevokes
  <2> QED
    BY <1>23, <2>1 DEF GateRevokes
<1>24. ASSUME NEW r \in Requests, GateRechecks(r) PROVE TypeOK'
  BY <1>24 DEF GateRechecks
<1>25. ASSUME NEW r \in Requests, GateFails(r) PROVE TypeOK'
  BY <1>25 DEF GateFails
<1>26. ASSUME NEW r \in Requests, UpgradeVerdict(r) PROVE TypeOK'
  BY <1>26 DEF UpgradeVerdict
<1>27. ASSUME NEW r \in Requests, UpgradeBegins(r) PROVE TypeOK'
  BY <1>27 DEF UpgradeBegins
<1>28. ASSUME NEW r \in Requests, UpgradeApply(r) PROVE TypeOK'
  <2>1. drift' \in BOOLEAN
    BY <1>28, Zenon DEF UpgradeApply
  <2> QED
    BY <1>28, <2>1 DEF UpgradeApply
<1>29. ASSUME NEW r \in Requests, \E o \in {"done", "failed"} : UpgradeEnds(r, o) PROVE TypeOK'
  BY <1>29 DEF UpgradeEnds
<1>30. ASSUME NEW r \in Requests, HangUp(r) PROVE TypeOK'
  BY <1>30 DEF HangUp
<1>31. CASE WatchTick
  BY <1>31 DEF WatchTick
<1>32. CASE WatchExpires
  BY <1>32 DEF WatchExpires
<1>33. CASE WatchProbes
  BY <1>33 DEF WatchProbes
<1>34. CASE WatchRevokes
  <2>1. bind' \in BOOLEAN
    BY <1>34, Zenon DEF WatchRevokes
  <2> QED
    BY <1>34, <2>1 DEF WatchRevokes
<1>35. CASE Settle
  BY <1>35 DEF Settle
<1>36. CASE DeployerRebuilds
  BY <1>36 DEF DeployerRebuilds
<1>37. CASE GrantAges
  BY <1>37 DEF GrantAges
<1>38. CASE ReApply
  BY <1>38 DEF ReApply
<1>39. CASE AdminGrants
  BY <1>39 DEF AdminGrants
<1>40. CASE OperatorRestarts
  BY <1>40 DEF OperatorRestarts
<1>41. CASE Restart
  BY <1>41 DEF Restart
<1>42. CASE UNCHANGED vars
  BY <1>42 DEF vars
<1> QED
  BY <1>1, <1>2, <1>3, <1>4, <1>5, <1>6, <1>7, <1>8, <1>9, <1>10, <1>11, <1>12, <1>13, <1>14, <1>15, <1>16, <1>17, <1>18, <1>19, <1>20, <1>21, <1>22, <1>23, <1>24, <1>25, <1>26, <1>27, <1>28, <1>29, <1>30, <1>31, <1>32, <1>33, <1>34, <1>35, <1>36, <1>37, <1>38, <1>39, <1>40, <1>41, <1>42, <1>43
  DEF Next, Handle, EnsureNext, GateNext, UpgradeNext, WatchNext, Surroundings

(* The initial states satisfy the invariant.                               *)
LEMMA InitIInv == Init => IInv
<1> SUFFICES ASSUME Init PROVE IInv
  OBVIOUS
<1> USE DEF Init
<1>1. bind \in BOOLEAN /\ foreign \in BOOLEAN /\ small \in BOOLEAN /\ upset \in BOOLEAN
  BY Zenon
<1>2. drift \in BOOLEAN
  BY Zenon
<1>3. lh \in BOOLEAN
  BY Zenon
<1>4. TypeOK
  BY <1>1, <1>2, <1>3, GrantsAssumption DEF TypeOK, Deploys
<1>5. Busy = {} /\ watch # "due"
  BY DEF Busy, Installing, Upgrading
<1>6. Alone /\ Shown /\ ClassSeen /\ DueMeansIdle
  BY <1>5 DEF Busy, Alone, Shown, ClassSeen, DueMeansIdle
<1> QED
  BY <1>4, <1>6 DEF IInv

(* Two requests are inside an install or an upgrade only after Starts      *)
(* noted it.                                                               *)
LEMMA AloneStep == TypeOK /\ Alone /\ [Next]_vars => Alone'
<1> SUFFICES ASSUME TypeOK, Alone, [Next]_vars PROVE Alone'
  OBVIOUS
<1> USE DEF TypeOK, Alone, Busy, Installing, Upgrading, Goto, Starts
<1>1. ASSUME NEW r \in Requests, Ensure(r) PROVE Alone'
  BY <1>1, EnsureSteps DEF Ensure
<1>2. ASSUME NEW r \in Requests, EnsureRechecks(r) PROVE Alone'
  BY <1>2 DEF EnsureRechecks
<1>3. ASSUME NEW r \in Requests, EnsureRevokes(r) PROVE Alone'
  BY <1>3 DEF EnsureRevokes
<1>4. ASSUME NEW r \in Requests, EnsureBegins(r) PROVE Alone'
  BY <1>4 DEF EnsureBegins
<1>5. ASSUME NEW r \in Requests, CertManagerStep(r) PROVE Alone'
  BY <1>5 DEF CertManagerStep, InstallStep
<1>6. ASSUME NEW r \in Requests, CertManagerApply(r) PROVE Alone'
  BY <1>6 DEF CertManagerApply
<1>7. ASSUME NEW r \in Requests, CertManagerWait(r) PROVE Alone'
  BY <1>7 DEF CertManagerWait, Serves
<1>8. ASSUME NEW r \in Requests, OperatorStep(r) PROVE Alone'
  BY <1>8 DEF OperatorStep, InstallStep
<1>9. ASSUME NEW r \in Requests, OperatorApply(r) PROVE Alone'
  BY <1>9 DEF OperatorApply
<1>10. ASSUME NEW r \in Requests, OperatorWait(r) PROVE Alone'
  BY <1>10 DEF OperatorWait, Serves
<1>11. ASSUME NEW r \in Requests, StorageStep(r) PROVE Alone'
  BY <1>11 DEF StorageStep
<1>12. ASSUME NEW r \in Requests, InstallRevokes(r) PROVE Alone'
  BY <1>12 DEF InstallRevokes
<1>13. ASSUME NEW r \in Requests, InstallFails(r) PROVE Alone'
  BY <1>13 DEF InstallFails
<1>14. ASSUME NEW r \in Requests, StorageGate(r) PROVE Alone'
  <2>1. CASE NeedsLonghorn
    BY <1>14, <2>1 DEF StorageGate
  <2>2. CASE ~NeedsLonghorn
    BY <1>14, <2>2 DEF StorageGate
  <2> QED
    BY <2>1, <2>2
<1>15. ASSUME NEW r \in Requests, LonghornApply(r) PROVE Alone'
  BY <1>15 DEF LonghornApply
<1>16. ASSUME NEW r \in Requests, LonghornWait(r) PROVE Alone'
  BY <1>16 DEF LonghornWait
<1>43. ASSUME NEW r \in Requests, LonghornRefuses(r) PROVE Alone'
  BY <1>43 DEF LonghornRefuses
<1>17. ASSUME NEW r \in Requests, DeleteClass(r, "size", "sizing") PROVE Alone'
  BY <1>17 DEF DeleteClass
<1>18. ASSUME NEW r \in Requests, DeleteClass(r, "lh_size", "lh_sizing") PROVE Alone'
  BY <1>18 DEF DeleteClass
<1>19. ASSUME NEW r \in Requests, ClassRebuilt(r, "sizing", "free") PROVE Alone'
  BY <1>19 DEF ClassRebuilt
<1>20. ASSUME NEW r \in Requests, ClassRebuilt(r, "lh_sizing", "lh_check") PROVE Alone'
  BY <1>20 DEF ClassRebuilt
<1>21. ASSUME NEW r \in Requests, LonghornCheck(r) PROVE Alone'
  BY <1>21 DEF LonghornCheck
<1>22. ASSUME NEW r \in Requests, GateRevokes(r, "free", "passed") PROVE Alone'
  BY <1>22 DEF GateRevokes
<1>23. ASSUME NEW r \in Requests, GateRevokes(r, "lh_free", "regate") PROVE Alone'
  BY <1>23 DEF GateRevokes
<1>24. ASSUME NEW r \in Requests, GateRechecks(r) PROVE Alone'
  BY <1>24 DEF GateRechecks
<1>25. ASSUME NEW r \in Requests, GateFails(r) PROVE Alone'
  BY <1>25 DEF GateFails
<1>26. ASSUME NEW r \in Requests, UpgradeVerdict(r) PROVE Alone'
  BY <1>26 DEF UpgradeVerdict
<1>27. ASSUME NEW r \in Requests, UpgradeBegins(r) PROVE Alone'
  BY <1>27 DEF UpgradeBegins
<1>28. ASSUME NEW r \in Requests, UpgradeApply(r) PROVE Alone'
  BY <1>28 DEF UpgradeApply
<1>29. ASSUME NEW r \in Requests, \E o \in {"done", "failed"} : UpgradeEnds(r, o) PROVE Alone'
  BY <1>29 DEF UpgradeEnds
<1>30. ASSUME NEW r \in Requests, HangUp(r) PROVE Alone'
  BY <1>30 DEF HangUp
<1>31. CASE WatchTick
  BY <1>31 DEF WatchTick
<1>32. CASE WatchExpires
  BY <1>32 DEF WatchExpires
<1>33. CASE WatchProbes
  BY <1>33 DEF WatchProbes
<1>34. CASE WatchRevokes
  BY <1>34 DEF WatchRevokes
<1>35. CASE Settle
  BY <1>35 DEF Settle
<1>36. CASE DeployerRebuilds
  BY <1>36 DEF DeployerRebuilds
<1>37. CASE GrantAges
  BY <1>37 DEF GrantAges
<1>38. CASE ReApply
  BY <1>38 DEF ReApply
<1>39. CASE AdminGrants
  BY <1>39 DEF AdminGrants
<1>40. CASE OperatorRestarts
  BY <1>40 DEF OperatorRestarts
<1>41. CASE Restart
  BY <1>41 DEF Restart
<1>42. CASE UNCHANGED vars
  BY <1>42 DEF vars
<1> QED
  BY <1>1, <1>2, <1>3, <1>4, <1>5, <1>6, <1>7, <1>8, <1>9, <1>10, <1>11, <1>12, <1>13, <1>14, <1>15, <1>16, <1>17, <1>18, <1>19, <1>20, <1>21, <1>22, <1>23, <1>24, <1>25, <1>26, <1>27, <1>28, <1>29, <1>30, <1>31, <1>32, <1>33, <1>34, <1>35, <1>36, <1>37, <1>38, <1>39, <1>40, <1>41, <1>42, <1>43
  DEF Next, Handle, EnsureNext, GateNext, UpgradeNext, WatchNext, Surroundings

(* The job an install marked stays marked until that install ends.         *)
LEMMA ShownStep == TypeOK /\ Alone /\ Shown /\ [Next]_vars => Shown'
<1> SUFFICES ASSUME TypeOK, Alone, Shown, [Next]_vars PROVE Shown'
  OBVIOUS
<1> USE DEF TypeOK, Alone, Shown, Busy, Installing, Upgrading, Goto, Starts
<1>1. ASSUME NEW r \in Requests, Ensure(r) PROVE Shown'
  BY <1>1, EnsureSteps DEF Ensure
<1>2. ASSUME NEW r \in Requests, EnsureRechecks(r) PROVE Shown'
  BY <1>2 DEF EnsureRechecks
<1>3. ASSUME NEW r \in Requests, EnsureRevokes(r) PROVE Shown'
  BY <1>3 DEF EnsureRevokes
<1>4. ASSUME NEW r \in Requests, EnsureBegins(r) PROVE Shown'
  BY <1>4 DEF EnsureBegins
<1>5. ASSUME NEW r \in Requests, CertManagerStep(r) PROVE Shown'
  BY <1>5 DEF CertManagerStep, InstallStep
<1>6. ASSUME NEW r \in Requests, CertManagerApply(r) PROVE Shown'
  BY <1>6 DEF CertManagerApply
<1>7. ASSUME NEW r \in Requests, CertManagerWait(r) PROVE Shown'
  BY <1>7 DEF CertManagerWait, Serves
<1>8. ASSUME NEW r \in Requests, OperatorStep(r) PROVE Shown'
  BY <1>8 DEF OperatorStep, InstallStep
<1>9. ASSUME NEW r \in Requests, OperatorApply(r) PROVE Shown'
  BY <1>9 DEF OperatorApply
<1>10. ASSUME NEW r \in Requests, OperatorWait(r) PROVE Shown'
  BY <1>10 DEF OperatorWait, Serves
<1>11. ASSUME NEW r \in Requests, StorageStep(r) PROVE Shown'
  BY <1>11 DEF StorageStep
<1>12. ASSUME NEW r \in Requests, InstallRevokes(r) PROVE Shown'
  BY <1>12 DEF InstallRevokes
<1>13. ASSUME NEW r \in Requests, InstallFails(r) PROVE Shown'
  BY <1>13 DEF InstallFails
<1>14. ASSUME NEW r \in Requests, StorageGate(r) PROVE Shown'
  BY <1>14 DEF StorageGate
<1>15. ASSUME NEW r \in Requests, LonghornApply(r) PROVE Shown'
  BY <1>15 DEF LonghornApply
<1>16. ASSUME NEW r \in Requests, LonghornWait(r) PROVE Shown'
  BY <1>16 DEF LonghornWait
<1>43. ASSUME NEW r \in Requests, LonghornRefuses(r) PROVE Shown'
  BY <1>43 DEF LonghornRefuses
<1>17. ASSUME NEW r \in Requests, DeleteClass(r, "size", "sizing") PROVE Shown'
  BY <1>17 DEF DeleteClass
<1>18. ASSUME NEW r \in Requests, DeleteClass(r, "lh_size", "lh_sizing") PROVE Shown'
  BY <1>18 DEF DeleteClass
<1>19. ASSUME NEW r \in Requests, ClassRebuilt(r, "sizing", "free") PROVE Shown'
  BY <1>19 DEF ClassRebuilt
<1>20. ASSUME NEW r \in Requests, ClassRebuilt(r, "lh_sizing", "lh_check") PROVE Shown'
  BY <1>20 DEF ClassRebuilt
<1>21. ASSUME NEW r \in Requests, LonghornCheck(r) PROVE Shown'
  BY <1>21 DEF LonghornCheck
<1>22. ASSUME NEW r \in Requests, GateRevokes(r, "free", "passed") PROVE Shown'
  BY <1>22 DEF GateRevokes
<1>23. ASSUME NEW r \in Requests, GateRevokes(r, "lh_free", "regate") PROVE Shown'
  BY <1>23 DEF GateRevokes
<1>24. ASSUME NEW r \in Requests, GateRechecks(r) PROVE Shown'
  BY <1>24 DEF GateRechecks
<1>25. ASSUME NEW r \in Requests, GateFails(r) PROVE Shown'
  BY <1>25 DEF GateFails
<1>26. ASSUME NEW r \in Requests, UpgradeVerdict(r) PROVE Shown'
  BY <1>26 DEF UpgradeVerdict
<1>27. ASSUME NEW r \in Requests, UpgradeBegins(r) PROVE Shown'
  BY <1>27 DEF UpgradeBegins
<1>28. ASSUME NEW r \in Requests, UpgradeApply(r) PROVE Shown'
  BY <1>28 DEF UpgradeApply
<1>29. ASSUME NEW r \in Requests, \E o \in {"done", "failed"} : UpgradeEnds(r, o) PROVE Shown'
  BY <1>29 DEF UpgradeEnds
<1>30. ASSUME NEW r \in Requests, HangUp(r) PROVE Shown'
  BY <1>30 DEF HangUp
<1>31. CASE WatchTick
  BY <1>31 DEF WatchTick
<1>32. CASE WatchExpires
  BY <1>32 DEF WatchExpires
<1>33. CASE WatchProbes
  BY <1>33 DEF WatchProbes
<1>34. CASE WatchRevokes
  BY <1>34 DEF WatchRevokes
<1>35. CASE Settle
  BY <1>35 DEF Settle
<1>36. CASE DeployerRebuilds
  BY <1>36 DEF DeployerRebuilds
<1>37. CASE GrantAges
  BY <1>37 DEF GrantAges
<1>38. CASE ReApply
  BY <1>38 DEF ReApply
<1>39. CASE AdminGrants
  BY <1>39 DEF AdminGrants
<1>40. CASE OperatorRestarts
  BY <1>40 DEF OperatorRestarts
<1>41. CASE Restart
  BY <1>41 DEF Restart
<1>42. CASE UNCHANGED vars
  BY <1>42 DEF vars
<1> QED
  BY <1>1, <1>2, <1>3, <1>4, <1>5, <1>6, <1>7, <1>8, <1>9, <1>10, <1>11, <1>12, <1>13, <1>14, <1>15, <1>16, <1>17, <1>18, <1>19, <1>20, <1>21, <1>22, <1>23, <1>24, <1>25, <1>26, <1>27, <1>28, <1>29, <1>30, <1>31, <1>32, <1>33, <1>34, <1>35, <1>36, <1>37, <1>38, <1>39, <1>40, <1>41, <1>42, <1>43
  DEF Next, Handle, EnsureNext, GateNext, UpgradeNext, WatchNext, Surroundings

(* A StorageClass, once seen, goes only by a sizing.                       *)
LEMMA SeenStep == TypeOK /\ ClassSeen /\ [Next]_vars => ClassSeen'
<1> SUFFICES ASSUME TypeOK, ClassSeen, [Next]_vars PROVE ClassSeen'
  OBVIOUS
<1> USE DEF TypeOK, ClassSeen, cluster, NeedsLonghorn, Goto, Starts
<1>1. ASSUME NEW r \in Requests, Ensure(r) PROVE ClassSeen'
  BY <1>1, EnsureSteps DEF Ensure
<1>2. ASSUME NEW r \in Requests, EnsureRechecks(r) PROVE ClassSeen'
  BY <1>2 DEF EnsureRechecks
<1>3. ASSUME NEW r \in Requests, EnsureRevokes(r) PROVE ClassSeen'
  BY <1>3 DEF EnsureRevokes
<1>4. ASSUME NEW r \in Requests, EnsureBegins(r) PROVE ClassSeen'
  BY <1>4 DEF EnsureBegins
<1>5. ASSUME NEW r \in Requests, CertManagerStep(r) PROVE ClassSeen'
  BY <1>5 DEF CertManagerStep, InstallStep
<1>6. ASSUME NEW r \in Requests, CertManagerApply(r) PROVE ClassSeen'
  BY <1>6 DEF CertManagerApply
<1>7. ASSUME NEW r \in Requests, CertManagerWait(r) PROVE ClassSeen'
  BY <1>7 DEF CertManagerWait, Serves
<1>8. ASSUME NEW r \in Requests, OperatorStep(r) PROVE ClassSeen'
  BY <1>8 DEF OperatorStep, InstallStep
<1>9. ASSUME NEW r \in Requests, OperatorApply(r) PROVE ClassSeen'
  BY <1>9 DEF OperatorApply
<1>10. ASSUME NEW r \in Requests, OperatorWait(r) PROVE ClassSeen'
  BY <1>10 DEF OperatorWait, Serves
<1>11. ASSUME NEW r \in Requests, StorageStep(r) PROVE ClassSeen'
  BY <1>11 DEF StorageStep
<1>12. ASSUME NEW r \in Requests, InstallRevokes(r) PROVE ClassSeen'
  BY <1>12 DEF InstallRevokes
<1>13. ASSUME NEW r \in Requests, InstallFails(r) PROVE ClassSeen'
  BY <1>13 DEF InstallFails
<1>14. ASSUME NEW r \in Requests, StorageGate(r) PROVE ClassSeen'
  BY <1>14 DEF StorageGate
<1>15. ASSUME NEW r \in Requests, LonghornApply(r) PROVE ClassSeen'
  BY <1>15 DEF LonghornApply
<1>16. ASSUME NEW r \in Requests, LonghornWait(r) PROVE ClassSeen'
  BY <1>16 DEF LonghornWait
<1>43. ASSUME NEW r \in Requests, LonghornRefuses(r) PROVE ClassSeen'
  BY <1>43 DEF LonghornRefuses
<1>17. ASSUME NEW r \in Requests, DeleteClass(r, "size", "sizing") PROVE ClassSeen'
  BY <1>17 DEF DeleteClass
<1>18. ASSUME NEW r \in Requests, DeleteClass(r, "lh_size", "lh_sizing") PROVE ClassSeen'
  BY <1>18 DEF DeleteClass
<1>19. ASSUME NEW r \in Requests, ClassRebuilt(r, "sizing", "free") PROVE ClassSeen'
  BY <1>19 DEF ClassRebuilt
<1>20. ASSUME NEW r \in Requests, ClassRebuilt(r, "lh_sizing", "lh_check") PROVE ClassSeen'
  BY <1>20 DEF ClassRebuilt
<1>21. ASSUME NEW r \in Requests, LonghornCheck(r) PROVE ClassSeen'
  BY <1>21 DEF LonghornCheck
<1>22. ASSUME NEW r \in Requests, GateRevokes(r, "free", "passed") PROVE ClassSeen'
  BY <1>22 DEF GateRevokes
<1>23. ASSUME NEW r \in Requests, GateRevokes(r, "lh_free", "regate") PROVE ClassSeen'
  BY <1>23 DEF GateRevokes
<1>24. ASSUME NEW r \in Requests, GateRechecks(r) PROVE ClassSeen'
  BY <1>24 DEF GateRechecks
<1>25. ASSUME NEW r \in Requests, GateFails(r) PROVE ClassSeen'
  BY <1>25 DEF GateFails
<1>26. ASSUME NEW r \in Requests, UpgradeVerdict(r) PROVE ClassSeen'
  BY <1>26 DEF UpgradeVerdict
<1>27. ASSUME NEW r \in Requests, UpgradeBegins(r) PROVE ClassSeen'
  BY <1>27 DEF UpgradeBegins
<1>28. ASSUME NEW r \in Requests, UpgradeApply(r) PROVE ClassSeen'
  BY <1>28 DEF UpgradeApply
<1>29. ASSUME NEW r \in Requests, \E o \in {"done", "failed"} : UpgradeEnds(r, o) PROVE ClassSeen'
  BY <1>29 DEF UpgradeEnds
<1>30. ASSUME NEW r \in Requests, HangUp(r) PROVE ClassSeen'
  BY <1>30 DEF HangUp
<1>31. CASE WatchTick
  BY <1>31 DEF WatchTick
<1>32. CASE WatchExpires
  BY <1>32 DEF WatchExpires
<1>33. CASE WatchProbes
  BY <1>33 DEF WatchProbes
<1>34. CASE WatchRevokes
  BY <1>34 DEF WatchRevokes
<1>35. CASE Settle
  BY <1>35 DEF Settle
<1>36. CASE DeployerRebuilds
  BY <1>36 DEF DeployerRebuilds
<1>37. CASE GrantAges
  BY <1>37 DEF GrantAges
<1>38. CASE ReApply
  BY <1>38 DEF ReApply
<1>39. CASE AdminGrants
  BY <1>39 DEF AdminGrants
<1>40. CASE OperatorRestarts
  BY <1>40 DEF OperatorRestarts
<1>41. CASE Restart
  BY <1>41 DEF Restart
<1>42. CASE UNCHANGED vars
  BY <1>42 DEF vars
<1> QED
  BY <1>1, <1>2, <1>3, <1>4, <1>5, <1>6, <1>7, <1>8, <1>9, <1>10, <1>11, <1>12, <1>13, <1>14, <1>15, <1>16, <1>17, <1>18, <1>19, <1>20, <1>21, <1>22, <1>23, <1>24, <1>25, <1>26, <1>27, <1>28, <1>29, <1>30, <1>31, <1>32, <1>33, <1>34, <1>35, <1>36, <1>37, <1>38, <1>39, <1>40, <1>41, <1>42, <1>43
  DEF Next, Handle, EnsureNext, GateNext, UpgradeNext, WatchNext, Surroundings

(* No install can begin to apply between the decision and the deletion.    *)
LEMMA DueStep == TypeOK /\ Shown /\ DueMeansIdle /\ [Next]_vars => DueMeansIdle'
<1> SUFFICES ASSUME TypeOK, Shown, DueMeansIdle, [Next]_vars PROVE DueMeansIdle'
  OBVIOUS
<1> USE DEF TypeOK, Shown, DueMeansIdle, Applying, Installing, cluster, Goto, Starts,
            NeedsLonghorn, RevokeDue, Ready, OperatorReady, ForeignBlock, Deploys
<1>1. ASSUME NEW r \in Requests, Ensure(r) PROVE DueMeansIdle'
  BY <1>1, EnsureSteps DEF Ensure
<1>2. ASSUME NEW r \in Requests, EnsureRechecks(r) PROVE DueMeansIdle'
  BY <1>2 DEF EnsureRechecks
<1>3. ASSUME NEW r \in Requests, EnsureRevokes(r) PROVE DueMeansIdle'
  BY <1>3 DEF EnsureRevokes
<1>4. ASSUME NEW r \in Requests, EnsureBegins(r) PROVE DueMeansIdle'
  BY <1>4 DEF EnsureBegins
<1>5. ASSUME NEW r \in Requests, CertManagerStep(r) PROVE DueMeansIdle'
  BY <1>5 DEF CertManagerStep, InstallStep
<1>6. ASSUME NEW r \in Requests, CertManagerApply(r) PROVE DueMeansIdle'
  BY <1>6 DEF CertManagerApply
<1>7. ASSUME NEW r \in Requests, CertManagerWait(r) PROVE DueMeansIdle'
  BY <1>7 DEF CertManagerWait, Serves
<1>8. ASSUME NEW r \in Requests, OperatorStep(r) PROVE DueMeansIdle'
  BY <1>8 DEF OperatorStep, InstallStep
<1>9. ASSUME NEW r \in Requests, OperatorApply(r) PROVE DueMeansIdle'
  BY <1>9 DEF OperatorApply
<1>10. ASSUME NEW r \in Requests, OperatorWait(r) PROVE DueMeansIdle'
  BY <1>10 DEF OperatorWait, Serves
<1>11. ASSUME NEW r \in Requests, StorageStep(r) PROVE DueMeansIdle'
  BY <1>11 DEF StorageStep
<1>12. ASSUME NEW r \in Requests, InstallRevokes(r) PROVE DueMeansIdle'
  BY <1>12 DEF InstallRevokes
<1>13. ASSUME NEW r \in Requests, InstallFails(r) PROVE DueMeansIdle'
  BY <1>13 DEF InstallFails
<1>14. ASSUME NEW r \in Requests, StorageGate(r) PROVE DueMeansIdle'
  BY <1>14 DEF StorageGate
<1>15. ASSUME NEW r \in Requests, LonghornApply(r) PROVE DueMeansIdle'
  BY <1>15 DEF LonghornApply
<1>16. ASSUME NEW r \in Requests, LonghornWait(r) PROVE DueMeansIdle'
  BY <1>16 DEF LonghornWait
<1>43. ASSUME NEW r \in Requests, LonghornRefuses(r) PROVE DueMeansIdle'
  BY <1>43 DEF LonghornRefuses
<1>17. ASSUME NEW r \in Requests, DeleteClass(r, "size", "sizing") PROVE DueMeansIdle'
  BY <1>17 DEF DeleteClass
<1>18. ASSUME NEW r \in Requests, DeleteClass(r, "lh_size", "lh_sizing") PROVE DueMeansIdle'
  BY <1>18 DEF DeleteClass
<1>19. ASSUME NEW r \in Requests, ClassRebuilt(r, "sizing", "free") PROVE DueMeansIdle'
  BY <1>19 DEF ClassRebuilt
<1>20. ASSUME NEW r \in Requests, ClassRebuilt(r, "lh_sizing", "lh_check") PROVE DueMeansIdle'
  BY <1>20 DEF ClassRebuilt
<1>21. ASSUME NEW r \in Requests, LonghornCheck(r) PROVE DueMeansIdle'
  BY <1>21 DEF LonghornCheck
<1>22. ASSUME NEW r \in Requests, GateRevokes(r, "free", "passed") PROVE DueMeansIdle'
  BY <1>22 DEF GateRevokes
<1>23. ASSUME NEW r \in Requests, GateRevokes(r, "lh_free", "regate") PROVE DueMeansIdle'
  BY <1>23 DEF GateRevokes
<1>24. ASSUME NEW r \in Requests, GateRechecks(r) PROVE DueMeansIdle'
  BY <1>24 DEF GateRechecks
<1>25. ASSUME NEW r \in Requests, GateFails(r) PROVE DueMeansIdle'
  BY <1>25 DEF GateFails
<1>26. ASSUME NEW r \in Requests, UpgradeVerdict(r) PROVE DueMeansIdle'
  BY <1>26 DEF UpgradeVerdict
<1>27. ASSUME NEW r \in Requests, UpgradeBegins(r) PROVE DueMeansIdle'
  BY <1>27 DEF UpgradeBegins
<1>28. ASSUME NEW r \in Requests, UpgradeApply(r) PROVE DueMeansIdle'
  BY <1>28 DEF UpgradeApply
<1>29. ASSUME NEW r \in Requests, \E o \in {"done", "failed"} : UpgradeEnds(r, o) PROVE DueMeansIdle'
  BY <1>29 DEF UpgradeEnds
<1>30. ASSUME NEW r \in Requests, HangUp(r) PROVE DueMeansIdle'
  BY <1>30 DEF HangUp
<1>31. CASE WatchTick
  BY <1>31 DEF WatchTick
<1>32. CASE WatchExpires
  BY <1>32 DEF WatchExpires
<1>33. CASE WatchProbes
  BY <1>33 DEF WatchProbes
<1>34. CASE WatchRevokes
  BY <1>34 DEF WatchRevokes
<1>35. CASE Settle
  BY <1>35 DEF Settle
<1>36. CASE DeployerRebuilds
  BY <1>36 DEF DeployerRebuilds
<1>37. CASE GrantAges
  BY <1>37 DEF GrantAges
<1>38. CASE ReApply
  BY <1>38 DEF ReApply
<1>39. CASE AdminGrants
  BY <1>39 DEF AdminGrants
<1>40. CASE OperatorRestarts
  BY <1>40 DEF OperatorRestarts
<1>41. CASE Restart
  BY <1>41 DEF Restart
<1>42. CASE UNCHANGED vars
  BY <1>42 DEF vars
<1> QED
  BY <1>1, <1>2, <1>3, <1>4, <1>5, <1>6, <1>7, <1>8, <1>9, <1>10, <1>11, <1>12, <1>13, <1>14, <1>15, <1>16, <1>17, <1>18, <1>19, <1>20, <1>21, <1>22, <1>23, <1>24, <1>25, <1>26, <1>27, <1>28, <1>29, <1>30, <1>31, <1>32, <1>33, <1>34, <1>35, <1>36, <1>37, <1>38, <1>39, <1>40, <1>41, <1>42, <1>43
  DEF Next, Handle, EnsureNext, GateNext, UpgradeNext, WatchNext, Surroundings

-----------------------------------------------------------------------------

(* The conjunction is inductive.                                           *)
LEMMA Inductive == Spec => []IInv
<1>1. IInv /\ [Next]_vars => IInv'
  BY TypeStep, AloneStep, ShownStep, SeenStep, DueStep DEF IInv
<1> QED
  BY <1>1, InitIInv, PTL DEF Spec

(* Whatever requests arrive, every variable keeps its type.                *)
THEOREM Types == Spec => []TypeOK
  BY Inductive, PTL DEF IInv

(* What the watch and the upgrade verdict look at tells them the truth     *)
(* about the work in progress, unless two installs overlapped.             *)
THEOREM WorkShown == Spec => []WorkIsShown
<1>1. IInv => WorkIsShown
  BY StorageTells DEF IInv, Shown, WorkIsShown
<1> QED
  BY <1>1, Inductive, PTL

(* No creation is let go without storage to provision into.                *)
THEOREM Storage == Spec => []GateMeansStorage
<1>1. IInv => GateMeansStorage
  BY DEF IInv, ClassSeen, GateMeansStorage, NeedsLonghorn
<1> QED
  BY <1>1, Inductive, PTL

(* However old the watch's readings are, its deletion hits no install.     *)
THEOREM WatchIsSafe == Spec => WatchSparesInstalls
<1>1. IInv /\ [Next]_vars => [WatchRevokes /\ bind => upset \/ Applying = {}]_vars
  BY DEF IInv, DueMeansIdle, WatchRevokes
<1> QED
  BY <1>1, Inductive, PTL DEF Spec, WatchSparesInstalls

-----------------------------------------------------------------------------
(* What the upgrade verdict says of the clusters, whatever they contain.   *)

(* A set of numbers that is not empty has a smallest one.                  *)
LEMMA Shortest ==
  ASSUME NEW T, T \subseteq Nat, T # {}
  PROVE  \E m \in T : \A n \in T : m <= n
<1> DEFINE Less == {ss \in Nat \X Nat : ss[1] < ss[2]}
<1>1. IsWellFoundedOn(Less, Nat)
  BY NatLessThanWellFounded, Zenon DEF OpToRel
<1>2. \E m \in T : \A n \in T : ~(<<n, m>> \in Less)
  <2> HIDE DEF Less
  <2> QED BY <1>1, WFMin
<1>3. PICK m \in T : \A n \in T : ~(<<n, m>> \in Less)
  BY <1>2
<1>4. ASSUME NEW n \in T PROVE m <= n
  <2>1. <<n, m>>[1] = n /\ <<n, m>>[2] = m /\ <<n, m>> \in Nat \X Nat
    OBVIOUS
  <2>2. ~(n < m)
    BY <1>3, <2>1, Zenon
  <2> QED
    BY <2>2
<1> QED
  BY <1>4

(* What is below a path's descendant is below the path.                    *)
LEMMA UnderUnder ==
  ASSUME NEW Name, NEW u \in Seq(Name), NEW p \in Seq(Name), NEW q \in Seq(Name),
         IsUnder(u, p), IsUnder(p, q)
  PROVE  IsUnder(u, q)
<1>1. Len(q) \in Nat /\ Len(p) \in Nat /\ Len(u) \in Nat /\ Len(q) <= Len(p) /\ Len(p) <= Len(u)
  BY DEF IsUnder
<1>2. /\ SubSeq(u, 1, Len(q)) \in Seq(Name)
      /\ Len(SubSeq(u, 1, Len(q))) = Len(q)
      /\ \A i \in 1..Len(q) : SubSeq(u, 1, Len(q))[i] = u[i]
  BY <1>1, SubSeqProperties
<1>3. \A i \in 1..Len(p) : p[i] = u[i]
  BY <1>1, SubSeqProperties DEF IsUnder
<1>4. \A i \in 1..Len(q) : q[i] = p[i]
  <2>1. \A i \in 1..Len(q) : p[i] \in Name
    BY <1>1
  <2>2. \A i \in 1..Len(q) : SubSeq(p, 1, Len(q))[i] = p[i]
    BY <1>1, <2>1, SubSeqProperties
  <2> QED
    BY <2>2 DEF IsUnder
<1>5. \A i \in 1..Len(q) : SubSeq(u, 1, Len(q))[i] = q[i]
  <2>1. \A i \in 1..Len(q) : i \in 1..Len(p)
    BY <1>1
  <2> QED
    BY <1>2, <1>3, <1>4, <2>1, Zenon
<1>6. SubSeq(u, 1, Len(q)) = q
  BY <1>2, <1>5, SeqEqual
<1> QED
  BY <1>1, <1>6 DEF IsUnder

(* A path below another of the same length is that path.                   *)
LEMMA UnderSame ==
  ASSUME NEW Name, NEW p \in Seq(Name), NEW q \in Seq(Name), IsUnder(p, q), Len(p) <= Len(q)
  PROVE  p = q
<1>1. Len(p) = Len(q) /\ Len(p) \in Nat
  BY DEF IsUnder
<1>2. /\ SubSeq(p, 1, Len(q)) \in Seq(Name)
      /\ Len(SubSeq(p, 1, Len(q))) = Len(p)
      /\ \A i \in 1..Len(p) : SubSeq(p, 1, Len(q))[i] = p[i]
  BY <1>1, SubSeqProperties
<1>3. SubSeq(p, 1, Len(q)) = p
  BY <1>2, SeqEqual
<1> QED
  BY <1>3 DEF IsUnder

(* Only the tops of the dropped subtrees are reported, and none is lost:   *)
(* every dropped path is below one of them.                                *)
LEMMA TopsCover ==
  ASSUME NEW Name, NEW old, NEW new, Dropped(old, new) \subseteq Seq(Name),
         NEW u \in Seq(Name), NEW p \in Dropped(old, new), IsUnder(u, p)
  PROVE  \E r \in RemovedFields(old, new) : IsUnder(u, r)
<1> DEFINE Over == {q \in Dropped(old, new) : IsUnder(u, q)}
           Lengths == {Len(q) : q \in Over}
<1>1. Lengths \subseteq Nat /\ Lengths # {}
  <2>1. p \in Over /\ \A q \in Over : Len(q) \in Nat
    OBVIOUS
  <2> QED
    BY <2>1, Zenon
<1>2. PICK m \in Lengths : \A n \in Lengths : m <= n
  <2> HIDE DEF Lengths
  <2> QED BY <1>1, Shortest
<1>3. PICK r \in Over : Len(r) = m
  BY <1>2
<1>4. ASSUME NEW q \in Dropped(old, new), IsUnder(r, q) PROVE r = q
  <2>1. q \in Over
    BY <1>3, <1>4, UnderUnder
  <2>2. Len(r) <= Len(q)
    BY <1>2, <1>3, <2>1
  <2> QED
    BY <1>3, <1>4, <2>2, UnderSame
<1> QED
  BY <1>3, <1>4 DEF RemovedFields

(* An upgrade that is offered breaks no cluster: none of them sets anything at or below a    *)
(* path that the vendored CRD drops, whatever the two CRDs are (assess, breaking_uses).      *)
THEOREM UpgradeBreaksNothing ==
  ASSUME NEW Name, NEW old, NEW new, Dropped(old, new) \subseteq Seq(Name),
         NEW clusters, NEW c \in clusters, NEW p, NEW running,
         Report(p, CrdChange(old, new), clusters, running).blockers = {},
         NEW u \in ValuePaths(c.sets), u \in Seq(Name), NEW q \in Dropped(old, new)
  PROVE  ~IsUnder(u, q)
<1> SUFFICES ASSUME IsUnder(u, q) PROVE FALSE
  OBVIOUS
<1>1. BreakingUses(RemovedFields(old, new), c.sets) # {}
  BY TopsCover DEF BreakingUses
<1>2. <<"crd_field_removed", c>> \in Blockers(CrdChange(old, new), clusters, p.ready, running)
  <2>1. CrdChange(old, new).removedFields = RemovedFields(old, new)
    BY DEF CrdChange
  <2> QED
    BY <1>1, <2>1, Zenon DEF Blockers
<1> QED
  BY <1>2 DEF Report
=============================================================================
