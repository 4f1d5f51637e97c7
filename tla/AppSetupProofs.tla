--------------------------- MODULE AppSetupProofs ---------------------------
(***************************************************************************)
(* Proofs about AppSetup, for any apps, any number of attempts, package    *)
(* versions, failures and restarts.                                        *)
(***************************************************************************)
EXTENDS AppSetup, TLAPS

-----------------------------------------------------------------------------
(* The invariants.                                                         *)

StoredOK ==
    /\ version \in [Apps -> 0..CodeVersion]
    /\ pkg \in [Apps -> 0..MaxPkg]
    /\ known \in [Apps -> 0..MaxPkg]
    /\ configured \in [Apps -> 0..MaxPkg]
    /\ prompt \in [Apps -> BOOLEAN]
    /\ \A a \in Apps : prompt[a] => pkg[a] \in 1..(MaxPkg - 1)

SwitchesOK ==
    /\ mayInstall \in [Apps -> BOOLEAN]
    /\ firstSetup \in BOOLEAN /\ stopping \in BOOLEAN /\ invoked \in BOOLEAN

CountsOK == failures \in 0..MaxFailures /\ restarts \in 0..MaxRestarts

\* The stages of each kind of operation.
StagesOf(kind) ==
    {"none", "waiting", "begin"} \cup
        (IF kind = "uninstall" THEN {"unmark", "record"}
         ELSE IF kind = "force" THEN {"configure"}
         ELSE {"install", "mark", "configure", "record"})

JobsOK ==
    /\ job \in [Jobs -> Stages]
    /\ \A kind \in Kinds : \A a \in Apps : job[<<kind, a>>] \in StagesOf(kind)

Indices == 1..(Len(AppList) + 1)
Tries == 0..(Attempts - 1)

StartupThread ==
    [at : {"start", "attempt", "next", "join", "joined", "raised", "dpkg",
           "dpkg wait", "force", "done"},
     idx : Indices, first : BOOLEAN, todo : SUBSET Apps]
DpkgThread ==
    [at : {"idle", "attempt", "next", "join", "joined", "raised"},
     idx : Indices, tries : Tries]
ForceThread ==
    [at : {"idle", "attempt", "next", "join", "joined", "raised", "wait"},
     todo : SUBSET Apps, app : Apps, retry : BOOLEAN, tries : Tries]

ThreadsOK ==
    /\ startup \in StartupThread
    /\ startup.at \in {"join", "joined"} => startup.idx \in DOMAIN AppList
    /\ dpkg \in DpkgThread
    /\ dpkg.at \in {"join", "joined"} => dpkg.idx \in DOMAIN AppList
    /\ force \in ForceThread

Typed == StoredOK /\ SwitchesOK /\ CountsOK /\ JobsOK /\ ThreadsOK

\* The manager runs one operation at a time.
OneRuns == \A i \in Jobs, j \in Jobs : Running(i) /\ Running(j) => i = j

\* What the stages an operation has passed have established.
StageOK(kind, a) ==
    /\ kind \in {"setup", "repair"} =>
          /\ job[<<kind, a>>] \in {"mark", "configure", "record"} => pkg[a] # 0
          /\ job[<<kind, a>>] = "record" => configured[a] # 0
    /\ kind = "uninstall" =>
          /\ job[<<kind, a>>] \in {"unmark", "record"} => pkg[a] = 0
          /\ job[<<kind, a>>] = "record" => known[a] = 0

\* Nobody uninstalls an essential app.
NeverRemoved == \A a \in Essential : job[<<"uninstall", a>>] = "none"

\* In its loop, the startup thread has passed only essential apps that are
\* current, and an app that it leaves out was current from the beginning.
Passed(i) == \/ AppList[i] \notin startup.todo
             \/ i < startup.idx
             \/ startup.at = "joined" /\ i = startup.idx

LoopInv ==
    startup.at \in {"next", "join", "joined"} =>
        \A i \in DOMAIN AppList :
            AppList[i] \in Essential /\ Passed(i) => version[AppList[i]] = CodeVersion

EndInv == SetupEnded /\ ~stopping => \A a \in Essential : version[a] = CodeVersion

FirstInv ==
    firstSetup => \/ stopping
                  \/ startup.first /\ startup.at # "start" /\ ~SetupEnded

StartupInv == LoopInv /\ EndInv /\ FirstInv

\* What a step may do to the version of an essential app.
Upkept == \A a \in Essential : version'[a] = version[a] \/ version'[a] = CodeVersion

\* What RecordMatchesPackages says of a step.
Follows ==
    \A a \in Apps : version'[a] # version[a] =>
        IF version'[a] = 0 THEN pkg[a] = 0 /\ known[a] = 0
                           ELSE pkg[a] # 0 /\ configured[a] # 0

WorkInv == OneRuns /\ \A kind \in Kinds, a \in Apps : StageOK(kind, a)

-----------------------------------------------------------------------------
(* Types.                                                                  *)

LEMMA Assumed ==
    /\ AppList \in Seq(Apps) /\ Len(AppList) \in Nat \ {0} /\ AppList[1] \in Apps
    /\ DOMAIN AppList = 1..Len(AppList)
    /\ Essential \subseteq Apps /\ Interested \subseteq Apps
    /\ Forcible \subseteq Apps /\ UserApps \subseteq Apps
    /\ CodeVersion \in Nat \ {0} /\ Attempts \in Nat \ {0}
    /\ MaxPkg \in Nat \ {0} /\ MaxFailures \in Nat /\ MaxRestarts \in Nat
  BY AppSetupAssumption DEF Apps

LEMMA Updated ==
    ASSUME NEW S, NEW f \in [Apps -> S], NEW a \in Apps, NEW v \in S
    PROVE  [f EXCEPT ![a] = v] \in [Apps -> S]
  OBVIOUS

LEMMA Switched ==
    ASSUME NEW f \in [Apps -> BOOLEAN], NEW a \in Apps, NEW v \in BOOLEAN
    PROVE  /\ [f EXCEPT ![a] = v] \in [Apps -> BOOLEAN]
           /\ [f EXCEPT ![a] = v][a] = v
           /\ \A b \in Apps \ {a} : [f EXCEPT ![a] = v][b] = f[b]
  BY Zenon

(* A forced upgrade takes the prompt away and leaves a version in bounds.  *)
LEMMA ForceUpgrades ==
    ASSUME StoredOK, NEW a \in Apps, prompt[a], ForceUpgrade(a)
    PROVE  /\ pkg' \in [Apps -> 0..MaxPkg] /\ known' \in [Apps -> 0..MaxPkg]
           /\ prompt' \in [Apps -> BOOLEAN]
           /\ \A b \in Apps : prompt'[b] => pkg'[b] \in 1..(MaxPkg - 1)
<1>1. pkg[a] + 1 \in 0..MaxPkg
  <2>1. pkg[a] \in 1..(MaxPkg - 1)
    BY DEF StoredOK
  <2> QED
    BY <2>1, Assumed
<1>2. /\ pkg' = [pkg EXCEPT ![a] = pkg[a] + 1]
      /\ known' = [known EXCEPT ![a] = pkg[a] + 1]
  BY DEF ForceUpgrade
<1>3. pkg' \in [Apps -> 0..MaxPkg] /\ known' \in [Apps -> 0..MaxPkg]
  BY <1>1, <1>2 DEF StoredOK
<1>4. /\ prompt' \in [Apps -> BOOLEAN] /\ ~prompt'[a]
      /\ \A b \in Apps \ {a} : prompt'[b] = prompt[b]
  BY Switched DEF ForceUpgrade, StoredOK
<1>5. \A b \in Apps \ {a} : pkg'[b] = pkg[b]
  BY <1>2 DEF StoredOK
<1> QED
  BY <1>3, <1>4, <1>5 DEF StoredOK

(* What the installation of an app may do to its package, and where its    *)
(* operation goes from there.                                              *)
LEMMA Installs ==
    ASSUME StoredOK, NEW kind, NEW a \in Apps, SetupInstall(kind, a)
    PROVE  /\ pkg' \in [Apps -> 0..MaxPkg] /\ pkg[a] <= pkg'[a]
           /\ \A b \in Apps : b # a \/ prompt[a] => pkg'[b] = pkg[b]
           /\ UNCHANGED <<version, known, prompt, configured, firstSetup, stopping>>
           /\ UNCHANGED bounds
           /\ invoked \in BOOLEAN => invoked' \in BOOLEAN
<1>0. pkg \in [Apps -> 0..MaxPkg] /\ MaxPkg \in Nat
  BY Assumed DEF StoredOK
<1>1. CASE UNCHANGED <<pkg, invoked>>
  BY <1>0, <1>1 DEF SetupInstall
<1>2. CASE ~prompt[a] /\ \E v \in 1..MaxPkg : /\ pkg' = [pkg EXCEPT ![a] = v]
                                             /\ pkg[a] <= v
  <2>1. PICK v \in 1..MaxPkg : pkg' = [pkg EXCEPT ![a] = v] /\ pkg[a] <= v
    BY <1>2
  <2>2. v \in 0..MaxPkg
    BY <1>0
  <2>3. pkg' \in [Apps -> 0..MaxPkg] /\ pkg'[a] = v
    BY <1>0, <2>1, <2>2
  <2>4. \A b \in Apps \ {a} : pkg'[b] = pkg[b]
    BY <1>0, <2>1
  <2>5. invoked' = invoked \/ invoked' = (invoked \/ pkg' # pkg)
    BY DEF SetupInstall
  <2> QED
    BY <1>2, <2>1, <2>3, <2>4, <2>5 DEF SetupInstall
<1>3. \A v \in (IF pkg[a] = 0 THEN {1} ELSE pkg[a]..(pkg[a] + 1)) : pkg[a] <= v
  BY <1>0
<1> QED
  BY <1>1, <1>2, <1>3 DEF SetupInstall

LEMMA InstallMoves ==
    ASSUME NEW kind, NEW a, SetupInstall(kind, a)
    PROVE  /\ job[<<kind, a>>] = "install"
           /\ \/ /\ job' = [job EXCEPT ![<<kind, a>>] = "mark"]
                 /\ UNCHANGED <<threads, mayInstall>>
              \/ /\ job' = [job EXCEPT ![<<kind, a>>] = "configure"] /\ ~mayInstall[a]
                 /\ UNCHANGED <<threads, mayInstall, pkg>>
              \/ /\ job' = [job EXCEPT ![<<kind, a>>] = "none"] /\ prompt[a]
                 /\ UNCHANGED pkg
                 /\ JobEnd(<<kind, a>>, FALSE)
  BY DEF SetupInstall, JobGoesOn, JobEnd, May

LEMMA StoredStep == StoredOK /\ [Next]_vars => StoredOK'
<1> SUFFICES ASSUME StoredOK, [Next]_vars PROVE StoredOK'
  OBVIOUS
<1>1. ASSUME NEW kind \in Kinds, NEW a \in Apps, JobStart(<<kind, a>>)
      PROVE  StoredOK'
  BY <1>1 DEF StoredOK, JobStart, Running, stored, threads, bounds
<1>2. ASSUME NEW kind \in Kinds, NEW a \in Apps, SetupBegin(kind, a) PROVE StoredOK'
<2>1. version' = version /\ configured' = configured
  BY <1>2 DEF SetupBegin, stored, jobRest
<2>2. \/ prompt' = prompt /\ pkg' = pkg /\ known' = known
      \/ prompt[a] /\ ForceUpgrade(a)
  BY <1>2 DEF SetupBegin, stored, jobRest
<2> QED
  BY <2>1, <2>2, ForceUpgrades DEF StoredOK
<1>3. ASSUME NEW kind \in Kinds, NEW a \in Apps, SetupInstall(kind, a)
      PROVE  StoredOK'
  BY <1>3, Installs DEF StoredOK
<1>4. ASSUME NEW kind \in Kinds, NEW a \in Apps, SetupMark(kind, a) PROVE StoredOK'
<2>1. known' = [known EXCEPT ![a] = pkg[a]] /\ pkg[a] \in 0..MaxPkg
  BY <1>4, Assumed DEF StoredOK, SetupMark
<2>2. known' \in [Apps -> 0..MaxPkg]
  BY <2>1, Updated DEF StoredOK
<2>3. UNCHANGED <<version, pkg, prompt, configured>>
  BY <1>4 DEF SetupMark, jobRest
<2> QED
  BY <2>2, <2>3 DEF StoredOK
<1>5. ASSUME NEW kind \in Kinds, NEW a \in Apps, SetupConfigure(kind, a)
      PROVE  StoredOK'
<2>1. configured' = [configured EXCEPT ![a] = pkg[a]] /\ pkg[a] \in 0..MaxPkg
  BY <1>5, Assumed DEF StoredOK, SetupConfigure
<2>2. configured' \in [Apps -> 0..MaxPkg]
  BY <2>1, Updated DEF StoredOK
<2>3. UNCHANGED <<version, pkg, known, prompt>>
  BY <1>5 DEF SetupConfigure, jobRest
<2> QED
  BY <2>2, <2>3 DEF StoredOK
<1>6. ASSUME NEW kind \in Kinds, NEW a \in Apps, SetupRecord(kind, a)
      PROVE  StoredOK'
<2>1. version' = [version EXCEPT ![a] = CodeVersion] /\ CodeVersion \in 0..CodeVersion
  BY <1>6, Assumed DEF StoredOK, SetupRecord
<2>2. version' \in [Apps -> 0..CodeVersion]
  BY <2>1, Updated DEF StoredOK
<2>3. UNCHANGED <<pkg, known, prompt, configured>>
  BY <1>6 DEF SetupRecord, jobRest
<2> QED
  BY <2>2, <2>3 DEF StoredOK
<1>7. ASSUME NEW a \in Apps, UninstallRemove(a) PROVE StoredOK'
<2>1. UNCHANGED <<version, known>>
  BY <1>7 DEF UninstallRemove
<2>2. /\ pkg' = [pkg EXCEPT ![a] = 0] /\ pkg' \in [Apps -> 0..MaxPkg]
      /\ configured' \in [Apps -> 0..MaxPkg]
  BY <1>7, Updated, Assumed DEF UninstallRemove, StoredOK
<2>3. /\ prompt' \in [Apps -> BOOLEAN] /\ ~prompt'[a]
      /\ \A b \in Apps \ {a} : prompt'[b] = prompt[b]
  BY <1>7, Switched DEF UninstallRemove, StoredOK
<2> QED
  BY <2>1, <2>2, <2>3 DEF StoredOK
<1>8. ASSUME NEW a \in Apps, UninstallUnmark(a) PROVE StoredOK'
<2>1. known' = [known EXCEPT ![a] = 0] /\ 0 \in 0..MaxPkg
  BY <1>8, Assumed DEF StoredOK, UninstallUnmark
<2>2. known' \in [Apps -> 0..MaxPkg]
  BY <2>1, Updated DEF StoredOK
<2>3. UNCHANGED <<version, pkg, prompt, configured>>
  BY <1>8 DEF UninstallUnmark, jobRest
<2> QED
  BY <2>2, <2>3 DEF StoredOK
<1>9. ASSUME NEW a \in Apps, UninstallRecord(a) PROVE StoredOK'
<2>1. version' = [version EXCEPT ![a] = 0] /\ 0 \in 0..CodeVersion
  BY <1>9, Assumed DEF StoredOK, UninstallRecord
<2>2. version' \in [Apps -> 0..CodeVersion]
  BY <2>1, Updated DEF StoredOK
<2>3. UNCHANGED <<pkg, known, prompt, configured>>
  BY <1>9 DEF UninstallRecord, jobRest
<2> QED
  BY <2>2, <2>3 DEF StoredOK
<1>10. ASSUME NEW a \in Apps, ForceDeclined(a) PROVE StoredOK'
  BY <1>10 DEF StoredOK, ForceDeclined, stored, bounds, jobRest
<1>11. ASSUME NEW a \in Apps, ForceInstall(a) PROVE StoredOK'
<2>1. version' = version /\ configured' = configured
  BY <1>11 DEF ForceInstall, jobRest
<2>2. \/ prompt' = prompt /\ pkg' = pkg /\ known' = known
      \/ prompt[a] /\ ForceUpgrade(a)
  BY <1>11 DEF ForceInstall, jobRest
<2> QED
  BY <2>1, <2>2, ForceUpgrades DEF StoredOK
<1>12. ASSUME NEW a \in Apps, ForceConfigure(a) PROVE StoredOK'
<2>1. configured' = [configured EXCEPT ![a] = pkg[a]] /\ pkg[a] \in 0..MaxPkg
  BY <1>12, Assumed DEF StoredOK, ForceConfigure
<2>2. configured' \in [Apps -> 0..MaxPkg]
  BY <2>1, Updated DEF StoredOK
<2>3. UNCHANGED <<version, pkg, known, prompt>>
  BY <1>12 DEF ForceConfigure, jobRest
<2> QED
  BY <2>2, <2>3 DEF StoredOK
<1>13. ASSUME NEW kind \in Kinds, NEW a \in Apps, JobFails(<<kind, a>>)
      PROVE  StoredOK'
<2>1. configured' = configured \/ configured' = [configured EXCEPT ![a] = 0]
  BY <1>13 DEF JobFails
<2>2. configured' \in [Apps -> 0..MaxPkg]
  <3>1. 0 \in 0..MaxPkg
    BY Assumed
  <3> QED
    BY <2>1, <3>1, Updated DEF StoredOK
<2>3. UNCHANGED <<version, pkg, known, prompt>>
  BY <1>13 DEF JobFails
<2> QED
  BY <2>2, <2>3 DEF StoredOK
<1>14. ASSUME NEW a \in Apps, RepairEnd(a) PROVE StoredOK'
  BY <1>14 DEF StoredOK, RepairEnd, stored, bounds, jobRest
<1>15. ASSUME NEW a \in Forcible, CacheUpdated(a) PROVE StoredOK'
<2>1. UNCHANGED <<version, pkg, known, configured>>
  BY <1>15 DEF CacheUpdated, forceRest
<2>2. /\ prompt' = [prompt EXCEPT ![a] = TRUE] /\ pkg[a] \in 1..(MaxPkg - 1)
      /\ a \in Apps
  BY <1>15, Assumed DEF CacheUpdated
<2>3. /\ prompt' \in [Apps -> BOOLEAN]
      /\ \A b \in Apps \ {a} : prompt'[b] = prompt[b]
  BY <2>2, Switched DEF StoredOK
<2> QED
  BY <2>1, <2>2, <2>3 DEF StoredOK
<1>16. ASSUME NEW a \in Interested, PackageUpdated(a) PROVE StoredOK'
<2>1. UNCHANGED <<version, known, prompt, configured>> /\ ~prompt[a]
  BY <1>16 DEF PackageUpdated
<2>2. /\ pkg' = [pkg EXCEPT ![a] = pkg[a] + 1] /\ a \in Apps
      /\ pkg[a] \in 1..(MaxPkg - 1)
  BY <1>16, Assumed DEF PackageUpdated
<2>4. pkg[a] + 1 \in 0..MaxPkg
  BY <2>2, Assumed
<2>3. pkg' \in [Apps -> 0..MaxPkg] /\ \A b \in Apps \ {a} : pkg'[b] = pkg[b]
  BY <2>2, <2>4 DEF StoredOK
<2> QED
  BY <2>1, <2>2, <2>3, <2>4 DEF StoredOK
<1>17. ASSUME NEW a \in UserApps, UserSetup(a) PROVE StoredOK'
  BY <1>17 DEF StoredOK, UserSetup, NewSetup, New, stored, threads, bounds,
     userRest
<1>18. ASSUME NEW kind \in {"repair", "uninstall"},
             NEW a \in UserApps, UserRepairOrUninstall(kind, a)
      PROVE  StoredOK'
  BY <1>18 DEF StoredOK, UserRepairOrUninstall, New, stored, threads, bounds,
     userRest
<1>19. ASSUME StartupBegin PROVE StoredOK'
  BY <1>19 DEF StoredOK, StartupBegin, stored, bounds, startupRest
<1>20. ASSUME StartupAttempt PROVE StoredOK'
  BY <1>20 DEF StoredOK, StartupAttempt, stored, bounds, startupRest
<1>21. ASSUME StartupNext PROVE StoredOK'
  BY <1>21 DEF StoredOK, StartupNext, NewSetup, New, stored, bounds, startupRest
<1>22. ASSUME StartupJoined PROVE StoredOK'
  BY <1>22 DEF StoredOK, StartupJoined, stored, bounds, startupRest
<1>23. ASSUME StartupRetry PROVE StoredOK'
  BY <1>23 DEF StoredOK, StartupRetry, stored, bounds, startupRest
<1>24. ASSUME StartupSucceeds PROVE StoredOK'
  BY <1>24 DEF StoredOK, StartupSucceeds, stored, bounds, startupRest
<1>25. ASSUME StartupDpkg PROVE StoredOK'
  BY <1>25 DEF StoredOK, StartupDpkg, stored, bounds, startupRest
<1>26. ASSUME StartupForce PROVE StoredOK'
  BY <1>26 DEF StoredOK, StartupForce, stored, bounds, startupRest
<1>27. ASSUME DpkgInvoked PROVE StoredOK'
  BY <1>27 DEF StoredOK, DpkgInvoked, stored, dpkgRest
<1>28. ASSUME DpkgAttempt PROVE StoredOK'
  BY <1>28 DEF StoredOK, DpkgAttempt, Fail, stored, dpkgRest
<1>29. ASSUME DpkgNext PROVE StoredOK'
  BY <1>29 DEF StoredOK, DpkgNext, NewSetup, New, stored, dpkgRest
<1>30. ASSUME DpkgJoined PROVE StoredOK'
  BY <1>30 DEF StoredOK, DpkgJoined, stored, dpkgRest
<1>31. ASSUME DpkgCompletes PROVE StoredOK'
  BY <1>31 DEF StoredOK, DpkgCompletes, stored, dpkgRest
<1>32. ASSUME DpkgRetry PROVE StoredOK'
  BY <1>32 DEF StoredOK, DpkgRetry, stored, dpkgRest
<1>33. ASSUME ForceAttempt PROVE StoredOK'
  BY <1>33 DEF StoredOK, ForceAttempt, Fail, forceRest
<1>34. ASSUME NEW a \in Forcible, ForceNext(a) PROVE StoredOK'
  BY <1>34 DEF StoredOK, ForceNext, New, forceRest
<1>35. ASSUME ForceJoined PROVE StoredOK'
  BY <1>35 DEF StoredOK, ForceJoined, forceRest
<1>36. ASSUME ForceCompletes PROVE StoredOK'
  BY <1>36 DEF StoredOK, ForceCompletes, forceRest
<1>37. ASSUME ForceRetry PROVE StoredOK'
  BY <1>37 DEF StoredOK, ForceRetry, forceRest
<1>38. ASSUME Stop PROVE StoredOK'
  BY <1>38 DEF StoredOK, Stop, stored, threads, bounds
<1>39. ASSUME Restart PROVE StoredOK'
  BY <1>39 DEF StoredOK, Restart, stored
<1>40. CASE UNCHANGED vars
  BY <1>40 DEF StoredOK, vars, stored
<1> QED
  BY <1>1, <1>2, <1>3, <1>4, <1>5, <1>6, <1>7, <1>8, <1>9, <1>10, <1>11,
     <1>12, <1>13, <1>14, <1>15, <1>16, <1>17, <1>18, <1>19, <1>20,
     <1>21, <1>22, <1>23, <1>24, <1>25, <1>26, <1>27, <1>28, <1>29,
     <1>30, <1>31, <1>32, <1>33, <1>34, <1>35, <1>36, <1>37, <1>38,
     <1>39, <1>40
     DEF Next, JobStep, StartupStep, DpkgStep, ForceStep

(* The end of an operation gives the permission to install back.           *)
LEMMA PermissionBack ==
    ASSUME SwitchesOK, NEW j \in Jobs, NEW ok, JobEnd(j, ok)
    PROVE  mayInstall' \in [Apps -> BOOLEAN]
<1>1. j[2] \in Apps
  BY DEF Jobs
<1>2. mayInstall' = mayInstall \/ mayInstall' = [mayInstall EXCEPT ![j[2]] = TRUE]
  BY Zenon DEF JobEnd
<1> QED
  BY <1>1, <1>2, Switched DEF SwitchesOK

LEMMA SwitchesStep == SwitchesOK /\ [Next]_vars => SwitchesOK'
<1> SUFFICES ASSUME SwitchesOK, [Next]_vars PROVE SwitchesOK'
  OBVIOUS
<1>1. ASSUME NEW kind \in Kinds, NEW a \in Apps, JobStart(<<kind, a>>)
      PROVE  SwitchesOK'
  BY <1>1, Zenon DEF SwitchesOK, JobStart, Running, threads
<1>2. ASSUME NEW kind \in Kinds, NEW a \in Apps, SetupBegin(kind, a)
      PROVE  SwitchesOK'
<2>1. <<kind, a>> \in Jobs
  BY DEF Jobs
<2>2. mayInstall' = mayInstall \/ JobEnd(<<kind, a>>, FALSE)
  BY <1>2 DEF SetupBegin, JobGoesOn
<2>3. mayInstall' \in [Apps -> BOOLEAN]
  BY <2>1, <2>2, PermissionBack DEF SwitchesOK
<2>4. UNCHANGED <<firstSetup, stopping>> /\ (invoked' = invoked \/ invoked' = TRUE)
  BY <1>2 DEF SetupBegin, ForceUpgrade
<2> QED
  BY <2>3, <2>4 DEF SwitchesOK
<1>3. ASSUME NEW kind \in Kinds, NEW a \in Apps, SetupInstall(kind, a)
      PROVE  SwitchesOK'
<2>1. <<kind, a>> \in Jobs
  BY DEF Jobs
<2>2. mayInstall' = mayInstall \/ JobEnd(<<kind, a>>, FALSE)
  BY <1>3, InstallMoves
<2>3. mayInstall' \in [Apps -> BOOLEAN]
  BY <2>1, <2>2, PermissionBack DEF SwitchesOK
<2>4. UNCHANGED <<firstSetup, stopping>>
  BY <1>3 DEF SetupInstall
<2>5. invoked' = invoked \/ invoked' = (invoked \/ pkg' # pkg)
  BY <1>3 DEF SetupInstall
<2> QED
  BY <2>3, <2>4, <2>5 DEF SwitchesOK
<1>4. ASSUME NEW kind \in Kinds, NEW a \in Apps, SetupMark(kind, a)
      PROVE  SwitchesOK'
  BY <1>4, Zenon DEF SwitchesOK, SetupMark, JobGoesOn, threads, jobRest
<1>5. ASSUME NEW kind \in Kinds, NEW a \in Apps, SetupConfigure(kind, a)
      PROVE  SwitchesOK'
  BY <1>5, Zenon DEF SwitchesOK, SetupConfigure, JobGoesOn, threads, jobRest
<1>6. ASSUME NEW kind \in Kinds, NEW a \in Apps, SetupRecord(kind, a)
      PROVE  SwitchesOK'
<2>1. <<kind, a>> \in Jobs
  BY <1>6 DEF Jobs, Kinds
<2>2. JobEnd(<<kind, a>>, TRUE)
  BY <1>6 DEF SetupRecord
<2>3. mayInstall' \in [Apps -> BOOLEAN]
  BY <2>1, <2>2, PermissionBack
<2>4. UNCHANGED <<firstSetup, stopping, invoked>>
  BY <1>6 DEF SetupRecord, jobRest
<2> QED
  BY <2>3, <2>4 DEF SwitchesOK
<1>7. ASSUME NEW a \in Apps, UninstallRemove(a) PROVE SwitchesOK'
  BY <1>7, Zenon DEF SwitchesOK, UninstallRemove, JobGoesOn, threads, jobRest
<1>8. ASSUME NEW a \in Apps, UninstallUnmark(a) PROVE SwitchesOK'
  BY <1>8, Zenon DEF SwitchesOK, UninstallUnmark, JobGoesOn, threads, jobRest
<1>9. ASSUME NEW a \in Apps, UninstallRecord(a) PROVE SwitchesOK'
<2>1. <<"uninstall", a>> \in Jobs
  BY <1>9 DEF Jobs, Kinds
<2>2. JobEnd(<<"uninstall", a>>, TRUE)
  BY <1>9 DEF UninstallRecord
<2>3. mayInstall' \in [Apps -> BOOLEAN]
  BY <2>1, <2>2, PermissionBack
<2>4. UNCHANGED <<firstSetup, stopping, invoked>>
  BY <1>9 DEF UninstallRecord, jobRest
<2> QED
  BY <2>3, <2>4 DEF SwitchesOK
<1>10. ASSUME NEW a \in Apps, ForceDeclined(a) PROVE SwitchesOK'
<2>1. <<"force", a>> \in Jobs
  BY <1>10 DEF Jobs, Kinds
<2>2. JobEnd(<<"force", a>>, TRUE)
  BY <1>10 DEF ForceDeclined
<2>3. mayInstall' \in [Apps -> BOOLEAN]
  BY <2>1, <2>2, PermissionBack
<2>4. UNCHANGED <<firstSetup, stopping, invoked>>
  BY <1>10 DEF ForceDeclined, jobRest
<2> QED
  BY <2>3, <2>4 DEF SwitchesOK
<1>11. ASSUME NEW a \in Apps, ForceInstall(a) PROVE SwitchesOK'
  BY <1>11, Zenon DEF SwitchesOK, ForceInstall, ForceUpgrade, JobGoesOn,
     threads, jobRest
<1>12. ASSUME NEW a \in Apps, ForceConfigure(a) PROVE SwitchesOK'
<2>1. <<"force", a>> \in Jobs
  BY <1>12 DEF Jobs, Kinds
<2>2. JobEnd(<<"force", a>>, TRUE)
  BY <1>12 DEF ForceConfigure
<2>3. mayInstall' \in [Apps -> BOOLEAN]
  BY <2>1, <2>2, PermissionBack
<2>4. UNCHANGED <<firstSetup, stopping, invoked>>
  BY <1>12 DEF ForceConfigure, jobRest
<2> QED
  BY <2>3, <2>4 DEF SwitchesOK
<1>13. ASSUME NEW kind \in Kinds, NEW a \in Apps, JobFails(<<kind, a>>)
      PROVE  SwitchesOK'
<2>1. <<kind, a>> \in Jobs
  BY <1>13 DEF Jobs, Kinds
<2>2. JobEnd(<<kind, a>>, FALSE)
  BY <1>13 DEF JobFails
<2>3. mayInstall' \in [Apps -> BOOLEAN]
  BY <2>1, <2>2, PermissionBack
<2>4. UNCHANGED <<firstSetup, stopping, invoked>>
  BY <1>13 DEF JobFails
<2> QED
  BY <2>3, <2>4 DEF SwitchesOK
<1>14. ASSUME NEW a \in Apps, RepairEnd(a) PROVE SwitchesOK'
<2>1. <<"repair", a>> \in Jobs
  BY <1>14 DEF Jobs, Kinds
<2>2. JobEnd(<<"repair", a>>, TRUE)
  BY <1>14 DEF RepairEnd
<2>3. mayInstall' \in [Apps -> BOOLEAN]
  BY <2>1, <2>2, PermissionBack
<2>4. UNCHANGED <<firstSetup, stopping, invoked>>
  BY <1>14 DEF RepairEnd, jobRest
<2> QED
  BY <2>3, <2>4 DEF SwitchesOK
<1>15. ASSUME NEW a \in Forcible, CacheUpdated(a) PROVE SwitchesOK'
  BY <1>15, Zenon DEF SwitchesOK, CacheUpdated, forceRest
<1>16. ASSUME NEW a \in Interested, PackageUpdated(a) PROVE SwitchesOK'
  BY <1>16, Zenon DEF SwitchesOK, PackageUpdated, threads
<1>17. ASSUME NEW a \in UserApps, UserSetup(a) PROVE SwitchesOK'
<2>1. a \in Apps
  BY <1>17, Assumed DEF UserSetup, Apps
<2>2. \/ mayInstall' = mayInstall
      \/ mayInstall' = [mayInstall EXCEPT ![a] = TRUE]
  BY <1>17, Zenon DEF UserSetup, NewSetup
<2>3. mayInstall' \in [Apps -> BOOLEAN]
  BY <2>1, <2>2, Switched DEF SwitchesOK
<2>4. UNCHANGED <<firstSetup, stopping, invoked>>
  BY <1>17 DEF UserSetup, userRest
<2> QED
  BY <2>3, <2>4 DEF SwitchesOK
<1>18. ASSUME NEW kind \in {"repair", "uninstall"},
             NEW a \in UserApps, UserRepairOrUninstall(kind, a)
      PROVE  SwitchesOK'
  BY <1>18, Zenon DEF SwitchesOK, UserRepairOrUninstall, New, threads, userRest
<1>19. ASSUME StartupBegin PROVE SwitchesOK'
  BY <1>19, Zenon DEF SwitchesOK, StartupBegin, startupRest
<1>20. ASSUME StartupAttempt PROVE SwitchesOK'
<2>1. firstSetup' \in BOOLEAN
  BY <1>20 DEF StartupAttempt
<2>2. UNCHANGED <<mayInstall, stopping, invoked>>
  BY <1>20 DEF StartupAttempt, startupRest
<2> QED
  BY <2>1, <2>2 DEF SwitchesOK
<1>21. ASSUME StartupNext PROVE SwitchesOK'
<2>1. AppList[startup.idx] \in Apps
  BY <1>21, Assumed DEF StartupNext, Apps
<2>2. \/ mayInstall' = mayInstall
      \/ mayInstall' = [mayInstall EXCEPT ![AppList[startup.idx]] = ~startup.first]
  BY <1>21, Zenon DEF StartupNext, NewSetup
<2>3. mayInstall' \in [Apps -> BOOLEAN]
  BY <2>1, <2>2, Switched DEF SwitchesOK
<2>4. UNCHANGED <<firstSetup, stopping, invoked>>
  BY <1>21 DEF StartupNext, startupRest
<2> QED
  BY <2>3, <2>4 DEF SwitchesOK
<1>22. ASSUME StartupJoined PROVE SwitchesOK'
  BY <1>22, Zenon DEF SwitchesOK, StartupJoined, startupRest
<1>23. ASSUME StartupRetry PROVE SwitchesOK'
  BY <1>23, Zenon DEF SwitchesOK, StartupRetry, startupRest
<1>24. ASSUME StartupSucceeds PROVE SwitchesOK'
<2>1. firstSetup' \in BOOLEAN
  BY <1>24 DEF StartupSucceeds
<2>2. UNCHANGED <<mayInstall, stopping, invoked>>
  BY <1>24 DEF StartupSucceeds, startupRest
<2> QED
  BY <2>1, <2>2 DEF SwitchesOK
<1>25. ASSUME StartupDpkg PROVE SwitchesOK'
  BY <1>25, Zenon DEF SwitchesOK, StartupDpkg, startupRest
<1>26. ASSUME StartupForce PROVE SwitchesOK'
  BY <1>26, Zenon DEF SwitchesOK, StartupForce, startupRest
<1>27. ASSUME DpkgInvoked PROVE SwitchesOK'
  BY <1>27, Zenon DEF SwitchesOK, DpkgInvoked, dpkgRest
<1>28. ASSUME DpkgAttempt PROVE SwitchesOK'
  BY <1>28, Zenon DEF SwitchesOK, DpkgAttempt, Fail, dpkgRest
<1>29. ASSUME DpkgNext PROVE SwitchesOK'
<2>1. AppList[dpkg.idx] \in Apps
  BY <1>29, Assumed DEF DpkgNext, Apps
<2>2. \/ mayInstall' = mayInstall
      \/ mayInstall' = [mayInstall EXCEPT ![AppList[dpkg.idx]] = TRUE]
  BY <1>29, Zenon DEF DpkgNext, NewSetup
<2>3. mayInstall' \in [Apps -> BOOLEAN]
  BY <2>1, <2>2, Switched DEF SwitchesOK
<2>4. UNCHANGED <<firstSetup, stopping, invoked>>
  BY <1>29 DEF DpkgNext, dpkgRest
<2> QED
  BY <2>3, <2>4 DEF SwitchesOK
<1>30. ASSUME DpkgJoined PROVE SwitchesOK'
  BY <1>30, Zenon DEF SwitchesOK, DpkgJoined, dpkgRest
<1>31. ASSUME DpkgCompletes PROVE SwitchesOK'
  BY <1>31, Zenon DEF SwitchesOK, DpkgCompletes, dpkgRest
<1>32. ASSUME DpkgRetry PROVE SwitchesOK'
  BY <1>32, Zenon DEF SwitchesOK, DpkgRetry, dpkgRest
<1>33. ASSUME ForceAttempt PROVE SwitchesOK'
  BY <1>33, Zenon DEF SwitchesOK, ForceAttempt, Fail, forceRest
<1>34. ASSUME NEW a \in Forcible, ForceNext(a) PROVE SwitchesOK'
  BY <1>34, Zenon DEF SwitchesOK, ForceNext, New, forceRest
<1>35. ASSUME ForceJoined PROVE SwitchesOK'
  BY <1>35, Zenon DEF SwitchesOK, ForceJoined, forceRest
<1>36. ASSUME ForceCompletes PROVE SwitchesOK'
  BY <1>36, Zenon DEF SwitchesOK, ForceCompletes, forceRest
<1>37. ASSUME ForceRetry PROVE SwitchesOK'
  BY <1>37, Zenon DEF SwitchesOK, ForceRetry, forceRest
<1>38. ASSUME Stop PROVE SwitchesOK'
  BY <1>38, Zenon DEF SwitchesOK, Stop, threads
<1>39. ASSUME Restart PROVE SwitchesOK'
  BY <1>39 DEF SwitchesOK, Restart
<1>40. CASE UNCHANGED vars
  BY <1>40 DEF SwitchesOK, vars
<1> QED
  BY <1>1, <1>2, <1>3, <1>4, <1>5, <1>6, <1>7, <1>8, <1>9, <1>10, <1>11,
     <1>12, <1>13, <1>14, <1>15, <1>16, <1>17, <1>18, <1>19, <1>20,
     <1>21, <1>22, <1>23, <1>24, <1>25, <1>26, <1>27, <1>28, <1>29,
     <1>30, <1>31, <1>32, <1>33, <1>34, <1>35, <1>36, <1>37, <1>38,
     <1>39, <1>40
     DEF Next, JobStep, StartupStep, DpkgStep, ForceStep
LEMMA CountsStep == CountsOK /\ [Next]_vars => CountsOK'
<1> SUFFICES ASSUME CountsOK, [Next]_vars PROVE CountsOK'
  OBVIOUS
<1>1. ASSUME NEW kind \in Kinds, NEW a \in Apps, JobStart(<<kind, a>>)
      PROVE  CountsOK'
  BY <1>1, Assumed DEF CountsOK, JobStart, Running, bounds
<1>2. ASSUME NEW kind \in Kinds, NEW a \in Apps, SetupBegin(kind, a) PROVE CountsOK'
  BY <1>2, Assumed DEF CountsOK, SetupBegin, ForceUpgrade, JobGoesOn, bounds,
     jobRest
<1>3. ASSUME NEW kind \in Kinds, NEW a \in Apps, SetupInstall(kind, a)
      PROVE  CountsOK'
  BY <1>3, Assumed DEF CountsOK, SetupInstall, JobGoesOn, bounds, jobRest
<1>4. ASSUME NEW kind \in Kinds, NEW a \in Apps, SetupMark(kind, a) PROVE CountsOK'
  BY <1>4, Assumed DEF CountsOK, SetupMark, JobGoesOn, bounds, jobRest
<1>5. ASSUME NEW kind \in Kinds, NEW a \in Apps, SetupConfigure(kind, a)
      PROVE  CountsOK'
  BY <1>5, Assumed DEF CountsOK, SetupConfigure, JobGoesOn, bounds, jobRest
<1>6. ASSUME NEW kind \in Kinds, NEW a \in Apps, SetupRecord(kind, a)
      PROVE  CountsOK'
  BY <1>6, Assumed DEF CountsOK, SetupRecord, bounds, jobRest
<1>7. ASSUME NEW a \in Apps, UninstallRemove(a) PROVE CountsOK'
  BY <1>7, Assumed DEF CountsOK, UninstallRemove, JobGoesOn, bounds, jobRest
<1>8. ASSUME NEW a \in Apps, UninstallUnmark(a) PROVE CountsOK'
  BY <1>8, Assumed DEF CountsOK, UninstallUnmark, JobGoesOn, bounds, jobRest
<1>9. ASSUME NEW a \in Apps, UninstallRecord(a) PROVE CountsOK'
  BY <1>9, Assumed DEF CountsOK, UninstallRecord, bounds, jobRest
<1>10. ASSUME NEW a \in Apps, ForceDeclined(a) PROVE CountsOK'
  BY <1>10, Assumed DEF CountsOK, ForceDeclined, bounds, jobRest
<1>11. ASSUME NEW a \in Apps, ForceInstall(a) PROVE CountsOK'
  BY <1>11, Assumed DEF CountsOK, ForceInstall, ForceUpgrade, JobGoesOn, bounds,
     jobRest
<1>12. ASSUME NEW a \in Apps, ForceConfigure(a) PROVE CountsOK'
  BY <1>12, Assumed DEF CountsOK, ForceConfigure, bounds, jobRest
<1>13. ASSUME NEW kind \in Kinds, NEW a \in Apps, JobFails(<<kind, a>>)
      PROVE  CountsOK'
  BY <1>13, Assumed DEF CountsOK, JobFails, Fail
<1>14. ASSUME NEW a \in Apps, RepairEnd(a) PROVE CountsOK'
  BY <1>14, Assumed DEF CountsOK, RepairEnd, bounds, jobRest
<1>15. ASSUME NEW a \in Forcible, CacheUpdated(a) PROVE CountsOK'
  BY <1>15, Assumed DEF CountsOK, CacheUpdated, forceRest
<1>16. ASSUME NEW a \in Interested, PackageUpdated(a) PROVE CountsOK'
  BY <1>16, Assumed DEF CountsOK, PackageUpdated, bounds
<1>17. ASSUME NEW a \in UserApps, UserSetup(a) PROVE CountsOK'
  BY <1>17, Assumed DEF CountsOK, UserSetup, NewSetup, New, bounds, userRest
<1>18. ASSUME NEW kind \in {"repair", "uninstall"},
             NEW a \in UserApps, UserRepairOrUninstall(kind, a)
      PROVE  CountsOK'
  BY <1>18, Assumed DEF CountsOK, UserRepairOrUninstall, New, bounds, userRest
<1>19. ASSUME StartupBegin PROVE CountsOK'
  BY <1>19, Assumed DEF CountsOK, StartupBegin, bounds, startupRest
<1>20. ASSUME StartupAttempt PROVE CountsOK'
  BY <1>20, Assumed DEF CountsOK, StartupAttempt, bounds, startupRest
<1>21. ASSUME StartupNext PROVE CountsOK'
  BY <1>21, Assumed DEF CountsOK, StartupNext, NewSetup, New, bounds,
     startupRest
<1>22. ASSUME StartupJoined PROVE CountsOK'
  BY <1>22, Assumed DEF CountsOK, StartupJoined, bounds, startupRest
<1>23. ASSUME StartupRetry PROVE CountsOK'
  BY <1>23, Assumed DEF CountsOK, StartupRetry, bounds, startupRest
<1>24. ASSUME StartupSucceeds PROVE CountsOK'
  BY <1>24, Assumed DEF CountsOK, StartupSucceeds, bounds, startupRest
<1>25. ASSUME StartupDpkg PROVE CountsOK'
  BY <1>25, Assumed DEF CountsOK, StartupDpkg, bounds, startupRest
<1>26. ASSUME StartupForce PROVE CountsOK'
  BY <1>26, Assumed DEF CountsOK, StartupForce, bounds, startupRest
<1>27. ASSUME DpkgInvoked PROVE CountsOK'
  BY <1>27, Assumed DEF CountsOK, DpkgInvoked, dpkgRest
<1>28. ASSUME DpkgAttempt PROVE CountsOK'
  BY <1>28, Assumed DEF CountsOK, DpkgAttempt, Fail, dpkgRest
<1>29. ASSUME DpkgNext PROVE CountsOK'
  BY <1>29, Assumed DEF CountsOK, DpkgNext, NewSetup, New, dpkgRest
<1>30. ASSUME DpkgJoined PROVE CountsOK'
  BY <1>30, Assumed DEF CountsOK, DpkgJoined, dpkgRest
<1>31. ASSUME DpkgCompletes PROVE CountsOK'
  BY <1>31, Assumed DEF CountsOK, DpkgCompletes, dpkgRest
<1>32. ASSUME DpkgRetry PROVE CountsOK'
  BY <1>32, Assumed DEF CountsOK, DpkgRetry, dpkgRest
<1>33. ASSUME ForceAttempt PROVE CountsOK'
  BY <1>33, Assumed DEF CountsOK, ForceAttempt, Fail, forceRest
<1>34. ASSUME NEW a \in Forcible, ForceNext(a) PROVE CountsOK'
  BY <1>34, Assumed DEF CountsOK, ForceNext, New, forceRest
<1>35. ASSUME ForceJoined PROVE CountsOK'
  BY <1>35, Assumed DEF CountsOK, ForceJoined, forceRest
<1>36. ASSUME ForceCompletes PROVE CountsOK'
  BY <1>36, Assumed DEF CountsOK, ForceCompletes, forceRest
<1>37. ASSUME ForceRetry PROVE CountsOK'
  BY <1>37, Assumed DEF CountsOK, ForceRetry, forceRest
<1>38. ASSUME Stop PROVE CountsOK'
  BY <1>38, Assumed DEF CountsOK, Stop, bounds
<1>39. ASSUME Restart PROVE CountsOK'
  BY <1>39, Assumed DEF CountsOK, Restart
<1>40. CASE UNCHANGED vars
  BY <1>40 DEF CountsOK, vars, bounds
<1> QED
  BY <1>1, <1>2, <1>3, <1>4, <1>5, <1>6, <1>7, <1>8, <1>9, <1>10, <1>11,
     <1>12, <1>13, <1>14, <1>15, <1>16, <1>17, <1>18, <1>19, <1>20,
     <1>21, <1>22, <1>23, <1>24, <1>25, <1>26, <1>27, <1>28, <1>29,
     <1>30, <1>31, <1>32, <1>33, <1>34, <1>35, <1>36, <1>37, <1>38,
     <1>39, <1>40
     DEF Next, JobStep, StartupStep, DpkgStep, ForceStep

(* A step of one operation, to a stage of its kind.                        *)
LEMMA StageMoves ==
    ASSUME JobsOK, NEW kind \in Kinds, NEW a \in Apps, NEW s \in StagesOf(kind),
           job' = [job EXCEPT ![<<kind, a>>] = s]
    PROVE  JobsOK'
<1>1. s \in Stages
  BY DEF StagesOf, Stages
<1>2. <<kind, a>> \in Jobs
  BY DEF Jobs
<1>3. job' \in [Jobs -> Stages]
  BY <1>1, <1>2 DEF JobsOK
<1>4. ASSUME NEW k \in Kinds, NEW b \in Apps PROVE job'[<<k, b>>] \in StagesOf(k)
  <2>1. <<k, b>> \in Jobs
    BY DEF Jobs
  <2>2. CASE k = kind /\ b = a
    BY <1>2, <2>2 DEF JobsOK
  <2>3. CASE k # kind \/ b # a
    <3>1. job'[<<k, b>>] = job[<<k, b>>]
      BY <1>2, <2>1, <2>3 DEF JobsOK
    <3> QED
      BY <3>1 DEF JobsOK
  <2> QED
    BY <2>2, <2>3
<1> QED
  BY <1>3, <1>4 DEF JobsOK

LEMMA JobsStep == JobsOK /\ [Next]_vars => JobsOK'
<1> SUFFICES ASSUME JobsOK, [Next]_vars PROVE JobsOK'
  OBVIOUS
<1>1. ASSUME NEW kind \in Kinds, NEW a \in Apps, JobStart(<<kind, a>>) PROVE JobsOK'
<2>1. \E s \in StagesOf(kind) : job' = [job EXCEPT ![<<kind, a>>] = s]
  BY <1>1 DEF JobStart, StagesOf, Kinds
<2> QED
  BY <1>1, <2>1, StageMoves DEF Kinds
<1>2. ASSUME NEW kind \in Kinds, NEW a \in Apps, SetupBegin(kind, a) PROVE JobsOK'
<2>1. \E s \in StagesOf(kind) : job' = [job EXCEPT ![<<kind, a>>] = s]
  BY <1>2 DEF SetupBegin, JobGoesOn, JobEnd, StagesOf, Kinds
<2> QED
  BY <1>2, <2>1, StageMoves DEF Kinds
<1>3. ASSUME NEW kind \in Kinds, NEW a \in Apps, SetupInstall(kind, a) PROVE JobsOK'
<2>1. kind \in {"setup", "repair"}
  BY <1>3, InstallMoves DEF JobsOK, StagesOf, Kinds
<2>2. \E s \in StagesOf(kind) : job' = [job EXCEPT ![<<kind, a>>] = s]
  <3>1. \E s \in {"mark", "configure", "none"} : job' = [job EXCEPT ![<<kind, a>>] = s]
    BY <1>3, InstallMoves
  <3>2. {"mark", "configure", "none"} \subseteq StagesOf(kind)
    BY <2>1 DEF StagesOf
  <3> QED
    BY <3>1, <3>2
<2> QED
  BY <2>2, StageMoves
<1>4. ASSUME NEW kind \in Kinds, NEW a \in Apps, SetupMark(kind, a) PROVE JobsOK'
<2>1. kind \in {"setup", "repair"}
  BY <1>4 DEF SetupMark, JobGoesOn, JobsOK, StagesOf, Kinds
<2>2. \E s \in StagesOf(kind) : job' = [job EXCEPT ![<<kind, a>>] = s]
  BY <1>4, <2>1 DEF SetupMark, JobGoesOn, StagesOf
<2> QED
  BY <2>2, StageMoves
<1>5. ASSUME NEW kind \in Kinds, NEW a \in Apps, SetupConfigure(kind, a)
      PROVE  JobsOK'
<2>1. kind \in {"setup", "repair"}
  BY <1>5 DEF SetupConfigure, JobGoesOn, JobsOK, StagesOf, Kinds
<2>2. \E s \in StagesOf(kind) : job' = [job EXCEPT ![<<kind, a>>] = s]
  BY <1>5, <2>1 DEF SetupConfigure, JobGoesOn, StagesOf
<2> QED
  BY <2>2, StageMoves
<1>6. ASSUME NEW kind \in Kinds, NEW a \in Apps, SetupRecord(kind, a) PROVE JobsOK'
<2>1. \E s \in StagesOf(kind) : job' = [job EXCEPT ![<<kind, a>>] = s]
  BY <1>6 DEF SetupRecord, JobEnd, StagesOf, Kinds
<2> QED
  BY <1>6, <2>1, StageMoves DEF Kinds
<1>7. ASSUME NEW a \in Apps, UninstallRemove(a) PROVE JobsOK'
<2>1. \E s \in StagesOf("uninstall") : job' = [job EXCEPT ![<<"uninstall", a>>] = s]
  BY <1>7 DEF UninstallRemove, JobGoesOn, StagesOf, Kinds
<2> QED
  BY <1>7, <2>1, StageMoves DEF Kinds
<1>8. ASSUME NEW a \in Apps, UninstallUnmark(a) PROVE JobsOK'
<2>1. \E s \in StagesOf("uninstall") : job' = [job EXCEPT ![<<"uninstall", a>>] = s]
  BY <1>8 DEF UninstallUnmark, JobGoesOn, StagesOf, Kinds
<2> QED
  BY <1>8, <2>1, StageMoves DEF Kinds
<1>9. ASSUME NEW a \in Apps, UninstallRecord(a) PROVE JobsOK'
<2>1. \E s \in StagesOf("uninstall") : job' = [job EXCEPT ![<<"uninstall", a>>] = s]
  BY <1>9 DEF UninstallRecord, JobEnd, StagesOf, Kinds
<2> QED
  BY <1>9, <2>1, StageMoves DEF Kinds
<1>10. ASSUME NEW a \in Apps, ForceDeclined(a) PROVE JobsOK'
<2>1. \E s \in StagesOf("force") : job' = [job EXCEPT ![<<"force", a>>] = s]
  BY <1>10 DEF ForceDeclined, JobEnd, StagesOf, Kinds
<2> QED
  BY <1>10, <2>1, StageMoves DEF Kinds
<1>11. ASSUME NEW a \in Apps, ForceInstall(a) PROVE JobsOK'
<2>1. \E s \in StagesOf("force") : job' = [job EXCEPT ![<<"force", a>>] = s]
  BY <1>11 DEF ForceInstall, JobGoesOn, StagesOf, Kinds
<2> QED
  BY <1>11, <2>1, StageMoves DEF Kinds
<1>12. ASSUME NEW a \in Apps, ForceConfigure(a) PROVE JobsOK'
<2>1. \E s \in StagesOf("force") : job' = [job EXCEPT ![<<"force", a>>] = s]
  BY <1>12 DEF ForceConfigure, JobEnd, StagesOf, Kinds
<2> QED
  BY <1>12, <2>1, StageMoves DEF Kinds
<1>13. ASSUME NEW kind \in Kinds, NEW a \in Apps, JobFails(<<kind, a>>)
      PROVE  JobsOK'
<2>1. \E s \in StagesOf(kind) : job' = [job EXCEPT ![<<kind, a>>] = s]
  BY <1>13 DEF JobFails, JobEnd, StagesOf, Kinds
<2> QED
  BY <1>13, <2>1, StageMoves DEF Kinds
<1>14. ASSUME NEW a \in Apps, RepairEnd(a) PROVE JobsOK'
<2>1. \E s \in StagesOf("repair") : job' = [job EXCEPT ![<<"repair", a>>] = s]
  BY <1>14 DEF RepairEnd, JobEnd, StagesOf, Kinds
<2> QED
  BY <1>14, <2>1, StageMoves DEF Kinds
<1>15. ASSUME NEW a \in Forcible, CacheUpdated(a) PROVE JobsOK'
  BY <1>15 DEF JobsOK, CacheUpdated, forceRest
<1>16. ASSUME NEW a \in Interested, PackageUpdated(a) PROVE JobsOK'
  BY <1>16 DEF JobsOK, PackageUpdated
<1>17. ASSUME NEW a \in UserApps, UserSetup(a) PROVE JobsOK'
<2>1. a \in Apps /\ "setup" \in Kinds
  BY <1>17, Assumed DEF Kinds
<2>2. \E s \in StagesOf("setup") : job' = [job EXCEPT ![<<"setup", a>>] = s]
  BY <1>17 DEF UserSetup, NewSetup, New, StagesOf
<2> QED
  BY <2>1, <2>2, StageMoves
<1>18. ASSUME NEW kind \in {"repair", "uninstall"},
             NEW a \in UserApps, UserRepairOrUninstall(kind, a)
      PROVE  JobsOK'
<2>1. a \in Apps /\ kind \in Kinds
  BY <1>18, Assumed DEF Kinds
<2>2. \E s \in StagesOf(kind) : job' = [job EXCEPT ![<<kind, a>>] = s]
  BY <1>18 DEF UserRepairOrUninstall, New, StagesOf
<2> QED
  BY <2>1, <2>2, StageMoves
<1>19. ASSUME StartupBegin PROVE JobsOK'
  BY <1>19 DEF JobsOK, StartupBegin, startupRest
<1>20. ASSUME StartupAttempt PROVE JobsOK'
  BY <1>20 DEF JobsOK, StartupAttempt, startupRest
<1>21. ASSUME StartupNext PROVE JobsOK'
<2>1. AppList[startup.idx] \in Apps /\ "setup" \in Kinds
  BY <1>21, Assumed DEF StartupNext, Apps, Kinds
<2>2. \/ UNCHANGED job
      \/ \E s \in StagesOf("setup") : job' = [job EXCEPT ![<<"setup", AppList[startup.idx]>>] = s]
  BY <1>21, Zenon DEF StartupNext, NewSetup, New, StagesOf
<2>3. CASE UNCHANGED job
  BY <2>3 DEF JobsOK
<2>4. CASE \E s \in StagesOf("setup") : job' = [job EXCEPT ![<<"setup", AppList[startup.idx]>>] = s]
  BY <2>1, <2>4, StageMoves
<2> QED
  BY <2>2, <2>3, <2>4
<1>22. ASSUME StartupJoined PROVE JobsOK'
  BY <1>22 DEF JobsOK, StartupJoined, startupRest
<1>23. ASSUME StartupRetry PROVE JobsOK'
  BY <1>23 DEF JobsOK, StartupRetry, startupRest
<1>24. ASSUME StartupSucceeds PROVE JobsOK'
  BY <1>24 DEF JobsOK, StartupSucceeds, startupRest
<1>25. ASSUME StartupDpkg PROVE JobsOK'
  BY <1>25 DEF JobsOK, StartupDpkg, startupRest
<1>26. ASSUME StartupForce PROVE JobsOK'
  BY <1>26 DEF JobsOK, StartupForce, startupRest
<1>27. ASSUME DpkgInvoked PROVE JobsOK'
  BY <1>27 DEF JobsOK, DpkgInvoked, dpkgRest
<1>28. ASSUME DpkgAttempt PROVE JobsOK'
  BY <1>28 DEF JobsOK, DpkgAttempt, Fail, dpkgRest
<1>29. ASSUME DpkgNext PROVE JobsOK'
<2>1. AppList[dpkg.idx] \in Apps /\ "setup" \in Kinds
  BY <1>29, Assumed DEF DpkgNext, Apps, Kinds
<2>2. \/ UNCHANGED job
      \/ \E s \in StagesOf("setup") : job' = [job EXCEPT ![<<"setup", AppList[dpkg.idx]>>] = s]
  BY <1>29, Zenon DEF DpkgNext, NewSetup, New, StagesOf
<2>3. CASE UNCHANGED job
  BY <2>3 DEF JobsOK
<2>4. CASE \E s \in StagesOf("setup") : job' = [job EXCEPT ![<<"setup", AppList[dpkg.idx]>>] = s]
  BY <2>1, <2>4, StageMoves
<2> QED
  BY <2>2, <2>3, <2>4
<1>30. ASSUME DpkgJoined PROVE JobsOK'
  BY <1>30 DEF JobsOK, DpkgJoined, dpkgRest
<1>31. ASSUME DpkgCompletes PROVE JobsOK'
  BY <1>31 DEF JobsOK, DpkgCompletes, dpkgRest
<1>32. ASSUME DpkgRetry PROVE JobsOK'
  BY <1>32 DEF JobsOK, DpkgRetry, dpkgRest
<1>33. ASSUME ForceAttempt PROVE JobsOK'
  BY <1>33 DEF JobsOK, ForceAttempt, Fail, forceRest
<1>34. ASSUME NEW a \in Forcible, ForceNext(a) PROVE JobsOK'
<2>1. a \in Apps /\ "force" \in Kinds
  BY <1>34, Assumed DEF Kinds
<2>2. \E s \in StagesOf("force") : job' = [job EXCEPT ![<<"force", a>>] = s]
  BY <1>34 DEF ForceNext, New, StagesOf
<2> QED
  BY <2>1, <2>2, StageMoves
<1>35. ASSUME ForceJoined PROVE JobsOK'
  BY <1>35 DEF JobsOK, ForceJoined, forceRest
<1>36. ASSUME ForceCompletes PROVE JobsOK'
  BY <1>36 DEF JobsOK, ForceCompletes, forceRest
<1>37. ASSUME ForceRetry PROVE JobsOK'
  BY <1>37 DEF JobsOK, ForceRetry, forceRest
<1>38. ASSUME Stop PROVE JobsOK'
  BY <1>38 DEF JobsOK, Stop
<1>39. ASSUME Restart PROVE JobsOK'
<2>1. job' = [j \in Jobs |-> "none"]
  BY <1>39 DEF Restart
<2>2. \A kind \in Kinds, b \in Apps : job'[<<kind, b>>] = "none"
  BY <2>1 DEF Jobs
<2> QED
  BY <2>1, <2>2 DEF JobsOK, StagesOf, Stages
<1>40. CASE UNCHANGED vars
  BY <1>40 DEF JobsOK, vars
<1> QED
  BY <1>1, <1>2, <1>3, <1>4, <1>5, <1>6, <1>7, <1>8, <1>9, <1>10, <1>11,
     <1>12, <1>13, <1>14, <1>15, <1>16, <1>17, <1>18, <1>19, <1>20,
     <1>21, <1>22, <1>23, <1>24, <1>25, <1>26, <1>27, <1>28, <1>29,
     <1>30, <1>31, <1>32, <1>33, <1>34, <1>35, <1>36, <1>37, <1>38,
     <1>39, <1>40
     DEF Next, JobStep, StartupStep, DpkgStep, ForceStep

LEMMA Sizes ==
    /\ Len(AppList) \in Nat /\ Len(AppList) > 0 /\ DOMAIN AppList = 1..Len(AppList)
    /\ Attempts \in Nat /\ Attempts > 0 /\ AppList[1] \in Apps
  BY Assumed

(* The values the threads begin and end with.                              *)
LEMMA Rests ==
    /\ AtStart \in StartupThread /\ AtStart.at = "start"
    /\ [AtStart EXCEPT !.at = "dpkg"] \in StartupThread
    /\ [AtStart EXCEPT !.at = "dpkg"].at = "dpkg"
    /\ Resting \in DpkgThread /\ Resting.at = "idle"
    /\ [Resting EXCEPT !.at = "attempt"] \in DpkgThread
    /\ [Resting EXCEPT !.at = "attempt"].at = "attempt"
    /\ NotForcing \in ForceThread
<1>1. 1 \in Indices /\ 0 \in Tries
  BY Sizes DEF Indices, Tries
<1>2. /\ AtStart \in StartupThread /\ AtStart.at = "start"
      /\ [AtStart EXCEPT !.at = "dpkg"] \in StartupThread
      /\ [AtStart EXCEPT !.at = "dpkg"].at = "dpkg"
  BY <1>1 DEF AtStart, StartupThread
<1>3. /\ Resting \in DpkgThread /\ Resting.at = "idle"
      /\ [Resting EXCEPT !.at = "attempt"] \in DpkgThread
      /\ [Resting EXCEPT !.at = "attempt"].at = "attempt"
  BY <1>1 DEF Resting, DpkgThread
<1>4. NotForcing \in ForceThread
  BY <1>1, Sizes DEF NotForcing, ForceThread
<1> QED
  BY <1>2, <1>3, <1>4

(* The end of an operation wakes the threads that join it.                 *)
LEMMA JobEnds ==
    ASSUME ThreadsOK, NEW j \in Jobs, NEW ok \in BOOLEAN, JobEnd(j, ok)
    PROVE  /\ \/ startup' = startup
              \/ /\ startup.at = "join" /\ j = <<"setup", AppList[startup.idx]>>
                 /\ startup' = [startup EXCEPT !.at = IF ok THEN "joined" ELSE "raised"]
           /\ ThreadsOK'
<1> DEFINE back == IF ok THEN "joined" ELSE "raised"
<1>0. back \in {"joined", "raised"}
  OBVIOUS
<1>3. \/ startup' = startup
      \/ /\ startup.at = "join" /\ j = <<"setup", AppList[startup.idx]>>
         /\ startup' = [startup EXCEPT !.at = back]
  BY DEF JobEnd
<1>4. dpkg' = dpkg \/ (dpkg.at = "join" /\ dpkg' = [dpkg EXCEPT !.at = back])
  BY DEF JobEnd
<1>5. force' = force \/ (force.at = "join" /\ force' = [force EXCEPT !.at = back])
  BY DEF JobEnd
<1> HIDE DEF back
<1>6. /\ startup' \in StartupThread
      /\ startup'.at \in {"join", "joined"} => startup'.idx \in DOMAIN AppList
  BY <1>0, <1>3 DEF ThreadsOK, StartupThread
<1>7. /\ dpkg' \in DpkgThread
      /\ dpkg'.at \in {"join", "joined"} => dpkg'.idx \in DOMAIN AppList
  BY <1>0, <1>4 DEF ThreadsOK, DpkgThread
<1>8. force' \in ForceThread
  BY <1>0, <1>5 DEF ThreadsOK, ForceThread
<1>9. ThreadsOK'
  BY <1>6, <1>7, <1>8 DEF ThreadsOK
<1> QED
  BY <1>3, <1>9 DEF back

LEMMA ThreadsStep == ThreadsOK /\ [Next]_vars => ThreadsOK'
<1> SUFFICES ASSUME ThreadsOK, [Next]_vars PROVE ThreadsOK'
  OBVIOUS
<1>1. ASSUME NEW kind \in Kinds, NEW a \in Apps, JobStart(<<kind, a>>)
      PROVE  ThreadsOK'
  BY <1>1 DEF ThreadsOK, JobStart, Running, threads
<1>2. ASSUME NEW kind \in Kinds, NEW a \in Apps, SetupBegin(kind, a)
      PROVE  ThreadsOK'
<2>1. <<kind, a>> \in Jobs
  BY DEF Jobs
<2>2. UNCHANGED threads \/ JobEnd(<<kind, a>>, FALSE)
  BY <1>2 DEF SetupBegin, JobGoesOn
<2> QED
  BY <2>1, <2>2, JobEnds DEF ThreadsOK, threads
<1>3. ASSUME NEW kind \in Kinds, NEW a \in Apps, SetupInstall(kind, a)
      PROVE  ThreadsOK'
<2>1. <<kind, a>> \in Jobs
  BY DEF Jobs
<2>2. UNCHANGED threads \/ JobEnd(<<kind, a>>, FALSE)
  BY <1>3, InstallMoves
<2> QED
  BY <2>1, <2>2, JobEnds DEF ThreadsOK, threads
<1>4. ASSUME NEW kind \in Kinds, NEW a \in Apps, SetupMark(kind, a) PROVE ThreadsOK'
  BY <1>4 DEF ThreadsOK, SetupMark, JobGoesOn, threads
<1>5. ASSUME NEW kind \in Kinds, NEW a \in Apps, SetupConfigure(kind, a)
      PROVE  ThreadsOK'
  BY <1>5 DEF ThreadsOK, SetupConfigure, JobGoesOn, threads
<1>6. ASSUME NEW kind \in Kinds, NEW a \in Apps, SetupRecord(kind, a)
      PROVE  ThreadsOK'
<2>1. <<kind, a>> \in Jobs
  BY <1>6 DEF Jobs, Kinds
<2>2. JobEnd(<<kind, a>>, TRUE)
  BY <1>6 DEF SetupRecord
<2> QED
  BY <2>1, <2>2, JobEnds
<1>7. ASSUME NEW a \in Apps, UninstallRemove(a) PROVE ThreadsOK'
  BY <1>7 DEF ThreadsOK, UninstallRemove, JobGoesOn, threads
<1>8. ASSUME NEW a \in Apps, UninstallUnmark(a) PROVE ThreadsOK'
  BY <1>8 DEF ThreadsOK, UninstallUnmark, JobGoesOn, threads
<1>9. ASSUME NEW a \in Apps, UninstallRecord(a) PROVE ThreadsOK'
<2>1. <<"uninstall", a>> \in Jobs
  BY <1>9 DEF Jobs, Kinds
<2>2. JobEnd(<<"uninstall", a>>, TRUE)
  BY <1>9 DEF UninstallRecord
<2> QED
  BY <2>1, <2>2, JobEnds
<1>10. ASSUME NEW a \in Apps, ForceDeclined(a) PROVE ThreadsOK'
<2>1. <<"force", a>> \in Jobs
  BY <1>10 DEF Jobs, Kinds
<2>2. JobEnd(<<"force", a>>, TRUE)
  BY <1>10 DEF ForceDeclined
<2> QED
  BY <2>1, <2>2, JobEnds
<1>11. ASSUME NEW a \in Apps, ForceInstall(a) PROVE ThreadsOK'
  BY <1>11 DEF ThreadsOK, ForceInstall, ForceUpgrade, JobGoesOn, threads
<1>12. ASSUME NEW a \in Apps, ForceConfigure(a) PROVE ThreadsOK'
<2>1. <<"force", a>> \in Jobs
  BY <1>12 DEF Jobs, Kinds
<2>2. JobEnd(<<"force", a>>, TRUE)
  BY <1>12 DEF ForceConfigure
<2> QED
  BY <2>1, <2>2, JobEnds
<1>13. ASSUME NEW kind \in Kinds, NEW a \in Apps, JobFails(<<kind, a>>)
      PROVE  ThreadsOK'
<2>1. <<kind, a>> \in Jobs
  BY <1>13 DEF Jobs, Kinds
<2>2. JobEnd(<<kind, a>>, FALSE)
  BY <1>13 DEF JobFails
<2> QED
  BY <2>1, <2>2, JobEnds
<1>14. ASSUME NEW a \in Apps, RepairEnd(a) PROVE ThreadsOK'
<2>1. <<"repair", a>> \in Jobs
  BY <1>14 DEF Jobs, Kinds
<2>2. JobEnd(<<"repair", a>>, TRUE)
  BY <1>14 DEF RepairEnd
<2> QED
  BY <2>1, <2>2, JobEnds
<1>15. ASSUME NEW a \in Forcible, CacheUpdated(a) PROVE ThreadsOK'
<2>1. force' \in ForceThread
  BY <1>15, Sizes, Assumed DEF CacheUpdated, ThreadsOK, ForceThread, Tries,
     NotForcing
<2>2. UNCHANGED <<startup, dpkg>>
  BY <1>15 DEF CacheUpdated, forceRest
<2> QED
  BY <2>1, <2>2 DEF ThreadsOK
<1>16. ASSUME NEW a \in Interested, PackageUpdated(a) PROVE ThreadsOK'
  BY <1>16 DEF ThreadsOK, PackageUpdated, threads
<1>17. ASSUME NEW a \in UserApps, UserSetup(a) PROVE ThreadsOK'
  BY <1>17 DEF ThreadsOK, UserSetup, NewSetup, New, threads, userRest
<1>18. ASSUME NEW kind \in {"repair", "uninstall"},
             NEW a \in UserApps, UserRepairOrUninstall(kind, a)
      PROVE  ThreadsOK'
  BY <1>18 DEF ThreadsOK, UserRepairOrUninstall, New, threads, userRest
<1>19. ASSUME StartupBegin PROVE ThreadsOK'
<2>1. /\ startup' \in StartupThread
      /\ startup'.at \in {"join", "joined"} => startup'.idx \in DOMAIN AppList
  BY <1>19, Sizes DEF StartupBegin, ThreadsOK, StartupThread, Indices, AtStart
<2>2. UNCHANGED <<dpkg, force>>
  BY <1>19 DEF StartupBegin
<2> QED
  BY <2>1, <2>2 DEF ThreadsOK
<1>20. ASSUME StartupAttempt PROVE ThreadsOK'
<2>1. (IF startup.first THEN Essential ELSE AppsForRegularSetup) \in SUBSET Apps
  BY Assumed DEF AppsForRegularSetup
<2>2. 1 \in Indices
  BY Assumed DEF Indices
<2>3. /\ startup' \in StartupThread
      /\ startup'.at \in {"join", "joined"} => startup'.idx \in DOMAIN AppList
  BY <1>20, <2>1, <2>2 DEF StartupAttempt, ThreadsOK, StartupThread
<2>4. UNCHANGED <<dpkg, force>>
  BY <1>20 DEF StartupAttempt
<2> QED
  BY <2>3, <2>4 DEF ThreadsOK
<1>21. ASSUME StartupNext PROVE ThreadsOK'
<2>1. startup \in StartupThread /\ DOMAIN AppList \subseteq Indices
  BY Sizes DEF ThreadsOK, Indices
<2>2. \/ /\ startup' = [startup EXCEPT !.idx = startup.idx + 1]
         /\ startup.at = "next" /\ startup.idx + 1 \in Indices
      \/ startup' = [startup EXCEPT !.at = "raised"]
      \/ /\ startup' = [startup EXCEPT !.at = "join"]
         /\ startup.idx \in DOMAIN AppList
  <3>1. startup.idx \in DOMAIN AppList
    BY <1>21 DEF StartupNext, ThreadsOK
  <3>2. startup.idx + 1 \in Indices
    BY <3>1, Sizes DEF Indices
  <3> QED
    BY <1>21, <3>1, <3>2 DEF StartupNext
<2>3. /\ startup' \in StartupThread
      /\ startup'.at \in {"join", "joined"} => startup'.idx \in DOMAIN AppList
  BY <2>1, <2>2, Rests DEF StartupThread
<2>4. UNCHANGED <<dpkg, force>>
  BY <1>21 DEF StartupNext
<2> QED
  BY <2>3, <2>4 DEF ThreadsOK
<1>22. ASSUME StartupJoined PROVE ThreadsOK'
<2>1. startup \in StartupThread /\ DOMAIN AppList \subseteq Indices
  BY Sizes DEF ThreadsOK, Indices
<2>2. \/ /\ startup' = [startup EXCEPT !.at = "next", !.idx = startup.idx + 1]
         /\ startup.idx + 1 \in Indices
  <3>1. startup.idx \in DOMAIN AppList
    BY <1>22 DEF StartupJoined, ThreadsOK
  <3>2. startup.idx + 1 \in Indices
    BY <3>1, Sizes DEF Indices
  <3> QED
    BY <1>22, <3>1, <3>2 DEF StartupJoined
<2>3. /\ startup' \in StartupThread
      /\ startup'.at \in {"join", "joined"} => startup'.idx \in DOMAIN AppList
  BY <2>1, <2>2, Rests DEF StartupThread
<2>4. UNCHANGED <<dpkg, force>>
  BY <1>22 DEF StartupJoined
<2> QED
  BY <2>3, <2>4 DEF ThreadsOK
<1>23. ASSUME StartupRetry PROVE ThreadsOK'
<2>1. startup \in StartupThread /\ DOMAIN AppList \subseteq Indices
  BY Sizes DEF ThreadsOK, Indices
<2>2. \/ startup' = [AtStart EXCEPT !.at = "dpkg"]
      \/ startup' = [startup EXCEPT !.at = "attempt"]
  BY <1>23, <2>1, Sizes DEF StartupRetry, ThreadsOK, StartupThread, Indices,
     Tries
<2>3. /\ startup' \in StartupThread
      /\ startup'.at \in {"join", "joined"} => startup'.idx \in DOMAIN AppList
  BY <2>1, <2>2, Rests DEF StartupThread
<2>4. UNCHANGED <<dpkg, force>>
  BY <1>23 DEF StartupRetry
<2> QED
  BY <2>3, <2>4 DEF ThreadsOK
<1>24. ASSUME StartupSucceeds PROVE ThreadsOK'
<2>1. startup \in StartupThread /\ DOMAIN AppList \subseteq Indices
  BY Sizes DEF ThreadsOK, Indices
<2>2. \/ startup' = [AtStart EXCEPT !.at = "dpkg"]
  BY <1>24, <2>1, Sizes DEF StartupSucceeds, ThreadsOK, StartupThread, Indices,
     Tries
<2>3. /\ startup' \in StartupThread
      /\ startup'.at \in {"join", "joined"} => startup'.idx \in DOMAIN AppList
  BY <2>1, <2>2, Rests DEF StartupThread
<2>4. UNCHANGED <<dpkg, force>>
  BY <1>24 DEF StartupSucceeds
<2> QED
  BY <2>3, <2>4 DEF ThreadsOK
<1>25. ASSUME StartupDpkg PROVE ThreadsOK'
<2>1. startup' \in StartupThread /\ startup'.at \in {"dpkg wait", "force"}
  BY <1>25 DEF StartupDpkg, ThreadsOK, StartupThread
<2>2. dpkg' = dpkg \/ dpkg' = [Resting EXCEPT !.at = "attempt"]
  BY <1>25 DEF StartupDpkg
<2>3. UNCHANGED force
  BY <1>25 DEF StartupDpkg
<2> QED
  BY <2>1, <2>2, <2>3, Rests DEF ThreadsOK
<1>26. ASSUME StartupForce PROVE ThreadsOK'
<2>1. startup' \in StartupThread /\ startup'.at = "done"
  BY <1>26 DEF StartupForce, ThreadsOK, StartupThread
<2>2. force' \in ForceThread
  BY <1>26 DEF StartupForce, ThreadsOK, ForceThread
<2>3. UNCHANGED dpkg
  BY <1>26 DEF StartupForce
<2> QED
  BY <2>1, <2>2, <2>3 DEF ThreadsOK
<1>27. ASSUME DpkgInvoked PROVE ThreadsOK'
<2>1. /\ dpkg' \in DpkgThread
      /\ dpkg'.at \in {"join", "joined"} => dpkg'.idx \in DOMAIN AppList
  BY <1>27, Sizes DEF DpkgInvoked, ThreadsOK, DpkgThread, Indices, Tries,
     Resting
<2>2. UNCHANGED <<startup, force>>
  BY <1>27 DEF DpkgInvoked, dpkgRest
<2> QED
  BY <2>1, <2>2 DEF ThreadsOK
<1>28. ASSUME DpkgAttempt PROVE ThreadsOK'
<2>1. dpkg \in DpkgThread /\ DOMAIN AppList \subseteq Indices
  BY Sizes DEF ThreadsOK, Indices
<2>2. \/ dpkg' = Resting
      \/ dpkg' = [dpkg EXCEPT !.at = "raised"]
      \/ dpkg' = [dpkg EXCEPT !.at = "next", !.idx = 1] /\ 1 \in Indices
  BY <1>28, <2>1, Sizes DEF DpkgAttempt, ThreadsOK, DpkgThread, Indices, Tries
<2>3. /\ dpkg' \in DpkgThread
      /\ dpkg'.at \in {"join", "joined"} => dpkg'.idx \in DOMAIN AppList
  BY <2>1, <2>2, Rests DEF DpkgThread
<2>4. UNCHANGED <<startup, force>>
  BY <1>28 DEF DpkgAttempt, dpkgRest
<2> QED
  BY <2>3, <2>4 DEF ThreadsOK
<1>29. ASSUME DpkgNext PROVE ThreadsOK'
<2>1. dpkg \in DpkgThread /\ DOMAIN AppList \subseteq Indices
  BY Sizes DEF ThreadsOK, Indices
<2>2. \/ /\ dpkg' = [dpkg EXCEPT !.idx = dpkg.idx + 1]
         /\ dpkg.at = "next" /\ dpkg.idx + 1 \in Indices
      \/ dpkg' = [dpkg EXCEPT !.at = "raised"]
      \/ /\ dpkg' = [dpkg EXCEPT !.at = "join"]
         /\ dpkg.idx \in DOMAIN AppList
  <3>1. dpkg.idx \in DOMAIN AppList
    BY <1>29 DEF DpkgNext, ThreadsOK
  <3>2. dpkg.idx + 1 \in Indices
    BY <3>1, Sizes DEF Indices
  <3> QED
    BY <1>29, <3>1, <3>2 DEF DpkgNext
<2>3. /\ dpkg' \in DpkgThread
      /\ dpkg'.at \in {"join", "joined"} => dpkg'.idx \in DOMAIN AppList
  BY <2>1, <2>2, Rests DEF DpkgThread
<2>4. UNCHANGED <<startup, force>>
  BY <1>29 DEF DpkgNext, dpkgRest
<2> QED
  BY <2>3, <2>4 DEF ThreadsOK
<1>30. ASSUME DpkgJoined PROVE ThreadsOK'
<2>1. dpkg \in DpkgThread /\ DOMAIN AppList \subseteq Indices
  BY Sizes DEF ThreadsOK, Indices
<2>2. \/ /\ dpkg' = [dpkg EXCEPT !.at = "next", !.idx = dpkg.idx + 1]
         /\ dpkg.idx + 1 \in Indices
  BY <1>30, <2>1, Sizes DEF DpkgJoined, ThreadsOK, DpkgThread, Indices, Tries
<2>3. /\ dpkg' \in DpkgThread
      /\ dpkg'.at \in {"join", "joined"} => dpkg'.idx \in DOMAIN AppList
  BY <2>1, <2>2, Rests DEF DpkgThread
<2>4. UNCHANGED <<startup, force>>
  BY <1>30 DEF DpkgJoined, dpkgRest
<2> QED
  BY <2>3, <2>4 DEF ThreadsOK
<1>31. ASSUME DpkgCompletes PROVE ThreadsOK'
<2>1. /\ dpkg' \in DpkgThread
      /\ dpkg'.at \in {"join", "joined"} => dpkg'.idx \in DOMAIN AppList
  BY <1>31, Sizes DEF DpkgCompletes, ThreadsOK, DpkgThread, Indices, Tries,
     Resting
<2>2. UNCHANGED <<startup, force>>
  BY <1>31 DEF DpkgCompletes, dpkgRest
<2> QED
  BY <2>1, <2>2 DEF ThreadsOK
<1>32. ASSUME DpkgRetry PROVE ThreadsOK'
<2>1. dpkg \in DpkgThread /\ DOMAIN AppList \subseteq Indices
  BY Sizes DEF ThreadsOK, Indices
<2>2. \/ dpkg' = Resting
      \/ /\ dpkg' = [dpkg EXCEPT !.at = "attempt", !.tries = dpkg.tries + 1]
         /\ dpkg.tries + 1 \in Tries
  BY <1>32, <2>1, Sizes DEF DpkgRetry, ThreadsOK, DpkgThread, Indices, Tries
<2>3. /\ dpkg' \in DpkgThread
      /\ dpkg'.at \in {"join", "joined"} => dpkg'.idx \in DOMAIN AppList
  BY <2>1, <2>2, Rests DEF DpkgThread
<2>4. UNCHANGED <<startup, force>>
  BY <1>32 DEF DpkgRetry, dpkgRest
<2> QED
  BY <2>3, <2>4 DEF ThreadsOK
<1>33. ASSUME ForceAttempt PROVE ThreadsOK'
<2>1. force \in ForceThread /\ DOMAIN AppList \subseteq Indices
  BY Sizes DEF ThreadsOK, Indices
<2>2. \/ force' = NotForcing
      \/ force' = [force EXCEPT !.at = "wait"]
      \/ \E due \in SUBSET Apps :
            force' = [force EXCEPT !.at = "next", !.retry = FALSE, !.todo = due]
  BY <1>33, Assumed DEF ForceAttempt
<2>3. force' \in ForceThread
  BY <2>1, <2>2, Rests DEF ForceThread
<2>4. UNCHANGED <<startup, dpkg>>
  BY <1>33 DEF ForceAttempt, forceRest
<2> QED
  BY <2>3, <2>4 DEF ThreadsOK
<1>34. ASSUME NEW a \in Forcible, ForceNext(a) PROVE ThreadsOK'
<2>1. force' \in ForceThread
  BY <1>34, Sizes, Assumed DEF ForceNext, ThreadsOK, ForceThread, Tries,
     NotForcing
<2>2. UNCHANGED <<startup, dpkg>>
  BY <1>34 DEF ForceNext, forceRest
<2> QED
  BY <2>1, <2>2 DEF ThreadsOK
<1>35. ASSUME ForceJoined PROVE ThreadsOK'
<2>1. force' \in ForceThread
  BY <1>35, Sizes, Assumed DEF ForceJoined, ThreadsOK, ForceThread, Tries,
     NotForcing
<2>2. UNCHANGED <<startup, dpkg>>
  BY <1>35 DEF ForceJoined, forceRest
<2> QED
  BY <2>1, <2>2 DEF ThreadsOK
<1>36. ASSUME ForceCompletes PROVE ThreadsOK'
<2>1. force \in ForceThread /\ DOMAIN AppList \subseteq Indices
  BY Sizes DEF ThreadsOK, Indices
<2>2. \/ force' = NotForcing
      \/ force' = [force EXCEPT !.at = "wait", !.app = AppList[1]] /\ AppList[1] \in Apps
  BY <1>36, <2>1, Sizes DEF ForceCompletes, ThreadsOK, ForceThread, Indices,
     Tries
<2>3. force' \in ForceThread
  BY <2>1, <2>2, Rests DEF ForceThread
<2>4. UNCHANGED <<startup, dpkg>>
  BY <1>36 DEF ForceCompletes, forceRest
<2> QED
  BY <2>3, <2>4 DEF ThreadsOK
<1>37. ASSUME ForceRetry PROVE ThreadsOK'
<2>1. force \in ForceThread /\ DOMAIN AppList \subseteq Indices
  BY Sizes DEF ThreadsOK, Indices
<2>2. \/ force' = NotForcing
      \/ /\ force' = [force EXCEPT !.at = "attempt", !.tries = force.tries + 1]
         /\ force.tries + 1 \in Tries
  BY <1>37, <2>1, Sizes DEF ForceRetry, ThreadsOK, ForceThread, Indices, Tries
<2>3. force' \in ForceThread
  BY <2>1, <2>2, Rests DEF ForceThread
<2>4. UNCHANGED <<startup, dpkg>>
  BY <1>37 DEF ForceRetry, forceRest
<2> QED
  BY <2>3, <2>4 DEF ThreadsOK
<1>38. ASSUME Stop PROVE ThreadsOK'
  BY <1>38 DEF ThreadsOK, Stop, threads
<1>39. ASSUME Restart PROVE ThreadsOK'
<2>1. startup' = AtStart /\ dpkg' = Resting /\ force' = NotForcing
  BY <1>39 DEF Restart
<2> QED
  BY <2>1, Rests DEF ThreadsOK
<1>40. CASE UNCHANGED vars
  BY <1>40 DEF ThreadsOK, vars, threads
<1> QED
  BY <1>1, <1>2, <1>3, <1>4, <1>5, <1>6, <1>7, <1>8, <1>9, <1>10, <1>11,
     <1>12, <1>13, <1>14, <1>15, <1>16, <1>17, <1>18, <1>19, <1>20,
     <1>21, <1>22, <1>23, <1>24, <1>25, <1>26, <1>27, <1>28, <1>29,
     <1>30, <1>31, <1>32, <1>33, <1>34, <1>35, <1>36, <1>37, <1>38,
     <1>39, <1>40
     DEF Next, JobStep, StartupStep, DpkgStep, ForceStep

(* The program starts with values of their types, and steps keep them.     *)
LEMMA TypesBegin == Init => Typed
<1> SUFFICES ASSUME Init PROVE Typed
  OBVIOUS
<1>1. StoredOK
  <2>1. 0 \in 0..MaxPkg /\ 1 \in 0..MaxPkg
    BY Assumed
  <2>2. /\ version \in [Apps -> 0..CodeVersion]
        /\ pkg \in [Apps -> 0..MaxPkg] /\ known \in [Apps -> 0..MaxPkg]
        /\ configured \in [Apps -> 0..MaxPkg]
    BY <2>1 DEF Init
  <2>3. prompt \in [Apps -> BOOLEAN] /\ \A a \in Apps : ~prompt[a]
    BY Zenon DEF Init
  <2> QED
    BY <2>2, <2>3 DEF StoredOK
<1>2. SwitchesOK
  BY Zenon DEF Init, SwitchesOK
<1>3. CountsOK
  BY Assumed DEF Init, CountsOK
<1>4. JobsOK
  <2>1. job = [j \in Jobs |-> "none"]
    BY DEF Init
  <2>2. \A kind \in Kinds, b \in Apps : job[<<kind, b>>] = "none"
    BY <2>1 DEF Jobs
  <2> QED
    BY <2>1, <2>2 DEF JobsOK, StagesOf, Stages
<1>5. ThreadsOK
  <2>1. startup = AtStart /\ dpkg = Resting /\ force = NotForcing
    BY DEF Init
  <2> QED
    BY <2>1, Rests DEF ThreadsOK
<1> QED
  BY <1>1, <1>2, <1>3, <1>4, <1>5 DEF Typed

LEMMA TypesStep == Typed /\ [Next]_vars => Typed'
  BY StoredStep, SwitchesStep, CountsStep, JobsStep, ThreadsStep DEF Typed

(* Every value the variables take is one the code can hold.                *)
THEOREM TypeCorrect == Spec => []TypeOK
<1>1. Typed => TypeOK
  BY DEF Typed, StoredOK, SwitchesOK, CountsOK, JobsOK, ThreadsOK,
     StartupThread, DpkgThread, ForceThread, Indices, Tries, TypeOK
<1> QED
  BY <1>1, TypesBegin, TypesStep, PTL DEF Spec


-----------------------------------------------------------------------------
(* Operations: one at a time, and each stage knows what came before it.    *)

(* A step of the only operation that can be running.                       *)
LEMMA OnlyThis ==
    ASSUME JobsOK, NEW kind \in Kinds, NEW a \in Apps, NEW s,
           \A i \in Jobs \ {<<kind, a>>} : ~Running(i),
           job' = [job EXCEPT ![<<kind, a>>] = s],
           StageOK(kind, a)'
    PROVE  WorkInv'
<1>1. <<kind, a>> \in Jobs
  BY DEF Jobs
<1>2. \A i \in Jobs \ {<<kind, a>>} : job'[i] = job[i]
  BY <1>1 DEF JobsOK
<1>3. \A i \in Jobs \ {<<kind, a>>} : job'[i] \in {"none", "waiting"}
  BY <1>2 DEF Running
<1>4. OneRuns'
  BY <1>3 DEF OneRuns, Running
<1>5. ASSUME NEW k \in Kinds, NEW b \in Apps PROVE StageOK(k, b)'
  <2>1. CASE k = kind /\ b = a
    BY <2>1
  <2>2. CASE k # kind \/ b # a
    <3>1. <<k, b>> \in Jobs \ {<<kind, a>>}
      BY <2>2 DEF Jobs
    <3>2. job'[<<k, b>>] \in {"none", "waiting"}
      BY <1>3, <3>1
    <3> QED
      BY <3>2 DEF StageOK
  <2> QED
    BY <2>1, <2>2
<1> QED
  BY <1>4, <1>5 DEF WorkInv

(* A step of everybody else: operations are at most added.                 *)
LEMMA Bystander ==
    ASSUME JobsOK, WorkInv,
           \/ UNCHANGED job
           \/ \E i \in Jobs : job[i] = "none" /\ job' = [job EXCEPT ![i] = "waiting"],
           UNCHANGED <<known, configured>>,
           \A a \in Apps : pkg'[a] = pkg[a] \/ (pkg[a] # 0 /\ pkg'[a] # 0)
    PROVE  WorkInv'
<1>1. \A i \in Jobs : job'[i] = job[i] \/ job'[i] = "waiting"
  BY DEF JobsOK
<1>2. OneRuns'
  BY <1>1 DEF WorkInv, OneRuns, Running
<1>3. ASSUME NEW k \in Kinds, NEW b \in Apps PROVE StageOK(k, b)'
  <2>1. <<k, b>> \in Jobs
    BY DEF Jobs
  <2>2. job'[<<k, b>>] = job[<<k, b>>] \/ job'[<<k, b>>] = "waiting"
    BY <1>1, <2>1
  <2>3. StageOK(k, b)
    BY DEF WorkInv
  <2> QED
    BY <2>2, <2>3 DEF StageOK
<1> QED
  BY <1>2, <1>3 DEF WorkInv

LEMMA WorkStep == StoredOK /\ JobsOK /\ WorkInv /\ [Next]_vars => WorkInv'
<1> SUFFICES ASSUME StoredOK, JobsOK, WorkInv, [Next]_vars PROVE WorkInv'
  OBVIOUS
<1>1. ASSUME NEW kind \in Kinds, NEW a \in Apps, JobStart(<<kind, a>>)
      PROVE  WorkInv'
<2>1. <<kind, a>> \in Jobs
  BY DEF Jobs
<2>2. \A i \in Jobs \ {<<kind, a>>} : ~Running(i)
  BY <1>1 DEF JobStart
<2>3. job' = [job EXCEPT ![<<kind, a>>] = "begin"]
  BY <1>1 DEF JobStart
<2>4. job'[<<kind, a>>] = "begin"
  BY <2>1, <2>3 DEF JobsOK
<2>5. StageOK(kind, a)'
  BY <2>4 DEF StageOK
<2> QED
  BY <2>2, <2>3, <2>5, OnlyThis
<1>2. ASSUME NEW kind \in Kinds, NEW a \in Apps, SetupBegin(kind, a) PROVE WorkInv'
<2>1. kind \in Kinds /\ <<kind, a>> \in Jobs
  BY <1>2 DEF Jobs, Kinds
<2>2. Running(<<kind, a>>)
  BY <1>2 DEF SetupBegin, JobGoesOn, JobEnd, Running
<2>3. \A i \in Jobs \ {<<kind, a>>} : ~Running(i)
  BY <2>1, <2>2 DEF WorkInv, OneRuns
<2>4. \E s \in {"install", "none"} : job' = [job EXCEPT ![<<kind, a>>] = s]
  BY <1>2 DEF SetupBegin, JobGoesOn, JobEnd, Kinds
<2>5. job'[<<kind, a>>] \in {"install", "none"}
  BY <2>1, <2>4 DEF JobsOK
<2>8. StageOK(kind, a)'
  BY <2>1, <2>5 DEF StageOK, Kinds
<2> QED
  BY <2>1, <2>3, <2>4, <2>8, OnlyThis
<1>3. ASSUME NEW kind \in Kinds, NEW a \in Apps, SetupInstall(kind, a)
      PROVE  WorkInv'
<2>1. kind \in Kinds /\ <<kind, a>> \in Jobs
  BY <1>3 DEF Jobs, Kinds
<2>2. Running(<<kind, a>>)
  BY <1>3, InstallMoves DEF Running
<2>3. \A i \in Jobs \ {<<kind, a>>} : ~Running(i)
  BY <2>1, <2>2 DEF WorkInv, OneRuns
<2>4. \E s \in {"mark", "configure", "none"} : job' = [job EXCEPT ![<<kind, a>>] = s]
  BY <1>3, InstallMoves
<2>5. job'[<<kind, a>>] \in {"mark", "configure", "none"}
  BY <2>1, <2>4 DEF JobsOK
<2>6. job'[<<kind, a>>] # "none" => pkg'[a] # 0
  BY <1>3, <2>1 DEF SetupInstall, JobGoesOn, JobEnd, StoredOK, JobsOK
<2>7. kind # "uninstall"
  BY <1>3, InstallMoves DEF JobsOK, StagesOf
<2>8. StageOK(kind, a)'
  BY <2>1, <2>5, <2>6, <2>7 DEF StageOK, Kinds
<2> QED
  BY <2>1, <2>3, <2>4, <2>8, OnlyThis
<1>4. ASSUME NEW kind \in Kinds, NEW a \in Apps, SetupMark(kind, a) PROVE WorkInv'
<2>1. kind \in Kinds /\ <<kind, a>> \in Jobs
  BY <1>4 DEF Jobs, Kinds
<2>2. Running(<<kind, a>>)
  BY <1>4 DEF SetupMark, JobGoesOn, Running
<2>3. \A i \in Jobs \ {<<kind, a>>} : ~Running(i)
  BY <2>1, <2>2 DEF WorkInv, OneRuns
<2>4. \E s \in {"configure"} : job' = [job EXCEPT ![<<kind, a>>] = s]
  BY <1>4 DEF SetupMark, JobGoesOn, Kinds
<2>5. job'[<<kind, a>>] \in {"configure"}
  BY <2>1, <2>4 DEF JobsOK
<2>6. kind \in {"setup", "repair"} => pkg'[a] # 0
  BY <1>4 DEF SetupMark, JobGoesOn, WorkInv, StageOK
<2>8. StageOK(kind, a)'
  BY <2>1, <2>5, <2>6 DEF StageOK, Kinds
<2> QED
  BY <2>1, <2>3, <2>4, <2>8, OnlyThis
<1>5. ASSUME NEW kind \in Kinds, NEW a \in Apps, SetupConfigure(kind, a)
      PROVE  WorkInv'
<2>1. kind \in Kinds /\ <<kind, a>> \in Jobs
  BY <1>5 DEF Jobs, Kinds
<2>2. Running(<<kind, a>>)
  BY <1>5 DEF SetupConfigure, JobGoesOn, Running
<2>3. \A i \in Jobs \ {<<kind, a>>} : ~Running(i)
  BY <2>1, <2>2 DEF WorkInv, OneRuns
<2>4. \E s \in {"record"} : job' = [job EXCEPT ![<<kind, a>>] = s]
  BY <1>5 DEF SetupConfigure, JobGoesOn, Kinds
<2>5. job'[<<kind, a>>] \in {"record"}
  BY <2>1, <2>4 DEF JobsOK
<2>6. kind \in {"setup", "repair"} /\ pkg[a] # 0
  BY <1>5 DEF SetupConfigure, JobGoesOn, JobsOK, StagesOf, WorkInv, StageOK,
     Kinds
<2>7. pkg'[a] = pkg[a] /\ configured'[a] = pkg[a]
  BY <1>5 DEF SetupConfigure, StoredOK
<2>8. StageOK(kind, a)'
  BY <2>1, <2>5, <2>6, <2>7 DEF StageOK, Kinds
<2> QED
  BY <2>1, <2>3, <2>4, <2>8, OnlyThis
<1>6. ASSUME NEW kind \in Kinds, NEW a \in Apps, SetupRecord(kind, a) PROVE WorkInv'
<2>1. kind \in Kinds /\ <<kind, a>> \in Jobs
  BY <1>6 DEF Jobs, Kinds
<2>2. Running(<<kind, a>>)
  BY <1>6 DEF SetupRecord, JobEnd, Running
<2>3. \A i \in Jobs \ {<<kind, a>>} : ~Running(i)
  BY <2>1, <2>2 DEF WorkInv, OneRuns
<2>4. \E s \in {"none"} : job' = [job EXCEPT ![<<kind, a>>] = s]
  BY <1>6 DEF SetupRecord, JobEnd, Kinds
<2>5. job'[<<kind, a>>] \in {"none"}
  BY <2>1, <2>4 DEF JobsOK
<2>8. StageOK(kind, a)'
  BY <2>1, <2>5 DEF StageOK, Kinds
<2> QED
  BY <2>1, <2>3, <2>4, <2>8, OnlyThis
<1>7. ASSUME NEW a \in Apps, UninstallRemove(a) PROVE WorkInv'
<2>1. "uninstall" \in Kinds /\ <<"uninstall", a>> \in Jobs
  BY <1>7 DEF Jobs, Kinds
<2>2. Running(<<"uninstall", a>>)
  BY <1>7 DEF UninstallRemove, JobGoesOn, Running
<2>3. \A i \in Jobs \ {<<"uninstall", a>>} : ~Running(i)
  BY <2>1, <2>2 DEF WorkInv, OneRuns
<2>4. \E s \in {"unmark"} : job' = [job EXCEPT ![<<"uninstall", a>>] = s]
  BY <1>7 DEF UninstallRemove, JobGoesOn, Kinds
<2>5. job'[<<"uninstall", a>>] \in {"unmark"}
  BY <2>1, <2>4 DEF JobsOK
<2>6. pkg'[a] = 0
  BY <1>7 DEF UninstallRemove, StoredOK
<2>8. StageOK("uninstall", a)'
  BY <2>1, <2>5, <2>6 DEF StageOK, Kinds
<2> QED
  BY <2>1, <2>3, <2>4, <2>8, OnlyThis
<1>8. ASSUME NEW a \in Apps, UninstallUnmark(a) PROVE WorkInv'
<2>1. "uninstall" \in Kinds /\ <<"uninstall", a>> \in Jobs
  BY <1>8 DEF Jobs, Kinds
<2>2. Running(<<"uninstall", a>>)
  BY <1>8 DEF UninstallUnmark, JobGoesOn, Running
<2>3. \A i \in Jobs \ {<<"uninstall", a>>} : ~Running(i)
  BY <2>1, <2>2 DEF WorkInv, OneRuns
<2>4. \E s \in {"record"} : job' = [job EXCEPT ![<<"uninstall", a>>] = s]
  BY <1>8 DEF UninstallUnmark, JobGoesOn, Kinds
<2>5. job'[<<"uninstall", a>>] \in {"record"}
  BY <2>1, <2>4 DEF JobsOK
<2>6. pkg'[a] = 0 /\ known'[a] = 0
  BY <1>8, <2>1 DEF UninstallUnmark, JobGoesOn, StoredOK, WorkInv, StageOK
<2>8. StageOK("uninstall", a)'
  BY <2>1, <2>5, <2>6 DEF StageOK, Kinds
<2> QED
  BY <2>1, <2>3, <2>4, <2>8, OnlyThis
<1>9. ASSUME NEW a \in Apps, UninstallRecord(a) PROVE WorkInv'
<2>1. "uninstall" \in Kinds /\ <<"uninstall", a>> \in Jobs
  BY <1>9 DEF Jobs, Kinds
<2>2. Running(<<"uninstall", a>>)
  BY <1>9 DEF UninstallRecord, JobEnd, Running
<2>3. \A i \in Jobs \ {<<"uninstall", a>>} : ~Running(i)
  BY <2>1, <2>2 DEF WorkInv, OneRuns
<2>4. \E s \in {"none"} : job' = [job EXCEPT ![<<"uninstall", a>>] = s]
  BY <1>9 DEF UninstallRecord, JobEnd, Kinds
<2>5. job'[<<"uninstall", a>>] \in {"none"}
  BY <2>1, <2>4 DEF JobsOK
<2>8. StageOK("uninstall", a)'
  BY <2>1, <2>5 DEF StageOK, Kinds
<2> QED
  BY <2>1, <2>3, <2>4, <2>8, OnlyThis
<1>10. ASSUME NEW a \in Apps, ForceDeclined(a) PROVE WorkInv'
<2>1. "force" \in Kinds /\ <<"force", a>> \in Jobs
  BY <1>10 DEF Jobs, Kinds
<2>2. Running(<<"force", a>>)
  BY <1>10 DEF ForceDeclined, JobEnd, Running
<2>3. \A i \in Jobs \ {<<"force", a>>} : ~Running(i)
  BY <2>1, <2>2 DEF WorkInv, OneRuns
<2>4. \E s \in {"none"} : job' = [job EXCEPT ![<<"force", a>>] = s]
  BY <1>10 DEF ForceDeclined, JobEnd, Kinds
<2>5. job'[<<"force", a>>] \in {"none"}
  BY <2>1, <2>4 DEF JobsOK
<2>8. StageOK("force", a)'
  BY <2>1, <2>5 DEF StageOK, Kinds
<2> QED
  BY <2>1, <2>3, <2>4, <2>8, OnlyThis
<1>11. ASSUME NEW a \in Apps, ForceInstall(a) PROVE WorkInv'
<2>1. "force" \in Kinds /\ <<"force", a>> \in Jobs
  BY <1>11 DEF Jobs, Kinds
<2>2. Running(<<"force", a>>)
  BY <1>11 DEF ForceInstall, JobGoesOn, Running
<2>3. \A i \in Jobs \ {<<"force", a>>} : ~Running(i)
  BY <2>1, <2>2 DEF WorkInv, OneRuns
<2>4. \E s \in {"configure"} : job' = [job EXCEPT ![<<"force", a>>] = s]
  BY <1>11 DEF ForceInstall, JobGoesOn, Kinds
<2>5. job'[<<"force", a>>] \in {"configure"}
  BY <2>1, <2>4 DEF JobsOK
<2>8. StageOK("force", a)'
  BY <2>1, <2>5 DEF StageOK, Kinds
<2> QED
  BY <2>1, <2>3, <2>4, <2>8, OnlyThis
<1>12. ASSUME NEW a \in Apps, ForceConfigure(a) PROVE WorkInv'
<2>1. "force" \in Kinds /\ <<"force", a>> \in Jobs
  BY <1>12 DEF Jobs, Kinds
<2>2. Running(<<"force", a>>)
  BY <1>12 DEF ForceConfigure, JobEnd, Running
<2>3. \A i \in Jobs \ {<<"force", a>>} : ~Running(i)
  BY <2>1, <2>2 DEF WorkInv, OneRuns
<2>4. \E s \in {"none"} : job' = [job EXCEPT ![<<"force", a>>] = s]
  BY <1>12 DEF ForceConfigure, JobEnd, Kinds
<2>5. job'[<<"force", a>>] \in {"none"}
  BY <2>1, <2>4 DEF JobsOK
<2>8. StageOK("force", a)'
  BY <2>1, <2>5 DEF StageOK, Kinds
<2> QED
  BY <2>1, <2>3, <2>4, <2>8, OnlyThis
<1>13. ASSUME NEW kind \in Kinds, NEW a \in Apps, JobFails(<<kind, a>>)
      PROVE  WorkInv'
<2>1. kind \in Kinds /\ <<kind, a>> \in Jobs
  BY <1>13 DEF Jobs, Kinds
<2>2. Running(<<kind, a>>)
  BY <1>13 DEF JobFails
<2>3. \A i \in Jobs \ {<<kind, a>>} : ~Running(i)
  BY <2>1, <2>2 DEF WorkInv, OneRuns
<2>4. \E s \in {"none"} : job' = [job EXCEPT ![<<kind, a>>] = s]
  BY <1>13 DEF JobFails, JobEnd, Kinds
<2>5. job'[<<kind, a>>] \in {"none"}
  BY <2>1, <2>4 DEF JobsOK
<2>8. StageOK(kind, a)'
  BY <2>1, <2>5 DEF StageOK, Kinds
<2> QED
  BY <2>1, <2>3, <2>4, <2>8, OnlyThis
<1>14. ASSUME NEW a \in Apps, RepairEnd(a) PROVE WorkInv'
<2>1. "repair" \in Kinds /\ <<"repair", a>> \in Jobs
  BY <1>14 DEF Jobs, Kinds
<2>2. Running(<<"repair", a>>)
  BY <1>14 DEF RepairEnd, JobEnd, Running
<2>3. \A i \in Jobs \ {<<"repair", a>>} : ~Running(i)
  BY <2>1, <2>2 DEF WorkInv, OneRuns
<2>4. \E s \in {"none"} : job' = [job EXCEPT ![<<"repair", a>>] = s]
  BY <1>14 DEF RepairEnd, JobEnd, Kinds
<2>5. job'[<<"repair", a>>] \in {"none"}
  BY <2>1, <2>4 DEF JobsOK
<2>8. StageOK("repair", a)'
  BY <2>1, <2>5 DEF StageOK, Kinds
<2> QED
  BY <2>1, <2>3, <2>4, <2>8, OnlyThis
<1>15. ASSUME NEW a \in Forcible, CacheUpdated(a) PROVE WorkInv'
<2>1. UNCHANGED <<job, pkg, known, configured>>
  BY <1>15 DEF CacheUpdated, forceRest
<2> QED
  BY <2>1, Bystander
<1>16. ASSUME NEW a \in Interested, PackageUpdated(a) PROVE WorkInv'
<2>1. UNCHANGED <<job, known, configured>>
  BY <1>16 DEF PackageUpdated
<2>2. /\ pkg' = [pkg EXCEPT ![a] = pkg[a] + 1] /\ a \in Apps
      /\ pkg[a] \in Nat /\ pkg[a] # 0
  BY <1>16, Assumed DEF PackageUpdated, StoredOK
<2>3. \A b \in Apps : pkg'[b] = pkg[b] \/ (pkg[b] # 0 /\ pkg'[b] # 0)
  BY <2>2 DEF StoredOK
<2> QED
  BY <2>1, <2>3, Bystander
<1>17. ASSUME NEW a \in UserApps, UserSetup(a) PROVE WorkInv'
<2>1. UNCHANGED <<pkg, known, configured>>
  BY <1>17 DEF UserSetup, NewSetup, New, stored, userRest
<2>2. \/ UNCHANGED job
      \/ \E i \in Jobs : job[i] = "none" /\ job' = [job EXCEPT ![i] = "waiting"]
  <3>1. a \in Apps /\ <<"setup", a>> \in Jobs
    BY <1>17, Assumed DEF Jobs, Kinds
  <3> QED
    BY <1>17, <3>1 DEF UserSetup, NewSetup, New, InProgress
<2> QED
  BY <2>1, <2>2, Bystander
<1>18. ASSUME NEW kind \in {"repair", "uninstall"},
             NEW a \in UserApps, UserRepairOrUninstall(kind, a)
      PROVE  WorkInv'
<2>1. UNCHANGED <<pkg, known, configured>>
  BY <1>18 DEF UserRepairOrUninstall, New, stored, userRest
<2>2. \/ UNCHANGED job
      \/ \E i \in Jobs : job[i] = "none" /\ job' = [job EXCEPT ![i] = "waiting"]
  <3>1. a \in Apps /\ <<kind, a>> \in Jobs
    BY <1>18, Assumed DEF Jobs, Kinds
  <3> QED
    BY <1>18, <3>1 DEF UserRepairOrUninstall, New, InProgress
<2> QED
  BY <2>1, <2>2, Bystander
<1>19. ASSUME StartupBegin PROVE WorkInv'
<2>1. UNCHANGED <<job, pkg, known, configured>>
  BY <1>19 DEF StartupBegin, stored, startupRest
<2> QED
  BY <2>1, Bystander
<1>20. ASSUME StartupAttempt PROVE WorkInv'
<2>1. UNCHANGED <<job, pkg, known, configured>>
  BY <1>20 DEF StartupAttempt, stored, startupRest
<2> QED
  BY <2>1, Bystander
<1>21. ASSUME StartupNext PROVE WorkInv'
<2>1. UNCHANGED <<pkg, known, configured>>
  BY <1>21 DEF StartupNext, NewSetup, New, stored, startupRest
<2>2. \/ UNCHANGED job
      \/ \E i \in Jobs : job[i] = "none" /\ job' = [job EXCEPT ![i] = "waiting"]
  <3>1. AppList[startup.idx] \in Apps
    BY <1>21 DEF StartupNext, Apps
  <3>2. <<"setup", AppList[startup.idx]>> \in Jobs
    BY <3>1 DEF Jobs, Kinds
  <3> QED
    BY <1>21, <3>2, Zenon DEF StartupNext, NewSetup, New, InProgress
<2> QED
  BY <2>1, <2>2, Bystander
<1>22. ASSUME StartupJoined PROVE WorkInv'
<2>1. UNCHANGED <<job, pkg, known, configured>>
  BY <1>22 DEF StartupJoined, stored, startupRest
<2> QED
  BY <2>1, Bystander
<1>23. ASSUME StartupRetry PROVE WorkInv'
<2>1. UNCHANGED <<job, pkg, known, configured>>
  BY <1>23 DEF StartupRetry, stored, startupRest
<2> QED
  BY <2>1, Bystander
<1>24. ASSUME StartupSucceeds PROVE WorkInv'
<2>1. UNCHANGED <<job, pkg, known, configured>>
  BY <1>24 DEF StartupSucceeds, stored, startupRest
<2> QED
  BY <2>1, Bystander
<1>25. ASSUME StartupDpkg PROVE WorkInv'
<2>1. UNCHANGED <<job, pkg, known, configured>>
  BY <1>25 DEF StartupDpkg, stored, startupRest
<2> QED
  BY <2>1, Bystander
<1>26. ASSUME StartupForce PROVE WorkInv'
<2>1. UNCHANGED <<job, pkg, known, configured>>
  BY <1>26 DEF StartupForce, stored, startupRest
<2> QED
  BY <2>1, Bystander
<1>27. ASSUME DpkgInvoked PROVE WorkInv'
<2>1. UNCHANGED <<job, pkg, known, configured>>
  BY <1>27 DEF DpkgInvoked, stored, dpkgRest
<2> QED
  BY <2>1, Bystander
<1>28. ASSUME DpkgAttempt PROVE WorkInv'
<2>1. UNCHANGED <<job, pkg, known, configured>>
  BY <1>28 DEF DpkgAttempt, Fail, stored, dpkgRest
<2> QED
  BY <2>1, Bystander
<1>29. ASSUME DpkgNext PROVE WorkInv'
<2>1. UNCHANGED <<pkg, known, configured>>
  BY <1>29 DEF DpkgNext, NewSetup, New, stored, dpkgRest
<2>2. \/ UNCHANGED job
      \/ \E i \in Jobs : job[i] = "none" /\ job' = [job EXCEPT ![i] = "waiting"]
  <3>1. AppList[dpkg.idx] \in Apps
    BY <1>29 DEF DpkgNext, Apps
  <3>2. <<"setup", AppList[dpkg.idx]>> \in Jobs
    BY <3>1 DEF Jobs, Kinds
  <3> QED
    BY <1>29, <3>2, Zenon DEF DpkgNext, NewSetup, New, InProgress
<2> QED
  BY <2>1, <2>2, Bystander
<1>30. ASSUME DpkgJoined PROVE WorkInv'
<2>1. UNCHANGED <<job, pkg, known, configured>>
  BY <1>30 DEF DpkgJoined, stored, dpkgRest
<2> QED
  BY <2>1, Bystander
<1>31. ASSUME DpkgCompletes PROVE WorkInv'
<2>1. UNCHANGED <<job, pkg, known, configured>>
  BY <1>31 DEF DpkgCompletes, stored, dpkgRest
<2> QED
  BY <2>1, Bystander
<1>32. ASSUME DpkgRetry PROVE WorkInv'
<2>1. UNCHANGED <<job, pkg, known, configured>>
  BY <1>32 DEF DpkgRetry, stored, dpkgRest
<2> QED
  BY <2>1, Bystander
<1>33. ASSUME ForceAttempt PROVE WorkInv'
<2>1. UNCHANGED <<job, pkg, known, configured>>
  BY <1>33 DEF ForceAttempt, Fail, forceRest
<2> QED
  BY <2>1, Bystander
<1>34. ASSUME NEW a \in Forcible, ForceNext(a) PROVE WorkInv'
<2>1. UNCHANGED <<pkg, known, configured>>
  BY <1>34 DEF ForceNext, New, forceRest
<2>2. \/ UNCHANGED job
      \/ \E i \in Jobs : job[i] = "none" /\ job' = [job EXCEPT ![i] = "waiting"]
  <3>1. a \in Apps /\ <<"force", a>> \in Jobs
    BY <1>34, Assumed DEF Jobs, Kinds
  <3> QED
    BY <1>34, <3>1 DEF ForceNext, New, InProgress
<2> QED
  BY <2>1, <2>2, Bystander
<1>35. ASSUME ForceJoined PROVE WorkInv'
<2>1. UNCHANGED <<job, pkg, known, configured>>
  BY <1>35 DEF ForceJoined, forceRest
<2> QED
  BY <2>1, Bystander
<1>36. ASSUME ForceCompletes PROVE WorkInv'
<2>1. UNCHANGED <<job, pkg, known, configured>>
  BY <1>36 DEF ForceCompletes, forceRest
<2> QED
  BY <2>1, Bystander
<1>37. ASSUME ForceRetry PROVE WorkInv'
<2>1. UNCHANGED <<job, pkg, known, configured>>
  BY <1>37 DEF ForceRetry, forceRest
<2> QED
  BY <2>1, Bystander
<1>38. ASSUME Stop PROVE WorkInv'
<2>1. UNCHANGED <<job, pkg, known, configured>>
  BY <1>38 DEF Stop, stored
<2> QED
  BY <2>1, Bystander
<1>39. ASSUME Restart PROVE WorkInv'
<2>1. job' = [j \in Jobs |-> "none"]
  BY <1>39 DEF Restart
<2>2. \A j \in Jobs : job'[j] = "none"
  BY <2>1
<2>3. \A kind \in Kinds, b \in Apps : <<kind, b>> \in Jobs
  BY DEF Jobs
<2> QED
  BY <2>2, <2>3 DEF WorkInv, OneRuns, Running, StageOK
<1>40. CASE UNCHANGED vars
<2>1. UNCHANGED <<job, pkg, known, configured>>
  BY <1>40 DEF vars, stored
<2> QED
  BY <2>1, Bystander
<1> QED
  BY <1>1, <1>2, <1>3, <1>4, <1>5, <1>6, <1>7, <1>8, <1>9, <1>10, <1>11,
     <1>12, <1>13, <1>14, <1>15, <1>16, <1>17, <1>18, <1>19, <1>20,
     <1>21, <1>22, <1>23, <1>24, <1>25, <1>26, <1>27, <1>28, <1>29,
     <1>30, <1>31, <1>32, <1>33, <1>34, <1>35, <1>36, <1>37, <1>38,
     <1>39, <1>40
     DEF Next, JobStep, StartupStep, DpkgStep, ForceStep
LEMMA FollowsStep == StoredOK /\ WorkInv /\ [Next]_vars => Follows
<1> SUFFICES ASSUME StoredOK, WorkInv, [Next]_vars PROVE Follows
  OBVIOUS
<1>1. ASSUME NEW kind \in Kinds, NEW a \in Apps, JobStart(<<kind, a>>) PROVE Follows
<2>1. UNCHANGED version
  BY <1>1 DEF JobStart, Running, stored
<2> QED
  BY <2>1 DEF Follows
<1>2. ASSUME NEW kind \in Kinds, NEW a \in Apps, SetupBegin(kind, a) PROVE Follows
<2>1. UNCHANGED version
  BY <1>2 DEF SetupBegin, ForceUpgrade, stored, jobRest
<2> QED
  BY <2>1 DEF Follows
<1>3. ASSUME NEW kind \in Kinds, NEW a \in Apps, SetupInstall(kind, a) PROVE Follows
<2>1. UNCHANGED version
  BY <1>3 DEF SetupInstall, jobRest
<2> QED
  BY <2>1 DEF Follows
<1>4. ASSUME NEW kind \in Kinds, NEW a \in Apps, SetupMark(kind, a) PROVE Follows
<2>1. UNCHANGED version
  BY <1>4 DEF SetupMark, jobRest
<2> QED
  BY <2>1 DEF Follows
<1>5. ASSUME NEW kind \in Kinds, NEW a \in Apps, SetupConfigure(kind, a)
      PROVE  Follows
<2>1. UNCHANGED version
  BY <1>5 DEF SetupConfigure, jobRest
<2> QED
  BY <2>1 DEF Follows
<1>6. ASSUME NEW kind \in Kinds, NEW a \in Apps, SetupRecord(kind, a) PROVE Follows
<2>1. /\ version' = [version EXCEPT ![a] = CodeVersion] /\ CodeVersion # 0
      /\ pkg[a] # 0 /\ configured[a] # 0
  BY <1>6, Assumed DEF SetupRecord, WorkInv, StageOK
<2> QED
  BY <2>1 DEF Follows, StoredOK
<1>7. ASSUME NEW a \in Apps, UninstallRemove(a) PROVE Follows
<2>1. UNCHANGED version
  BY <1>7 DEF UninstallRemove, jobRest
<2> QED
  BY <2>1 DEF Follows
<1>8. ASSUME NEW a \in Apps, UninstallUnmark(a) PROVE Follows
<2>1. UNCHANGED version
  BY <1>8 DEF UninstallUnmark, jobRest
<2> QED
  BY <2>1 DEF Follows
<1>9. ASSUME NEW a \in Apps, UninstallRecord(a) PROVE Follows
<2>1. /\ version' = [version EXCEPT ![a] = 0]
      /\ pkg[a] = 0 /\ known[a] = 0
  BY <1>9 DEF UninstallRecord, WorkInv, StageOK, Kinds
<2> QED
  BY <2>1 DEF Follows, StoredOK
<1>10. ASSUME NEW a \in Apps, ForceDeclined(a) PROVE Follows
<2>1. UNCHANGED version
  BY <1>10 DEF ForceDeclined, stored, jobRest
<2> QED
  BY <2>1 DEF Follows
<1>11. ASSUME NEW a \in Apps, ForceInstall(a) PROVE Follows
<2>1. UNCHANGED version
  BY <1>11 DEF ForceInstall, ForceUpgrade, jobRest
<2> QED
  BY <2>1 DEF Follows
<1>12. ASSUME NEW a \in Apps, ForceConfigure(a) PROVE Follows
<2>1. UNCHANGED version
  BY <1>12 DEF ForceConfigure, jobRest
<2> QED
  BY <2>1 DEF Follows
<1>13. ASSUME NEW kind \in Kinds, NEW a \in Apps, JobFails(<<kind, a>>)
      PROVE  Follows
<2>1. UNCHANGED version
  BY <1>13 DEF JobFails, Fail
<2> QED
  BY <2>1 DEF Follows
<1>14. ASSUME NEW a \in Apps, RepairEnd(a) PROVE Follows
<2>1. UNCHANGED version
  BY <1>14 DEF RepairEnd, stored, jobRest
<2> QED
  BY <2>1 DEF Follows
<1>15. ASSUME NEW a \in Forcible, CacheUpdated(a) PROVE Follows
<2>1. UNCHANGED version
  BY <1>15 DEF CacheUpdated, forceRest
<2> QED
  BY <2>1 DEF Follows
<1>16. ASSUME NEW a \in Interested, PackageUpdated(a) PROVE Follows
<2>1. UNCHANGED version
  BY <1>16 DEF PackageUpdated
<2> QED
  BY <2>1 DEF Follows
<1>17. ASSUME NEW a \in UserApps, UserSetup(a) PROVE Follows
<2>1. UNCHANGED version
  BY <1>17 DEF UserSetup, NewSetup, New, stored, userRest
<2> QED
  BY <2>1 DEF Follows
<1>18. ASSUME NEW kind \in {"repair", "uninstall"},
             NEW a \in UserApps, UserRepairOrUninstall(kind, a)
      PROVE  Follows
<2>1. UNCHANGED version
  BY <1>18 DEF UserRepairOrUninstall, New, stored, userRest
<2> QED
  BY <2>1 DEF Follows
<1>19. ASSUME StartupBegin PROVE Follows
<2>1. UNCHANGED version
  BY <1>19 DEF StartupBegin, stored, startupRest
<2> QED
  BY <2>1 DEF Follows
<1>20. ASSUME StartupAttempt PROVE Follows
<2>1. UNCHANGED version
  BY <1>20 DEF StartupAttempt, stored, startupRest
<2> QED
  BY <2>1 DEF Follows
<1>21. ASSUME StartupNext PROVE Follows
<2>1. UNCHANGED version
  BY <1>21 DEF StartupNext, NewSetup, New, stored, startupRest
<2> QED
  BY <2>1 DEF Follows
<1>22. ASSUME StartupJoined PROVE Follows
<2>1. UNCHANGED version
  BY <1>22 DEF StartupJoined, stored, startupRest
<2> QED
  BY <2>1 DEF Follows
<1>23. ASSUME StartupRetry PROVE Follows
<2>1. UNCHANGED version
  BY <1>23 DEF StartupRetry, stored, startupRest
<2> QED
  BY <2>1 DEF Follows
<1>24. ASSUME StartupSucceeds PROVE Follows
<2>1. UNCHANGED version
  BY <1>24 DEF StartupSucceeds, stored, startupRest
<2> QED
  BY <2>1 DEF Follows
<1>25. ASSUME StartupDpkg PROVE Follows
<2>1. UNCHANGED version
  BY <1>25 DEF StartupDpkg, stored, startupRest
<2> QED
  BY <2>1 DEF Follows
<1>26. ASSUME StartupForce PROVE Follows
<2>1. UNCHANGED version
  BY <1>26 DEF StartupForce, stored, startupRest
<2> QED
  BY <2>1 DEF Follows
<1>27. ASSUME DpkgInvoked PROVE Follows
<2>1. UNCHANGED version
  BY <1>27 DEF DpkgInvoked, stored, dpkgRest
<2> QED
  BY <2>1 DEF Follows
<1>28. ASSUME DpkgAttempt PROVE Follows
<2>1. UNCHANGED version
  BY <1>28 DEF DpkgAttempt, Fail, stored, dpkgRest
<2> QED
  BY <2>1 DEF Follows
<1>29. ASSUME DpkgNext PROVE Follows
<2>1. UNCHANGED version
  BY <1>29 DEF DpkgNext, NewSetup, New, stored, dpkgRest
<2> QED
  BY <2>1 DEF Follows
<1>30. ASSUME DpkgJoined PROVE Follows
<2>1. UNCHANGED version
  BY <1>30 DEF DpkgJoined, stored, dpkgRest
<2> QED
  BY <2>1 DEF Follows
<1>31. ASSUME DpkgCompletes PROVE Follows
<2>1. UNCHANGED version
  BY <1>31 DEF DpkgCompletes, stored, dpkgRest
<2> QED
  BY <2>1 DEF Follows
<1>32. ASSUME DpkgRetry PROVE Follows
<2>1. UNCHANGED version
  BY <1>32 DEF DpkgRetry, stored, dpkgRest
<2> QED
  BY <2>1 DEF Follows
<1>33. ASSUME ForceAttempt PROVE Follows
<2>1. UNCHANGED version
  BY <1>33 DEF ForceAttempt, Fail, forceRest
<2> QED
  BY <2>1 DEF Follows
<1>34. ASSUME NEW a \in Forcible, ForceNext(a) PROVE Follows
<2>1. UNCHANGED version
  BY <1>34 DEF ForceNext, New, forceRest
<2> QED
  BY <2>1 DEF Follows
<1>35. ASSUME ForceJoined PROVE Follows
<2>1. UNCHANGED version
  BY <1>35 DEF ForceJoined, forceRest
<2> QED
  BY <2>1 DEF Follows
<1>36. ASSUME ForceCompletes PROVE Follows
<2>1. UNCHANGED version
  BY <1>36 DEF ForceCompletes, forceRest
<2> QED
  BY <2>1 DEF Follows
<1>37. ASSUME ForceRetry PROVE Follows
<2>1. UNCHANGED version
  BY <1>37 DEF ForceRetry, forceRest
<2> QED
  BY <2>1 DEF Follows
<1>38. ASSUME Stop PROVE Follows
<2>1. UNCHANGED version
  BY <1>38 DEF Stop, stored
<2> QED
  BY <2>1 DEF Follows
<1>39. ASSUME Restart PROVE Follows
<2>1. UNCHANGED version
  BY <1>39 DEF Restart, stored
<2> QED
  BY <2>1 DEF Follows
<1>40. CASE UNCHANGED vars
<2>1. UNCHANGED version
  BY <1>40 DEF vars, stored
<2> QED
  BY <2>1 DEF Follows
<1> QED
  BY <1>1, <1>2, <1>3, <1>4, <1>5, <1>6, <1>7, <1>8, <1>9, <1>10, <1>11,
     <1>12, <1>13, <1>14, <1>15, <1>16, <1>17, <1>18, <1>19, <1>20,
     <1>21, <1>22, <1>23, <1>24, <1>25, <1>26, <1>27, <1>28, <1>29,
     <1>30, <1>31, <1>32, <1>33, <1>34, <1>35, <1>36, <1>37, <1>38,
     <1>39, <1>40
     DEF Next, JobStep, StartupStep, DpkgStep, ForceStep

(* Everything is at rest when the program starts.                          *)
LEMMA WorkBegins == Init => WorkInv
<1> SUFFICES ASSUME Init PROVE WorkInv
  OBVIOUS
<1>1. \A j \in Jobs : job[j] = "none"
  BY DEF Init
<1>2. \A kind \in Kinds, a \in Apps : <<kind, a>> \in Jobs
  BY DEF Jobs
<1> QED
  BY <1>1, <1>2 DEF WorkInv, OneRuns, Running, StageOK

(* The types and the stages of the operations, for the theorems below.     *)
LEMMA WorkHolds == Spec => [](Typed /\ WorkInv)
<1>1. Init => Typed /\ WorkInv
  BY TypesBegin, WorkBegins
<1>2. (Typed /\ WorkInv) /\ [Next]_vars => (Typed /\ WorkInv)'
  BY TypesStep, WorkStep DEF Typed
<1> QED
  BY <1>1, <1>2, PTL DEF Spec

(* The recorded version of an app changes only to say what is true of its  *)
(* package: set when it is installed and configured, erased when it and    *)
(* what is known of it are gone.  Needed is what the stages of a running   *)
(* operation have established, which no other operation disturbs.          *)
THEOREM RecordFollowsPackages == Spec => RecordMatchesPackages
<1>1. (Typed /\ WorkInv) /\ [Next]_vars => [Follows]_vars
  BY FollowsStep DEF Typed
<1>2. [][Follows]_vars => RecordMatchesPackages
  BY PTL DEF RecordMatchesPackages, Follows
<1> QED
  BY <1>1, <1>2, WorkHolds, PTL DEF Spec


-----------------------------------------------------------------------------
(* Startup: what the loop has passed stays current.                        *)

LEMMA RemovedBy ==
    ASSUME JobsOK, NeverRemoved, NEW j \in Jobs, NEW s,
           job' = [job EXCEPT ![j] = s],
           s = "none" \/ job[j] # "none" \/ (\A a \in Essential : j # <<"uninstall", a>>)
    PROVE  NeverRemoved'
<1> SUFFICES ASSUME NEW a \in Essential PROVE job'[<<"uninstall", a>>] = "none"
  BY DEF NeverRemoved
<1>1. <<"uninstall", a>> \in Jobs /\ job[<<"uninstall", a>>] = "none"
  BY Assumed DEF Jobs, Kinds, NeverRemoved
<1> QED
  BY <1>1 DEF JobsOK

LEMMA NeverRemovedStep == JobsOK /\ NeverRemoved /\ [Next]_vars => NeverRemoved'
<1> SUFFICES ASSUME JobsOK, NeverRemoved, [Next]_vars PROVE NeverRemoved'
  OBVIOUS
<1>1. ASSUME NEW kind \in Kinds, NEW a \in Apps, JobStart(<<kind, a>>)
      PROVE  NeverRemoved'
<2>1. <<kind, a>> \in Jobs
  BY DEF Jobs, Kinds
<2>2. job[<<kind, a>>] # "none" /\ \E s \in Stages : job' = [job EXCEPT ![<<kind, a>>] = s]
  BY <1>1 DEF JobStart, Stages
<2> QED
  BY <2>1, <2>2, RemovedBy
<1>2. ASSUME NEW kind \in Kinds, NEW a \in Apps, SetupBegin(kind, a)
      PROVE  NeverRemoved'
<2>1. <<kind, a>> \in Jobs
  BY DEF Jobs
<2>2. job[<<kind, a>>] # "none" /\ \E s \in Stages : job' = [job EXCEPT ![<<kind, a>>] = s]
  BY <1>2 DEF SetupBegin, JobGoesOn, JobEnd, Stages
<2> QED
  BY <2>1, <2>2, RemovedBy
<1>3. ASSUME NEW kind \in Kinds, NEW a \in Apps, SetupInstall(kind, a)
      PROVE  NeverRemoved'
<2>1. <<kind, a>> \in Jobs
  BY DEF Jobs, Kinds
<2>2. job[<<kind, a>>] # "none" /\ \E s \in Stages : job' = [job EXCEPT ![<<kind, a>>] = s]
  BY <1>3, InstallMoves DEF Stages
<2> QED
  BY <2>1, <2>2, RemovedBy
<1>4. ASSUME NEW kind \in Kinds, NEW a \in Apps, SetupMark(kind, a)
      PROVE  NeverRemoved'
<2>1. <<kind, a>> \in Jobs
  BY DEF Jobs, Kinds
<2>2. job[<<kind, a>>] # "none" /\ \E s \in Stages : job' = [job EXCEPT ![<<kind, a>>] = s]
  BY <1>4 DEF SetupMark, JobGoesOn, Stages
<2> QED
  BY <2>1, <2>2, RemovedBy
<1>5. ASSUME NEW kind \in Kinds, NEW a \in Apps, SetupConfigure(kind, a)
      PROVE  NeverRemoved'
<2>1. <<kind, a>> \in Jobs
  BY DEF Jobs, Kinds
<2>2. job[<<kind, a>>] # "none" /\ \E s \in Stages : job' = [job EXCEPT ![<<kind, a>>] = s]
  BY <1>5 DEF SetupConfigure, JobGoesOn, Stages
<2> QED
  BY <2>1, <2>2, RemovedBy
<1>6. ASSUME NEW kind \in Kinds, NEW a \in Apps, SetupRecord(kind, a)
      PROVE  NeverRemoved'
<2>1. <<kind, a>> \in Jobs
  BY <1>6 DEF Jobs, Kinds
<2>2. job' = [job EXCEPT ![<<kind, a>>] = "none"]
  BY <1>6 DEF SetupRecord, JobEnd
<2> QED
  BY <2>1, <2>2, RemovedBy
<1>7. ASSUME NEW a \in Apps, UninstallRemove(a) PROVE NeverRemoved'
<2>1. <<"uninstall", a>> \in Jobs
  BY DEF Jobs, Kinds
<2>2. job[<<"uninstall", a>>] # "none" /\ \E s \in Stages : job' = [job EXCEPT ![<<"uninstall", a>>] = s]
  BY <1>7 DEF UninstallRemove, JobGoesOn, Stages
<2> QED
  BY <2>1, <2>2, RemovedBy
<1>8. ASSUME NEW a \in Apps, UninstallUnmark(a) PROVE NeverRemoved'
<2>1. <<"uninstall", a>> \in Jobs
  BY DEF Jobs, Kinds
<2>2. job[<<"uninstall", a>>] # "none" /\ \E s \in Stages : job' = [job EXCEPT ![<<"uninstall", a>>] = s]
  BY <1>8 DEF UninstallUnmark, JobGoesOn, Stages
<2> QED
  BY <2>1, <2>2, RemovedBy
<1>9. ASSUME NEW a \in Apps, UninstallRecord(a) PROVE NeverRemoved'
<2>1. <<"uninstall", a>> \in Jobs
  BY <1>9 DEF Jobs, Kinds
<2>2. job' = [job EXCEPT ![<<"uninstall", a>>] = "none"]
  BY <1>9 DEF UninstallRecord, JobEnd
<2> QED
  BY <2>1, <2>2, RemovedBy
<1>10. ASSUME NEW a \in Apps, ForceDeclined(a) PROVE NeverRemoved'
<2>1. <<"force", a>> \in Jobs
  BY <1>10 DEF Jobs, Kinds
<2>2. job' = [job EXCEPT ![<<"force", a>>] = "none"]
  BY <1>10 DEF ForceDeclined, JobEnd
<2> QED
  BY <2>1, <2>2, RemovedBy
<1>11. ASSUME NEW a \in Apps, ForceInstall(a) PROVE NeverRemoved'
<2>1. <<"force", a>> \in Jobs
  BY DEF Jobs, Kinds
<2>2. job[<<"force", a>>] # "none" /\ \E s \in Stages : job' = [job EXCEPT ![<<"force", a>>] = s]
  BY <1>11 DEF ForceInstall, JobGoesOn, Stages
<2> QED
  BY <2>1, <2>2, RemovedBy
<1>12. ASSUME NEW a \in Apps, ForceConfigure(a) PROVE NeverRemoved'
<2>1. <<"force", a>> \in Jobs
  BY <1>12 DEF Jobs, Kinds
<2>2. job' = [job EXCEPT ![<<"force", a>>] = "none"]
  BY <1>12 DEF ForceConfigure, JobEnd
<2> QED
  BY <2>1, <2>2, RemovedBy
<1>13. ASSUME NEW kind \in Kinds, NEW a \in Apps, JobFails(<<kind, a>>)
      PROVE  NeverRemoved'
<2>1. <<kind, a>> \in Jobs
  BY <1>13 DEF Jobs, Kinds
<2>2. job' = [job EXCEPT ![<<kind, a>>] = "none"]
  BY <1>13 DEF JobFails, JobEnd
<2> QED
  BY <2>1, <2>2, RemovedBy
<1>14. ASSUME NEW a \in Apps, RepairEnd(a) PROVE NeverRemoved'
<2>1. <<"repair", a>> \in Jobs
  BY <1>14 DEF Jobs, Kinds
<2>2. job' = [job EXCEPT ![<<"repair", a>>] = "none"]
  BY <1>14 DEF RepairEnd, JobEnd
<2> QED
  BY <2>1, <2>2, RemovedBy
<1>15. ASSUME NEW a \in Forcible, CacheUpdated(a) PROVE NeverRemoved'
  BY <1>15 DEF NeverRemoved, CacheUpdated, forceRest
<1>16. ASSUME NEW a \in Interested, PackageUpdated(a) PROVE NeverRemoved'
  BY <1>16 DEF NeverRemoved, PackageUpdated
<1>17. ASSUME NEW a \in UserApps, UserSetup(a) PROVE NeverRemoved'
<2>1. <<"setup", a>> \in Jobs
  BY <1>17, Assumed DEF Jobs, Kinds
<2>2. job' = [job EXCEPT ![<<"setup", a>>] = "waiting"]
  BY <1>17 DEF UserSetup, NewSetup, New
<2>3. \A b \in Essential : <<"setup", a>> # <<"uninstall", b>>
  BY <1>17 DEF UserSetup
<2> QED
  BY <2>1, <2>2, <2>3, RemovedBy
<1>18. ASSUME NEW kind \in {"repair", "uninstall"},
             NEW a \in UserApps, UserRepairOrUninstall(kind, a)
      PROVE  NeverRemoved'
<2>1. <<kind, a>> \in Jobs
  BY <1>18, Assumed DEF Jobs, Kinds
<2>2. job' = [job EXCEPT ![<<kind, a>>] = "waiting"]
  BY <1>18 DEF UserRepairOrUninstall, New
<2>3. \A b \in Essential : <<kind, a>> # <<"uninstall", b>>
  BY <1>18 DEF UserRepairOrUninstall
<2> QED
  BY <2>1, <2>2, <2>3, RemovedBy
<1>19. ASSUME StartupBegin PROVE NeverRemoved'
  BY <1>19 DEF NeverRemoved, StartupBegin, startupRest
<1>20. ASSUME StartupAttempt PROVE NeverRemoved'
  BY <1>20 DEF NeverRemoved, StartupAttempt, startupRest
<1>21. ASSUME StartupNext PROVE NeverRemoved'
<2>1. <<"setup", AppList[startup.idx]>> \in Jobs
  <3>1. AppList[startup.idx] \in Apps
    BY <1>21 DEF StartupNext, Apps
  <3> QED
    BY <3>1 DEF Jobs, Kinds
<2>2. \/ UNCHANGED job
      \/ job' = [job EXCEPT ![<<"setup", AppList[startup.idx]>>] = "waiting"]
  BY <1>21, Zenon DEF StartupNext, NewSetup, New
<2>3. \A b \in Essential : <<"setup", AppList[startup.idx]>> # <<"uninstall", b>>
  OBVIOUS
<2>4. UNCHANGED job => NeverRemoved'
  BY DEF NeverRemoved
<2> QED
  BY <2>1, <2>2, <2>3, <2>4, RemovedBy
<1>22. ASSUME StartupJoined PROVE NeverRemoved'
  BY <1>22 DEF NeverRemoved, StartupJoined, startupRest
<1>23. ASSUME StartupRetry PROVE NeverRemoved'
  BY <1>23 DEF NeverRemoved, StartupRetry, startupRest
<1>24. ASSUME StartupSucceeds PROVE NeverRemoved'
  BY <1>24 DEF NeverRemoved, StartupSucceeds, startupRest
<1>25. ASSUME StartupDpkg PROVE NeverRemoved'
  BY <1>25 DEF NeverRemoved, StartupDpkg, startupRest
<1>26. ASSUME StartupForce PROVE NeverRemoved'
  BY <1>26 DEF NeverRemoved, StartupForce, startupRest
<1>27. ASSUME DpkgInvoked PROVE NeverRemoved'
  BY <1>27 DEF NeverRemoved, DpkgInvoked, dpkgRest
<1>28. ASSUME DpkgAttempt PROVE NeverRemoved'
  BY <1>28 DEF NeverRemoved, DpkgAttempt, Fail, dpkgRest
<1>29. ASSUME DpkgNext PROVE NeverRemoved'
<2>1. <<"setup", AppList[dpkg.idx]>> \in Jobs
  <3>1. AppList[dpkg.idx] \in Apps
    BY <1>29 DEF DpkgNext, Apps
  <3> QED
    BY <3>1 DEF Jobs, Kinds
<2>2. \/ UNCHANGED job
      \/ job' = [job EXCEPT ![<<"setup", AppList[dpkg.idx]>>] = "waiting"]
  BY <1>29, Zenon DEF DpkgNext, NewSetup, New
<2>3. \A b \in Essential : <<"setup", AppList[dpkg.idx]>> # <<"uninstall", b>>
  OBVIOUS
<2>4. UNCHANGED job => NeverRemoved'
  BY DEF NeverRemoved
<2> QED
  BY <2>1, <2>2, <2>3, <2>4, RemovedBy
<1>30. ASSUME DpkgJoined PROVE NeverRemoved'
  BY <1>30 DEF NeverRemoved, DpkgJoined, dpkgRest
<1>31. ASSUME DpkgCompletes PROVE NeverRemoved'
  BY <1>31 DEF NeverRemoved, DpkgCompletes, dpkgRest
<1>32. ASSUME DpkgRetry PROVE NeverRemoved'
  BY <1>32 DEF NeverRemoved, DpkgRetry, dpkgRest
<1>33. ASSUME ForceAttempt PROVE NeverRemoved'
  BY <1>33 DEF NeverRemoved, ForceAttempt, Fail, forceRest
<1>34. ASSUME NEW a \in Forcible, ForceNext(a) PROVE NeverRemoved'
<2>1. <<"force", a>> \in Jobs
  BY <1>34, Assumed DEF Jobs, Kinds
<2>2. job' = [job EXCEPT ![<<"force", a>>] = "waiting"]
  BY <1>34 DEF ForceNext, New
<2>3. \A b \in Essential : <<"force", a>> # <<"uninstall", b>>
  BY <1>34 DEF ForceNext
<2> QED
  BY <2>1, <2>2, <2>3, RemovedBy
<1>35. ASSUME ForceJoined PROVE NeverRemoved'
  BY <1>35 DEF NeverRemoved, ForceJoined, forceRest
<1>36. ASSUME ForceCompletes PROVE NeverRemoved'
  BY <1>36 DEF NeverRemoved, ForceCompletes, forceRest
<1>37. ASSUME ForceRetry PROVE NeverRemoved'
  BY <1>37 DEF NeverRemoved, ForceRetry, forceRest
<1>38. ASSUME Stop PROVE NeverRemoved'
  BY <1>38 DEF NeverRemoved, Stop
<1>39. ASSUME Restart PROVE NeverRemoved'
<2>1. \A b \in Essential : <<"uninstall", b>> \in Jobs
  BY Assumed DEF Jobs, Kinds
<2> QED
  BY <1>39, <2>1 DEF Restart, NeverRemoved
<1>40. CASE UNCHANGED vars
  BY <1>40 DEF NeverRemoved, vars
<1> QED
  BY <1>1, <1>2, <1>3, <1>4, <1>5, <1>6, <1>7, <1>8, <1>9, <1>10, <1>11,
     <1>12, <1>13, <1>14, <1>15, <1>16, <1>17, <1>18, <1>19, <1>20,
     <1>21, <1>22, <1>23, <1>24, <1>25, <1>26, <1>27, <1>28, <1>29,
     <1>30, <1>31, <1>32, <1>33, <1>34, <1>35, <1>36, <1>37, <1>38,
     <1>39, <1>40
     DEF Next, JobStep, StartupStep, DpkgStep, ForceStep

LEMMA UpkeptStep == StoredOK /\ NeverRemoved /\ [Next]_vars => Upkept
<1> SUFFICES ASSUME StoredOK, NeverRemoved, [Next]_vars PROVE Upkept
  OBVIOUS
<1>1. ASSUME NEW kind \in Kinds, NEW a \in Apps, JobStart(<<kind, a>>) PROVE Upkept
<2>1. UNCHANGED version
  BY <1>1 DEF JobStart, Running, stored
<2> QED
  BY <2>1 DEF Upkept
<1>2. ASSUME NEW kind \in Kinds, NEW a \in Apps, SetupBegin(kind, a) PROVE Upkept
<2>1. UNCHANGED version
  BY <1>2 DEF SetupBegin, ForceUpgrade, stored, jobRest
<2> QED
  BY <2>1 DEF Upkept
<1>3. ASSUME NEW kind \in Kinds, NEW a \in Apps, SetupInstall(kind, a) PROVE Upkept
<2>1. UNCHANGED version
  BY <1>3 DEF SetupInstall, jobRest
<2> QED
  BY <2>1 DEF Upkept
<1>4. ASSUME NEW kind \in Kinds, NEW a \in Apps, SetupMark(kind, a) PROVE Upkept
<2>1. UNCHANGED version
  BY <1>4 DEF SetupMark, jobRest
<2> QED
  BY <2>1 DEF Upkept
<1>5. ASSUME NEW kind \in Kinds, NEW a \in Apps, SetupConfigure(kind, a)
      PROVE  Upkept
<2>1. UNCHANGED version
  BY <1>5 DEF SetupConfigure, jobRest
<2> QED
  BY <2>1 DEF Upkept
<1>6. ASSUME NEW kind \in Kinds, NEW a \in Apps, SetupRecord(kind, a) PROVE Upkept
<2>1. version' = [version EXCEPT ![a] = CodeVersion]
  BY <1>6 DEF SetupRecord
<2> QED
  BY <2>1, Assumed DEF Upkept, StoredOK
<1>7. ASSUME NEW a \in Apps, UninstallRemove(a) PROVE Upkept
<2>1. UNCHANGED version
  BY <1>7 DEF UninstallRemove, jobRest
<2> QED
  BY <2>1 DEF Upkept
<1>8. ASSUME NEW a \in Apps, UninstallUnmark(a) PROVE Upkept
<2>1. UNCHANGED version
  BY <1>8 DEF UninstallUnmark, jobRest
<2> QED
  BY <2>1 DEF Upkept
<1>9. ASSUME NEW a \in Apps, UninstallRecord(a) PROVE Upkept
<2>1. version' = [version EXCEPT ![a] = 0] /\ a \notin Essential
  BY <1>9 DEF UninstallRecord, NeverRemoved
<2> QED
  BY <2>1, Assumed DEF Upkept, StoredOK
<1>10. ASSUME NEW a \in Apps, ForceDeclined(a) PROVE Upkept
<2>1. UNCHANGED version
  BY <1>10 DEF ForceDeclined, stored, jobRest
<2> QED
  BY <2>1 DEF Upkept
<1>11. ASSUME NEW a \in Apps, ForceInstall(a) PROVE Upkept
<2>1. UNCHANGED version
  BY <1>11 DEF ForceInstall, ForceUpgrade, jobRest
<2> QED
  BY <2>1 DEF Upkept
<1>12. ASSUME NEW a \in Apps, ForceConfigure(a) PROVE Upkept
<2>1. UNCHANGED version
  BY <1>12 DEF ForceConfigure, jobRest
<2> QED
  BY <2>1 DEF Upkept
<1>13. ASSUME NEW kind \in Kinds, NEW a \in Apps, JobFails(<<kind, a>>) PROVE Upkept
<2>1. UNCHANGED version
  BY <1>13 DEF JobFails, Fail
<2> QED
  BY <2>1 DEF Upkept
<1>14. ASSUME NEW a \in Apps, RepairEnd(a) PROVE Upkept
<2>1. UNCHANGED version
  BY <1>14 DEF RepairEnd, stored, jobRest
<2> QED
  BY <2>1 DEF Upkept
<1>15. ASSUME NEW a \in Forcible, CacheUpdated(a) PROVE Upkept
<2>1. UNCHANGED version
  BY <1>15 DEF CacheUpdated, forceRest
<2> QED
  BY <2>1 DEF Upkept
<1>16. ASSUME NEW a \in Interested, PackageUpdated(a) PROVE Upkept
<2>1. UNCHANGED version
  BY <1>16 DEF PackageUpdated
<2> QED
  BY <2>1 DEF Upkept
<1>17. ASSUME NEW a \in UserApps, UserSetup(a) PROVE Upkept
<2>1. UNCHANGED version
  BY <1>17 DEF UserSetup, NewSetup, New, stored, userRest
<2> QED
  BY <2>1 DEF Upkept
<1>18. ASSUME NEW kind \in {"repair", "uninstall"},
             NEW a \in UserApps, UserRepairOrUninstall(kind, a)
      PROVE  Upkept
<2>1. UNCHANGED version
  BY <1>18 DEF UserRepairOrUninstall, New, stored, userRest
<2> QED
  BY <2>1 DEF Upkept
<1>19. ASSUME StartupBegin PROVE Upkept
<2>1. UNCHANGED version
  BY <1>19 DEF StartupBegin, stored, startupRest
<2> QED
  BY <2>1 DEF Upkept
<1>20. ASSUME StartupAttempt PROVE Upkept
<2>1. UNCHANGED version
  BY <1>20 DEF StartupAttempt, stored, startupRest
<2> QED
  BY <2>1 DEF Upkept
<1>21. ASSUME StartupNext PROVE Upkept
<2>1. UNCHANGED version
  BY <1>21 DEF StartupNext, NewSetup, New, stored, startupRest
<2> QED
  BY <2>1 DEF Upkept
<1>22. ASSUME StartupJoined PROVE Upkept
<2>1. UNCHANGED version
  BY <1>22 DEF StartupJoined, stored, startupRest
<2> QED
  BY <2>1 DEF Upkept
<1>23. ASSUME StartupRetry PROVE Upkept
<2>1. UNCHANGED version
  BY <1>23 DEF StartupRetry, stored, startupRest
<2> QED
  BY <2>1 DEF Upkept
<1>24. ASSUME StartupSucceeds PROVE Upkept
<2>1. UNCHANGED version
  BY <1>24 DEF StartupSucceeds, stored, startupRest
<2> QED
  BY <2>1 DEF Upkept
<1>25. ASSUME StartupDpkg PROVE Upkept
<2>1. UNCHANGED version
  BY <1>25 DEF StartupDpkg, stored, startupRest
<2> QED
  BY <2>1 DEF Upkept
<1>26. ASSUME StartupForce PROVE Upkept
<2>1. UNCHANGED version
  BY <1>26 DEF StartupForce, stored, startupRest
<2> QED
  BY <2>1 DEF Upkept
<1>27. ASSUME DpkgInvoked PROVE Upkept
<2>1. UNCHANGED version
  BY <1>27 DEF DpkgInvoked, stored, dpkgRest
<2> QED
  BY <2>1 DEF Upkept
<1>28. ASSUME DpkgAttempt PROVE Upkept
<2>1. UNCHANGED version
  BY <1>28 DEF DpkgAttempt, Fail, stored, dpkgRest
<2> QED
  BY <2>1 DEF Upkept
<1>29. ASSUME DpkgNext PROVE Upkept
<2>1. UNCHANGED version
  BY <1>29 DEF DpkgNext, NewSetup, New, stored, dpkgRest
<2> QED
  BY <2>1 DEF Upkept
<1>30. ASSUME DpkgJoined PROVE Upkept
<2>1. UNCHANGED version
  BY <1>30 DEF DpkgJoined, stored, dpkgRest
<2> QED
  BY <2>1 DEF Upkept
<1>31. ASSUME DpkgCompletes PROVE Upkept
<2>1. UNCHANGED version
  BY <1>31 DEF DpkgCompletes, stored, dpkgRest
<2> QED
  BY <2>1 DEF Upkept
<1>32. ASSUME DpkgRetry PROVE Upkept
<2>1. UNCHANGED version
  BY <1>32 DEF DpkgRetry, stored, dpkgRest
<2> QED
  BY <2>1 DEF Upkept
<1>33. ASSUME ForceAttempt PROVE Upkept
<2>1. UNCHANGED version
  BY <1>33 DEF ForceAttempt, Fail, forceRest
<2> QED
  BY <2>1 DEF Upkept
<1>34. ASSUME NEW a \in Forcible, ForceNext(a) PROVE Upkept
<2>1. UNCHANGED version
  BY <1>34 DEF ForceNext, New, forceRest
<2> QED
  BY <2>1 DEF Upkept
<1>35. ASSUME ForceJoined PROVE Upkept
<2>1. UNCHANGED version
  BY <1>35 DEF ForceJoined, forceRest
<2> QED
  BY <2>1 DEF Upkept
<1>36. ASSUME ForceCompletes PROVE Upkept
<2>1. UNCHANGED version
  BY <1>36 DEF ForceCompletes, forceRest
<2> QED
  BY <2>1 DEF Upkept
<1>37. ASSUME ForceRetry PROVE Upkept
<2>1. UNCHANGED version
  BY <1>37 DEF ForceRetry, forceRest
<2> QED
  BY <2>1 DEF Upkept
<1>38. ASSUME Stop PROVE Upkept
<2>1. UNCHANGED version
  BY <1>38 DEF Stop, stored
<2> QED
  BY <2>1 DEF Upkept
<1>39. ASSUME Restart PROVE Upkept
<2>1. UNCHANGED version
  BY <1>39 DEF Restart, stored
<2> QED
  BY <2>1 DEF Upkept
<1>40. CASE UNCHANGED vars
<2>1. UNCHANGED version
  BY <1>40 DEF vars, stored
<2> QED
  BY <2>1 DEF Upkept
<1> QED
  BY <1>1, <1>2, <1>3, <1>4, <1>5, <1>6, <1>7, <1>8, <1>9, <1>10, <1>11,
     <1>12, <1>13, <1>14, <1>15, <1>16, <1>17, <1>18, <1>19, <1>20,
     <1>21, <1>22, <1>23, <1>24, <1>25, <1>26, <1>27, <1>28, <1>29,
     <1>30, <1>31, <1>32, <1>33, <1>34, <1>35, <1>36, <1>37, <1>38,
     <1>39, <1>40
     DEF Next, JobStep, StartupStep, DpkgStep, ForceStep

(* A step that leaves the startup thread where it is, or fails it.         *)
LEMMA StartupStays ==
    ASSUME Typed, StartupInv, Upkept,
           UNCHANGED firstSetup, stopping' = stopping \/ stopping',
           \/ UNCHANGED startup
           \/ startup.at \in {"next", "join"} /\ startup' = [startup EXCEPT !.at = "raised"]
    PROVE  StartupInv'
<1>1. CASE UNCHANGED startup
  <2>1. LoopInv'
    BY <1>1, Assumed DEF StartupInv, LoopInv, Passed, Upkept
  <2>2. EndInv'
    BY <1>1 DEF StartupInv, EndInv, SetupEnded, Upkept
  <2>3. FirstInv'
    BY <1>1 DEF StartupInv, FirstInv, SetupEnded
  <2> QED
    BY <2>1, <2>2, <2>3 DEF StartupInv
<1>2. CASE startup.at \in {"next", "join"} /\ startup' = [startup EXCEPT !.at = "raised"]
  <2>1. startup'.at = "raised" /\ startup'.first = startup.first
    BY <1>2 DEF Typed, ThreadsOK, StartupThread
  <2>2. LoopInv' /\ EndInv'
    BY <2>1 DEF LoopInv, EndInv, SetupEnded
  <2>3. FirstInv'
    BY <1>2, <2>1 DEF StartupInv, FirstInv, SetupEnded
  <2> QED
    BY <2>2, <2>3 DEF StartupInv
<1> QED
  BY <1>1, <1>2

(* The end of an operation, seen from the startup thread.                  *)
LEMMA StartupWakes ==
    ASSUME Typed, StartupInv, Upkept, NEW j \in Jobs, NEW ok \in BOOLEAN, JobEnd(j, ok),
           UNCHANGED <<firstSetup, stopping>>,
           \A a \in Apps : ok /\ j = <<"setup", a>> => version'[a] = CodeVersion
    PROVE  StartupInv'
<1>1. \/ startup' = startup
      \/ startup.at = "join" /\ startup' = [startup EXCEPT !.at = "raised"]
      \/ /\ ok /\ startup.at = "join" /\ j = <<"setup", AppList[startup.idx]>>
         /\ startup' = [startup EXCEPT !.at = "joined"]
  BY DEF JobEnd
<1>2. CASE startup' = startup \/ (startup.at = "join" /\ startup' = [startup EXCEPT !.at = "raised"])
  BY <1>2, StartupStays
<1>3. CASE /\ ok /\ startup.at = "join" /\ j = <<"setup", AppList[startup.idx]>>
           /\ startup' = [startup EXCEPT !.at = "joined"]
  <2>1. /\ startup'.at = "joined" /\ startup'.first = startup.first
        /\ startup'.idx = startup.idx /\ startup'.todo = startup.todo
        /\ startup.idx \in DOMAIN AppList
    BY <1>3 DEF Typed, ThreadsOK, StartupThread
  <2>2. AppList[startup.idx] \in Apps
    BY <2>1 DEF Apps
  <2>3. version'[AppList[startup.idx]] = CodeVersion
    BY <1>3, <2>2
  <2>4. LoopInv'
    <3> SUFFICES ASSUME NEW i \in DOMAIN AppList, AppList[i] \in Essential, Passed(i)'
                 PROVE  version'[AppList[i]] = CodeVersion
      BY DEF LoopInv
    <3>1. i = startup.idx \/ Passed(i)
      BY <2>1 DEF Passed
    <3> QED
      BY <1>3, <2>3, <3>1 DEF StartupInv, LoopInv, Upkept
  <2>5. EndInv'
    BY <2>1 DEF EndInv, SetupEnded
  <2>6. FirstInv'
    BY <1>3, <2>1 DEF StartupInv, FirstInv, SetupEnded
  <2> QED
    BY <2>4, <2>5, <2>6 DEF StartupInv
<1> QED
  BY <1>1, <1>2, <1>3

LEMMA StartupInvStep == Typed /\ Upkept /\ StartupInv /\ [Next]_vars => StartupInv'
<1> SUFFICES ASSUME Typed, Upkept, StartupInv, [Next]_vars PROVE StartupInv'
  OBVIOUS
<1>1. ASSUME NEW kind \in Kinds, NEW a \in Apps, JobStart(<<kind, a>>)
      PROVE  StartupInv'
<2>1. UNCHANGED <<startup, firstSetup, stopping>>
  BY <1>1 DEF JobStart, Running, threads
<2> QED
  BY <2>1, StartupStays
<1>2. ASSUME NEW kind \in Kinds, NEW a \in Apps, SetupBegin(kind, a)
      PROVE  StartupInv'
<2>1. <<kind, a>> \in Jobs
  BY DEF Jobs
<2>2. UNCHANGED startup \/ JobEnd(<<kind, a>>, FALSE)
  BY <1>2 DEF SetupBegin, JobGoesOn, threads
<2>3. UNCHANGED <<firstSetup, stopping>>
  BY <1>2 DEF SetupBegin, jobRest
<2> QED
  BY <2>1, <2>2, <2>3, StartupWakes, StartupStays
<1>3. ASSUME NEW kind \in Kinds, NEW a \in Apps, SetupInstall(kind, a)
      PROVE  StartupInv'
<2>1. <<kind, a>> \in Jobs
  BY DEF Jobs
<2>2. UNCHANGED startup \/ JobEnd(<<kind, a>>, FALSE)
  BY <1>3, InstallMoves DEF threads
<2>3. UNCHANGED <<firstSetup, stopping>>
  BY <1>3 DEF SetupInstall
<2> QED
  BY <2>1, <2>2, <2>3, StartupWakes, StartupStays
<1>4. ASSUME NEW kind \in Kinds, NEW a \in Apps, SetupMark(kind, a)
      PROVE  StartupInv'
<2>1. UNCHANGED <<startup, firstSetup, stopping>>
  BY <1>4 DEF SetupMark, JobGoesOn, threads, jobRest
<2> QED
  BY <2>1, StartupStays
<1>5. ASSUME NEW kind \in Kinds, NEW a \in Apps, SetupConfigure(kind, a)
      PROVE  StartupInv'
<2>1. UNCHANGED <<startup, firstSetup, stopping>>
  BY <1>5 DEF SetupConfigure, JobGoesOn, threads, jobRest
<2> QED
  BY <2>1, StartupStays
<1>6. ASSUME NEW kind \in Kinds, NEW a \in Apps, SetupRecord(kind, a)
      PROVE  StartupInv'
<2>1. <<kind, a>> \in Jobs
  BY <1>6 DEF Jobs, Kinds
<2>2. JobEnd(<<kind, a>>, TRUE) /\ UNCHANGED <<firstSetup, stopping>>
  BY <1>6 DEF SetupRecord, jobRest
<2>3. \A b \in Apps : TRUE /\ <<kind, a>> = <<"setup", b>> => version'[b] = CodeVersion
  BY <1>6, Assumed DEF SetupRecord, Typed, StoredOK
<2> QED
  BY <2>1, <2>2, <2>3, StartupWakes
<1>7. ASSUME NEW a \in Apps, UninstallRemove(a) PROVE StartupInv'
<2>1. UNCHANGED <<startup, firstSetup, stopping>>
  BY <1>7 DEF UninstallRemove, JobGoesOn, threads, jobRest
<2> QED
  BY <2>1, StartupStays
<1>8. ASSUME NEW a \in Apps, UninstallUnmark(a) PROVE StartupInv'
<2>1. UNCHANGED <<startup, firstSetup, stopping>>
  BY <1>8 DEF UninstallUnmark, JobGoesOn, threads, jobRest
<2> QED
  BY <2>1, StartupStays
<1>9. ASSUME NEW a \in Apps, UninstallRecord(a) PROVE StartupInv'
<2>1. <<"uninstall", a>> \in Jobs
  BY <1>9 DEF Jobs, Kinds
<2>2. JobEnd(<<"uninstall", a>>, TRUE) /\ UNCHANGED <<firstSetup, stopping>>
  BY <1>9 DEF UninstallRecord, jobRest
<2>3. \A b \in Apps : TRUE /\ <<"uninstall", a>> = <<"setup", b>> => version'[b] = CodeVersion
  OBVIOUS
<2> QED
  BY <2>1, <2>2, <2>3, StartupWakes
<1>10. ASSUME NEW a \in Apps, ForceDeclined(a) PROVE StartupInv'
<2>1. <<"force", a>> \in Jobs
  BY <1>10 DEF Jobs, Kinds
<2>2. JobEnd(<<"force", a>>, TRUE) /\ UNCHANGED <<firstSetup, stopping>>
  BY <1>10 DEF ForceDeclined, jobRest
<2>3. \A b \in Apps : TRUE /\ <<"force", a>> = <<"setup", b>> => version'[b] = CodeVersion
  OBVIOUS
<2> QED
  BY <2>1, <2>2, <2>3, StartupWakes
<1>11. ASSUME NEW a \in Apps, ForceInstall(a) PROVE StartupInv'
<2>1. UNCHANGED <<startup, firstSetup, stopping>>
  BY <1>11 DEF ForceInstall, ForceUpgrade, JobGoesOn, threads, jobRest
<2> QED
  BY <2>1, StartupStays
<1>12. ASSUME NEW a \in Apps, ForceConfigure(a) PROVE StartupInv'
<2>1. <<"force", a>> \in Jobs
  BY <1>12 DEF Jobs, Kinds
<2>2. JobEnd(<<"force", a>>, TRUE) /\ UNCHANGED <<firstSetup, stopping>>
  BY <1>12 DEF ForceConfigure, jobRest
<2>3. \A b \in Apps : TRUE /\ <<"force", a>> = <<"setup", b>> => version'[b] = CodeVersion
  OBVIOUS
<2> QED
  BY <2>1, <2>2, <2>3, StartupWakes
<1>13. ASSUME NEW kind \in Kinds, NEW a \in Apps, JobFails(<<kind, a>>)
      PROVE  StartupInv'
<2>1. <<kind, a>> \in Jobs
  BY <1>13 DEF Jobs, Kinds
<2>2. JobEnd(<<kind, a>>, FALSE) /\ UNCHANGED <<firstSetup, stopping>>
  BY <1>13 DEF JobFails
<2>3. \A b \in Apps : FALSE /\ <<kind, a>> = <<"setup", b>> => version'[b] = CodeVersion
  OBVIOUS
<2> QED
  BY <2>1, <2>2, <2>3, StartupWakes
<1>14. ASSUME NEW a \in Apps, RepairEnd(a) PROVE StartupInv'
<2>1. <<"repair", a>> \in Jobs
  BY <1>14 DEF Jobs, Kinds
<2>2. JobEnd(<<"repair", a>>, TRUE) /\ UNCHANGED <<firstSetup, stopping>>
  BY <1>14 DEF RepairEnd, jobRest
<2>3. \A b \in Apps : TRUE /\ <<"repair", a>> = <<"setup", b>> => version'[b] = CodeVersion
  OBVIOUS
<2> QED
  BY <2>1, <2>2, <2>3, StartupWakes
<1>15. ASSUME NEW a \in Forcible, CacheUpdated(a) PROVE StartupInv'
<2>1. UNCHANGED <<startup, firstSetup, stopping>>
  BY <1>15 DEF CacheUpdated, forceRest
<2> QED
  BY <2>1, StartupStays
<1>16. ASSUME NEW a \in Interested, PackageUpdated(a) PROVE StartupInv'
<2>1. UNCHANGED <<startup, firstSetup, stopping>>
  BY <1>16 DEF PackageUpdated, threads
<2> QED
  BY <2>1, StartupStays
<1>17. ASSUME NEW a \in UserApps, UserSetup(a) PROVE StartupInv'
<2>1. UNCHANGED <<startup, firstSetup, stopping>>
  BY <1>17 DEF UserSetup, NewSetup, New, threads, userRest
<2> QED
  BY <2>1, StartupStays
<1>18. ASSUME NEW kind \in {"repair", "uninstall"},
             NEW a \in UserApps, UserRepairOrUninstall(kind, a)
      PROVE  StartupInv'
<2>1. UNCHANGED <<startup, firstSetup, stopping>>
  BY <1>18 DEF UserRepairOrUninstall, New, threads, userRest
<2> QED
  BY <2>1, StartupStays
<1>19. ASSUME StartupBegin PROVE StartupInv'
<2>1. startup'.at = "attempt" /\ startup.at = "start"
  BY <1>19 DEF StartupBegin, Typed, ThreadsOK, StartupThread
<2>2. UNCHANGED <<firstSetup, stopping>>
  BY <1>19 DEF StartupBegin, startupRest
<2>3. FirstInv'
  BY <2>1, <2>2 DEF StartupInv, FirstInv
<2> QED
  BY <2>1, <2>3 DEF StartupInv, LoopInv, EndInv, SetupEnded
<1>20. ASSUME StartupAttempt PROVE StartupInv'
<2>1. /\ startup'.at = "next" /\ startup'.first = startup.first /\ startup'.idx = 1
      /\ startup'.todo = IF startup.first THEN Essential ELSE AppsForRegularSetup
      /\ startup.at = "attempt"
  BY <1>20 DEF StartupAttempt, Typed, ThreadsOK, StartupThread
<2>2. UNCHANGED <<version, stopping>> /\ firstSetup' = (startup.first \/ firstSetup)
  BY <1>20 DEF StartupAttempt, startupRest, stored
<2>3. \A a \in Essential : a \notin startup'.todo => version[a] = CodeVersion
  <3>1. \A a \in Essential : version[a] \in 0..CodeVersion
    BY Assumed DEF Typed, StoredOK
  <3> QED
    BY <2>1, <3>1, Assumed DEF AppsForRegularSetup
<2>4. LoopInv'
  <3> SUFFICES ASSUME NEW i \in DOMAIN AppList, AppList[i] \in Essential, Passed(i)'
               PROVE  version'[AppList[i]] = CodeVersion
    BY DEF LoopInv
  <3>1. AppList[i] \notin startup'.todo
    BY <2>1, Sizes DEF Passed
  <3> QED
    BY <2>2, <2>3, <3>1
<2>5. FirstInv' /\ EndInv'
  BY <2>1, <2>2 DEF StartupInv, FirstInv, EndInv, SetupEnded
<2> QED
  BY <2>4, <2>5 DEF StartupInv
<1>21. ASSUME StartupNext PROVE StartupInv'
<2>1. /\ startup.at = "next" /\ startup.idx \in DOMAIN AppList
      /\ UNCHANGED <<version, firstSetup, stopping>>
  BY <1>21 DEF StartupNext, startupRest, stored
<2>2. \/ /\ AppList[startup.idx] \notin startup.todo \/ ~SetupDue(AppList[startup.idx], FALSE)
         /\ startup' = [startup EXCEPT !.idx = startup.idx + 1]
      \/ startup' = [startup EXCEPT !.at = "raised"]
      \/ startup' = [startup EXCEPT !.at = "join"]
  BY <1>21, Zenon DEF StartupNext
<2>3. ASSUME AppList[startup.idx] \notin startup.todo \/ ~SetupDue(AppList[startup.idx], FALSE),
             startup' = [startup EXCEPT !.idx = startup.idx + 1]
      PROVE  StartupInv'
  <3>1. /\ startup'.at = "next" /\ startup'.first = startup.first
        /\ startup'.idx = startup.idx + 1 /\ startup'.todo = startup.todo
    BY <2>1, <2>3 DEF Typed, ThreadsOK, StartupThread
  <3>2. AppList[startup.idx] \in Essential => version[AppList[startup.idx]] = CodeVersion
    <4>1. AppList[startup.idx] \in Apps
      BY <2>1 DEF Apps
    <4>2. version[AppList[startup.idx]] \in 0..CodeVersion
      BY <4>1 DEF Typed, StoredOK
    <4>3. ~SetupDue(AppList[startup.idx], FALSE) => version[AppList[startup.idx]] = CodeVersion
      BY <4>2, Assumed DEF SetupDue
    <4>4. AppList[startup.idx] \notin startup.todo => Passed(startup.idx)
      BY DEF Passed
    <4> QED
      BY <2>1, <2>3, <4>3, <4>4 DEF StartupInv, LoopInv
  <3>3. LoopInv'
    <4> SUFFICES ASSUME NEW i \in DOMAIN AppList, AppList[i] \in Essential, Passed(i)'
                 PROVE  version'[AppList[i]] = CodeVersion
      BY DEF LoopInv
    <4>1. i = startup.idx \/ Passed(i)
      BY <2>1, <3>1, Sizes DEF Passed
    <4> QED
      BY <2>1, <3>2, <4>1 DEF StartupInv, LoopInv
  <3>4. EndInv' /\ FirstInv'
    BY <2>1, <3>1 DEF StartupInv, EndInv, FirstInv, SetupEnded
  <3> QED
    BY <3>3, <3>4 DEF StartupInv
<2>4. ASSUME startup' = [startup EXCEPT !.at = "join"] PROVE StartupInv'
  <3>1. /\ startup'.at = "join" /\ startup'.first = startup.first
        /\ startup'.idx = startup.idx /\ startup'.todo = startup.todo
    BY <2>4 DEF Typed, ThreadsOK, StartupThread
  <3>2. LoopInv'
    BY <2>1, <3>1 DEF StartupInv, LoopInv, Passed
  <3>3. EndInv' /\ FirstInv'
    BY <2>1, <3>1 DEF StartupInv, EndInv, FirstInv, SetupEnded
  <3> QED
    BY <3>2, <3>3 DEF StartupInv
<2>5. ASSUME startup' = [startup EXCEPT !.at = "raised"] PROVE StartupInv'
  BY <2>1, <2>5, StartupStays
<2> QED
  BY <2>2, <2>3, <2>4, <2>5
<1>22. ASSUME StartupJoined PROVE StartupInv'
<2>1. /\ startup'.at = "next" /\ startup'.first = startup.first
      /\ startup'.idx = startup.idx + 1 /\ startup'.todo = startup.todo
      /\ startup.at = "joined" /\ startup.idx \in DOMAIN AppList
      /\ UNCHANGED <<version, firstSetup, stopping>>
  BY <1>22 DEF StartupJoined, startupRest, stored, Typed, ThreadsOK,
     StartupThread
<2>2. LoopInv'
  <3> SUFFICES ASSUME NEW i \in DOMAIN AppList, AppList[i] \in Essential, Passed(i)'
               PROVE  version'[AppList[i]] = CodeVersion
    BY DEF LoopInv
  <3>1. Passed(i)
    BY <2>1, Sizes DEF Passed
  <3> QED
    BY <2>1, <3>1 DEF StartupInv, LoopInv
<2>3. EndInv' /\ FirstInv'
  BY <2>1 DEF StartupInv, EndInv, FirstInv, SetupEnded
<2> QED
  BY <2>2, <2>3 DEF StartupInv
<1>23. ASSUME StartupRetry PROVE StartupInv'
<2>1. startup.at = "raised" /\ UNCHANGED <<version, firstSetup, stopping>>
  BY <1>23 DEF StartupRetry, startupRest, stored
<2>2. \/ stopping /\ startup'.at = "dpkg"
      \/ startup'.at = "attempt" /\ startup'.first = startup.first
  BY <1>23, Rests DEF StartupRetry, Typed, ThreadsOK, StartupThread
<2> QED
  BY <2>1, <2>2 DEF StartupInv, LoopInv, EndInv, FirstInv, SetupEnded
<1>24. ASSUME StartupSucceeds PROVE StartupInv'
<2>1. /\ startup.at = "next" /\ startup.idx \notin DOMAIN AppList
      /\ startup'.at = "dpkg" /\ UNCHANGED <<version, stopping>>
      /\ firstSetup' = (firstSetup /\ ~startup.first)
  BY <1>24, Rests DEF StartupSucceeds, startupRest, stored
<2>2. \A i \in DOMAIN AppList : i < startup.idx
  <3>1. startup.idx \in 1..(Len(AppList) + 1)
    BY DEF Typed, ThreadsOK, StartupThread, Indices
  <3>2. startup.idx = Len(AppList) + 1
    BY <2>1, <3>1, Sizes
  <3> QED
    BY <3>2, Sizes
<2>3. ASSUME NEW a \in Essential PROVE version[a] = CodeVersion
  <3>1. PICK i \in DOMAIN AppList : AppList[i] = a
    BY Assumed DEF Apps
  <3> QED
    BY <2>1, <2>2, <3>1 DEF StartupInv, LoopInv, Passed
<2>4. EndInv' /\ LoopInv'
  BY <2>1, <2>3 DEF EndInv, LoopInv
<2>5. FirstInv'
  BY <2>1 DEF StartupInv, FirstInv
<2> QED
  BY <2>4, <2>5 DEF StartupInv
<1>25. ASSUME StartupDpkg PROVE StartupInv'
<2>1. /\ SetupEnded /\ SetupEnded' /\ UNCHANGED <<version, firstSetup, stopping>>
      /\ startup'.at \in {"dpkg wait", "force", "done"}
  BY <1>25 DEF StartupDpkg, startupRest, stored, SetupEnded, Typed, ThreadsOK,
     StartupThread
<2> QED
  BY <2>1 DEF StartupInv, LoopInv, EndInv, FirstInv, SetupEnded
<1>26. ASSUME StartupForce PROVE StartupInv'
<2>1. /\ SetupEnded /\ SetupEnded' /\ UNCHANGED <<version, firstSetup, stopping>>
      /\ startup'.at \in {"dpkg wait", "force", "done"}
  BY <1>26 DEF StartupForce, startupRest, stored, SetupEnded, Typed, ThreadsOK,
     StartupThread
<2> QED
  BY <2>1 DEF StartupInv, LoopInv, EndInv, FirstInv, SetupEnded
<1>27. ASSUME DpkgInvoked PROVE StartupInv'
<2>1. UNCHANGED <<startup, firstSetup, stopping>>
  BY <1>27 DEF DpkgInvoked, dpkgRest
<2> QED
  BY <2>1, StartupStays
<1>28. ASSUME DpkgAttempt PROVE StartupInv'
<2>1. UNCHANGED <<startup, firstSetup, stopping>>
  BY <1>28 DEF DpkgAttempt, Fail, dpkgRest
<2> QED
  BY <2>1, StartupStays
<1>29. ASSUME DpkgNext PROVE StartupInv'
<2>1. UNCHANGED <<startup, firstSetup, stopping>>
  BY <1>29 DEF DpkgNext, NewSetup, New, dpkgRest
<2> QED
  BY <2>1, StartupStays
<1>30. ASSUME DpkgJoined PROVE StartupInv'
<2>1. UNCHANGED <<startup, firstSetup, stopping>>
  BY <1>30 DEF DpkgJoined, dpkgRest
<2> QED
  BY <2>1, StartupStays
<1>31. ASSUME DpkgCompletes PROVE StartupInv'
<2>1. UNCHANGED <<startup, firstSetup, stopping>>
  BY <1>31 DEF DpkgCompletes, dpkgRest
<2> QED
  BY <2>1, StartupStays
<1>32. ASSUME DpkgRetry PROVE StartupInv'
<2>1. UNCHANGED <<startup, firstSetup, stopping>>
  BY <1>32 DEF DpkgRetry, dpkgRest
<2> QED
  BY <2>1, StartupStays
<1>33. ASSUME ForceAttempt PROVE StartupInv'
<2>1. UNCHANGED <<startup, firstSetup, stopping>>
  BY <1>33 DEF ForceAttempt, Fail, forceRest
<2> QED
  BY <2>1, StartupStays
<1>34. ASSUME NEW a \in Forcible, ForceNext(a) PROVE StartupInv'
<2>1. UNCHANGED <<startup, firstSetup, stopping>>
  BY <1>34 DEF ForceNext, New, forceRest
<2> QED
  BY <2>1, StartupStays
<1>35. ASSUME ForceJoined PROVE StartupInv'
<2>1. UNCHANGED <<startup, firstSetup, stopping>>
  BY <1>35 DEF ForceJoined, forceRest
<2> QED
  BY <2>1, StartupStays
<1>36. ASSUME ForceCompletes PROVE StartupInv'
<2>1. UNCHANGED <<startup, firstSetup, stopping>>
  BY <1>36 DEF ForceCompletes, forceRest
<2> QED
  BY <2>1, StartupStays
<1>37. ASSUME ForceRetry PROVE StartupInv'
<2>1. UNCHANGED <<startup, firstSetup, stopping>>
  BY <1>37 DEF ForceRetry, forceRest
<2> QED
  BY <2>1, StartupStays
<1>38. ASSUME Stop PROVE StartupInv'
<2>1. UNCHANGED <<startup, firstSetup>> /\ stopping'
  BY <1>38 DEF Stop, threads
<2> QED
  BY <2>1, StartupStays
<1>39. ASSUME Restart PROVE StartupInv'
<2>1. startup'.at = "start" /\ ~firstSetup'
  BY <1>39 DEF Restart, AtStart
<2> QED
  BY <2>1 DEF StartupInv, LoopInv, EndInv, FirstInv, SetupEnded
<1>40. CASE UNCHANGED vars
<2>1. UNCHANGED <<startup, firstSetup, stopping>>
  BY <1>40 DEF vars, threads
<2> QED
  BY <2>1, StartupStays
<1> QED
  BY <1>1, <1>2, <1>3, <1>4, <1>5, <1>6, <1>7, <1>8, <1>9, <1>10, <1>11,
     <1>12, <1>13, <1>14, <1>15, <1>16, <1>17, <1>18, <1>19, <1>20,
     <1>21, <1>22, <1>23, <1>24, <1>25, <1>26, <1>27, <1>28, <1>29,
     <1>30, <1>31, <1>32, <1>33, <1>34, <1>35, <1>36, <1>37, <1>38,
     <1>39, <1>40
     DEF Next, JobStep, StartupStep, DpkgStep, ForceStep

(* When startup is through with setup, and nobody stops the service,       *)
(* requests are served and the essential apps are current, however many    *)
(* attempts failed and whatever users and packages did in between.  Needed *)
(* is what the loop has passed, that nothing undoes it (NeverRemoved), and *)
(* which attempt the mark of the first setup belongs to.                   *)
THEOREM StartupSetsUp == Spec => []StartupComplete
<1> DEFINE Inv == Typed /\ NeverRemoved /\ StartupInv
<1>1. Init => Inv
  <2> SUFFICES ASSUME Init PROVE NeverRemoved /\ StartupInv
    BY TypesBegin
  <2>1. NeverRemoved
    <3>1. \A a \in Essential : <<"uninstall", a>> \in Jobs
      BY Assumed DEF Jobs, Kinds
    <3> QED
      BY <3>1 DEF Init, NeverRemoved
  <2>2. startup.at = "start" /\ ~firstSetup
    BY DEF Init, AtStart
  <2>3. StartupInv
    BY <2>2 DEF StartupInv, LoopInv, EndInv, FirstInv, SetupEnded
  <2> QED
    BY <2>1, <2>3
<1>2. Inv /\ [Next]_vars => Inv'
  BY TypesStep, NeverRemovedStep, UpkeptStep, StartupInvStep DEF Typed
<1>3. Inv => StartupComplete
  BY DEF StartupInv, EndInv, FirstInv, StartupComplete
<1> QED
  BY <1>1, <1>2, <1>3, PTL DEF Spec

-----------------------------------------------------------------------------
(* Package versions: known, configured and installed, in this order.       *)

\* Only essential apps are set up without permission to install packages.
Permitted ==
    /\ startup.at = "start" => startup.todo = {}
    /\ startup.first => startup.todo \subseteq Essential
    /\ \A a \in Apps : mayInstall[a] \/ a \in Essential

\* Nothing has failed or been cut short.
Undisturbed == failures = 0 /\ restarts = 0

\* An operation on the app has changed or noted the version of its package and
\* not yet configured it for that.
Underway(a) ==
    \/ job[<<"uninstall", a>>] = "unmark"
    \/ \E kind \in {"setup", "repair"} :
          job[<<kind, a>>] \in {"install", "mark", "configure"}
    \/ job[<<"force", a>>] = "configure"

VersionsOK(a) ==
    /\ configured[a] <= pkg[a]
    /\ a \in Essential => known[a] <= pkg[a]
    /\ \A kind \in {"setup", "repair"} :
         /\ job[<<kind, a>>] \in {"configure", "record"} => known[a] <= pkg[a]
         /\ job[<<kind, a>>] = "record" => known[a] <= configured[a]
    /\ Undisturbed =>
         /\ known[a] <= pkg[a] \/ job[<<"uninstall", a>>] = "unmark"
         /\ known[a] <= configured[a] \/ Underway(a) \/ prompt[a]

VersionsInv == \A a \in Apps : VersionsOK(a)

LEMMA PermittedStill ==
    ASSUME Permitted, SwitchesOK,
           startup'.first = startup.first, startup'.todo = startup.todo,
           startup'.at = "start" => startup.at = "start",
           \/ mayInstall' = mayInstall
           \/ \E a \in Apps : mayInstall' = [mayInstall EXCEPT ![a] = TRUE]
    PROVE  Permitted'
<1>1. ASSUME NEW b \in Apps, mayInstall[b] PROVE mayInstall'[b]
  BY <1>1, Zenon DEF SwitchesOK
<1> QED
  BY <1>1 DEF Permitted

LEMMA PermittedEnd ==
    ASSUME Permitted, SwitchesOK, ThreadsOK, NEW j \in Jobs, NEW ok \in BOOLEAN,
           JobEnd(j, ok)
    PROVE  Permitted'
<1>1. /\ startup'.first = startup.first /\ startup'.todo = startup.todo
      /\ startup'.at = "start" => startup.at = "start"
  BY JobEnds DEF ThreadsOK, StartupThread
<1>2. j[2] \in Apps
  BY DEF Jobs
<1>3. mayInstall' = mayInstall \/ mayInstall' = [mayInstall EXCEPT ![j[2]] = TRUE]
  BY Zenon DEF JobEnd
<1> QED
  BY <1>1, <1>2, <1>3, PermittedStill

LEMMA PermittedStep == Typed /\ Permitted /\ [Next]_vars => Permitted'
<1> SUFFICES ASSUME Typed, Permitted, [Next]_vars PROVE Permitted'
  OBVIOUS
<1> USE DEF Typed
<1>a. ASSUME UNCHANGED <<startup, mayInstall>> PROVE Permitted'
  BY <1>a, PermittedStill
<1>b. \A kind \in Kinds, a \in Apps : <<kind, a>> \in Jobs
  BY DEF Jobs
<1>1. ASSUME NEW kind \in Kinds, NEW a \in Apps, JobStep(kind, a) PROVE Permitted'
  <2>1. \/ UNCHANGED <<startup, mayInstall>>
        \/ \E k \in Kinds, ok \in BOOLEAN : JobEnd(<<k, a>>, ok)
    BY <1>1 DEF JobStep, JobStart, SetupBegin, SetupInstall, SetupMark,
         SetupConfigure, SetupRecord, UninstallRemove, UninstallUnmark,
         UninstallRecord, ForceDeclined, ForceInstall, ForceConfigure,
         JobGoesOn, threads
  <2> QED
    BY <1>a, <1>b, <2>1, PermittedEnd
<1>2. ASSUME NEW kind \in Kinds, NEW a \in Apps, JobFails(<<kind, a>>)
      PROVE  Permitted'
  BY <1>2, <1>b, PermittedEnd DEF JobFails
<1>3. ASSUME NEW a \in Apps, RepairEnd(a) PROVE Permitted'
  BY <1>3, <1>b, PermittedEnd DEF RepairEnd, Kinds
<1>4. ASSUME NEW a \in Apps, CacheUpdated(a) \/ PackageUpdated(a) PROVE Permitted'
  BY <1>4, <1>a DEF CacheUpdated, PackageUpdated, forceRest, threads
<1>5. ASSUME NEW a \in Apps, UserSetup(a) PROVE Permitted'
  <2>1. mayInstall' = [mayInstall EXCEPT ![a] = TRUE] /\ UNCHANGED startup
    BY <1>5 DEF UserSetup, NewSetup, userRest, threads
  <2> QED
    BY <2>1, PermittedStill
<1>6. ASSUME NEW kind \in {"repair", "uninstall"}, NEW a \in Apps,
             UserRepairOrUninstall(kind, a)
      PROVE  Permitted'
  BY <1>6, <1>a DEF UserRepairOrUninstall, userRest, threads
\* The startup thread: the first setup is of essential apps.
<1>7. CASE StartupBegin
  <2>1. startup'.todo = {} /\ UNCHANGED mayInstall
    BY <1>7 DEF StartupBegin, ThreadsOK, StartupThread, Permitted
  <2> QED
    BY <2>1 DEF Permitted
<1>8. CASE StartupAttempt
  <2>1. startup' \in StartupThread
    BY <1>8, ThreadsStep DEF ThreadsOK
  <2>2. /\ startup'.first => startup'.todo \subseteq Essential
        /\ startup'.at = "next"
    BY <1>8 DEF StartupAttempt, ThreadsOK, StartupThread
  <2> QED
    BY <1>8, <2>2 DEF StartupAttempt, Permitted
<1>9. CASE StartupNext
  <2> DEFINE a == AppList[startup.idx]
  <2>1. /\ a \in Apps /\ startup'.first = startup.first
        /\ startup'.todo = startup.todo /\ startup'.at # "start"
    BY <1>9 DEF StartupNext, Apps, ThreadsOK, StartupThread
  <2>2. \/ mayInstall' = mayInstall
        \/ /\ mayInstall' = [mayInstall EXCEPT ![a] = ~startup.first]
           /\ a \in startup.todo
    BY <1>9, Zenon DEF StartupNext, NewSetup
  <2> HIDE DEF a
  <2>3. CASE mayInstall' = mayInstall
    BY <2>1, <2>3, PermittedStill
  <2>4. CASE mayInstall' = [mayInstall EXCEPT ![a] = ~startup.first] /\ a \in startup.todo
    <3>0. mayInstall \in [Apps -> BOOLEAN]
      BY DEF SwitchesOK
    <3>1. /\ mayInstall'[a] = ~startup.first
          /\ \A b \in Apps \ {a} : mayInstall'[b] = mayInstall[b]
      BY <2>1, <2>4, <3>0, Zenon
    <3> QED
      BY <2>1, <2>4, <3>1 DEF Permitted
  <2> QED
    BY <2>2, <2>3, <2>4
<1>10. CASE StartupJoined \/ StartupRetry \/ StartupSucceeds \/ StartupDpkg \/ StartupForce
  <2>1. UNCHANGED mayInstall
    BY <1>10 DEF StartupJoined, StartupRetry, StartupSucceeds, StartupDpkg, StartupForce
  <2>2. \/ /\ startup'.first = startup.first /\ startup'.todo = startup.todo
           /\ startup'.at # "start"
        \/ startup'.todo = {}
    BY <1>10 DEF StartupJoined, StartupRetry, StartupSucceeds, StartupDpkg,
         StartupForce, ThreadsOK, StartupThread, AtStart
  <2> QED
    BY <2>1, <2>2 DEF Permitted
\* The other threads.
<1>11. CASE DpkgInvoked \/ DpkgAttempt \/ DpkgJoined \/ DpkgCompletes \/ DpkgRetry
  BY <1>11, <1>a DEF DpkgInvoked, DpkgAttempt, DpkgJoined, DpkgCompletes,
       DpkgRetry, dpkgRest
<1>12. CASE DpkgNext
  <2> DEFINE a == AppList[dpkg.idx]
  <2>1. a \in Apps /\ UNCHANGED startup
    BY <1>12 DEF DpkgNext, Apps, dpkgRest
  <2>2. mayInstall' = mayInstall \/ mayInstall' = [mayInstall EXCEPT ![a] = TRUE]
    BY <1>12, Zenon DEF DpkgNext, NewSetup
  <2> QED
    BY <2>1, <2>2, PermittedStill
<1>13. CASE ForceStep
  BY <1>13, <1>a DEF ForceStep, ForceAttempt, ForceJoined, ForceCompletes,
       ForceRetry, ForceNext, forceRest
<1>14. CASE Stop \/ UNCHANGED vars
  BY <1>14, <1>a DEF Stop, threads, vars
<1>15. CASE Restart
  <2>1. startup'.todo = {} /\ \A a \in Apps : mayInstall'[a]
    BY <1>15 DEF Restart, AtStart
  <2> QED
    BY <2>1 DEF Permitted
<1> QED
  BY <1>1, <1>2, <1>3, <1>4, <1>5, <1>6, <1>7, <1>8, <1>9, <1>10, <1>11, <1>12,
     <1>13, <1>14, <1>15, Assumed
  DEF Next, StartupStep, DpkgStep

\* A step of everybody but operations and packages.
Onlooks ==
    /\ UNCHANGED <<pkg, known, configured>>
    /\ \A a \in Apps : prompt[a] => prompt'[a]
    /\ \/ UNCHANGED job
       \/ \E i \in Jobs : job[i] = "none" /\ job' = [job EXCEPT ![i] = "waiting"]

LEMMA Onlookers ==
    ASSUME StoredOK, [Next]_vars
    PROVE  \/ \E a \in Apps : \/ \E kind \in Kinds : JobStep(kind, a) \/ JobFails(<<kind, a>>)
                              \/ RepairEnd(a) \/ PackageUpdated(a)
           \/ Restart
           \/ Onlooks
<1> USE DEF stored, Onlooks
<1>a. \A kind \in Kinds, a \in Apps : <<kind, a>> \in Jobs
  BY DEF Jobs
<1>1. ASSUME NEW a \in Forcible, CacheUpdated(a) PROVE Onlooks
  <2>1. a \in Apps /\ prompt' = [prompt EXCEPT ![a] = TRUE]
    BY <1>1, Assumed DEF CacheUpdated
  <2>2. prompt'[a] /\ \A b \in Apps \ {a} : prompt'[b] = prompt[b]
    BY <2>1, Switched DEF StoredOK
  <2> QED
    BY <1>1, <2>2 DEF CacheUpdated, forceRest
<1>2. ASSUME NEW a \in Apps, UserSetup(a) PROVE Onlooks
  BY <1>2, <1>a DEF UserSetup, InProgress, NewSetup, New, userRest, Kinds
<1>3. ASSUME NEW kind \in {"repair", "uninstall"}, NEW a \in Apps,
             UserRepairOrUninstall(kind, a)
      PROVE  Onlooks
  BY <1>3, <1>a DEF UserRepairOrUninstall, InProgress, New, userRest, Kinds
<1>4. CASE StartupNext
  <2>1. <<"setup", AppList[startup.idx]>> \in Jobs
    BY <1>4 DEF StartupNext, Apps, Jobs, Kinds
  <2> QED
    BY <1>4, <2>1 DEF StartupNext, InProgress, NewSetup, New, startupRest
<1>5. CASE \/ StartupBegin \/ StartupAttempt \/ StartupJoined \/ StartupRetry
           \/ StartupSucceeds \/ StartupDpkg \/ StartupForce
  BY <1>5 DEF StartupBegin, StartupAttempt, StartupJoined, StartupRetry,
       StartupSucceeds, StartupDpkg, StartupForce, startupRest
<1>6. CASE DpkgNext
  <2>1. <<"setup", AppList[dpkg.idx]>> \in Jobs
    BY <1>6 DEF DpkgNext, Apps, Jobs, Kinds
  <2> QED
    BY <1>6, <2>1 DEF DpkgNext, InProgress, NewSetup, New, dpkgRest
<1>7. CASE DpkgInvoked \/ DpkgAttempt \/ DpkgJoined \/ DpkgCompletes \/ DpkgRetry
  BY <1>7 DEF DpkgInvoked, DpkgAttempt, DpkgJoined, DpkgCompletes, DpkgRetry, dpkgRest
<1>8. ASSUME NEW a \in Forcible, ForceNext(a) PROVE Onlooks
  BY <1>8, <1>a, Assumed DEF ForceNext, InProgress, New, forceRest, Kinds
<1>9. CASE ForceAttempt \/ ForceJoined \/ ForceCompletes \/ ForceRetry
  BY <1>9 DEF ForceAttempt, ForceJoined, ForceCompletes, ForceRetry, forceRest
<1>10. CASE Stop \/ UNCHANGED vars
  BY <1>10 DEF Stop, vars
<1> QED
  BY <1>1, <1>2, <1>3, <1>4, <1>5, <1>6, <1>7, <1>8, <1>9, <1>10, Assumed
  DEF Next, StartupStep, DpkgStep, ForceStep

\* Failures and restarts are only counted up.
LEMMA Counted ==
    ASSUME [Next]_vars
    PROVE  /\ failures' = failures \/ failures' = failures + 1
           /\ restarts' = restarts \/ restarts' = restarts + 1
<1> DEFINE Counts == /\ failures' = failures \/ failures' = failures + 1
                     /\ restarts' = restarts \/ restarts' = restarts + 1
<1> SUFFICES Counts
  OBVIOUS
<1>1. ASSUME NEW a \in Apps, NEW kind \in Kinds, JobStep(kind, a) \/ JobFails(<<kind, a>>)
      PROVE  Counts
  BY <1>1 DEF JobStep, JobStart, JobFails, SetupBegin, SetupInstall, SetupMark,
       SetupConfigure, SetupRecord, UninstallRemove, UninstallUnmark,
       UninstallRecord, ForceDeclined, ForceInstall, ForceConfigure, Fail,
       jobRest, bounds
<1>2. ASSUME NEW a \in Apps,
             \/ RepairEnd(a) \/ CacheUpdated(a) \/ PackageUpdated(a) \/ UserSetup(a)
             \/ \E kind \in {"repair", "uninstall"} : UserRepairOrUninstall(kind, a)
      PROVE  Counts
  BY <1>2 DEF RepairEnd, CacheUpdated, PackageUpdated, UserSetup,
       UserRepairOrUninstall, jobRest, forceRest, userRest, bounds
<1>3. CASE StartupStep
  BY <1>3 DEF StartupStep, StartupBegin, StartupAttempt, StartupNext, StartupJoined,
       StartupRetry, StartupSucceeds, StartupDpkg, StartupForce, startupRest, bounds
<1>4. CASE DpkgInvoked \/ DpkgStep
  BY <1>4 DEF DpkgStep, DpkgInvoked, DpkgAttempt, DpkgNext, DpkgJoined,
       DpkgCompletes, DpkgRetry, Fail, dpkgRest
<1>5. CASE ForceStep
  BY <1>5 DEF ForceStep, ForceAttempt, ForceJoined, ForceCompletes, ForceRetry,
       ForceNext, Fail, forceRest
<1>6. CASE Stop \/ Restart \/ UNCHANGED vars
  BY <1>6 DEF Stop, Restart, vars, bounds
<1> HIDE DEF Counts
<1>7. ASSUME NEW a \in UserApps,
             \/ UserSetup(a)
             \/ \E kind \in {"repair", "uninstall"} : UserRepairOrUninstall(kind, a)
      PROVE  Counts
  BY <1>2, <1>7, Assumed
<1>8. ASSUME NEW a \in Apps, RepairEnd(a) PROVE Counts
  BY <1>2, <1>8
<1>9. ASSUME NEW a \in Forcible, CacheUpdated(a) PROVE Counts
  BY <1>2, <1>9, Assumed
<1>10. ASSUME NEW a \in Interested, PackageUpdated(a) PROVE Counts
  BY <1>2, <1>10, Assumed
<1> QED
  BY <1>1, <1>3, <1>4, <1>5, <1>6, <1>7, <1>8, <1>9, <1>10 DEF Next

LEMMA StaysDisturbed == CountsOK /\ [Next]_vars /\ Undisturbed' => Undisturbed
  BY Counted, Assumed DEF CountsOK, Undisturbed

(* What an app keeps while its operations go no further.                   *)
LEMMA VersionsElsewhere ==
    ASSUME StoredOK, JobsOK, NEW a \in Apps, VersionsOK(a), Undisturbed' => Undisturbed,
           UNCHANGED <<pkg[a], known[a], configured[a]>>, prompt[a] => prompt'[a],
           \A kind \in Kinds : \/ job'[<<kind, a>>] = job[<<kind, a>>]
                               \/ /\ job[<<kind, a>>] \in {"none", "waiting"}
                                  /\ job'[<<kind, a>>] \in {"none", "waiting", "begin"}
    PROVE  VersionsOK(a)'
<1>1. Underway(a) => Underway(a)'
  BY DEF Underway, Kinds
<1> QED
  BY <1>1 DEF VersionsOK, Kinds

(* A step of the only operation that runs.                                 *)
LEMMA VersionsHere ==
    ASSUME StoredOK, JobsOK, VersionsInv, Undisturbed' => Undisturbed,
           NEW kind \in Kinds, NEW a \in Apps, NEW s,
           job' = [job EXCEPT ![<<kind, a>>] = s],
           \A b \in Apps \ {a} : UNCHANGED <<pkg[b], known[b], configured[b], prompt[b]>>,
           VersionsOK(a)'
    PROVE  VersionsInv'
<1>1. ASSUME NEW b \in Apps \ {a} PROVE VersionsOK(b)'
  <2>1. \A k \in Kinds : job'[<<k, b>>] = job[<<k, b>>]
    BY DEF JobsOK, Jobs
  <2> QED
    BY <2>1, VersionsElsewhere DEF VersionsInv
<1> QED
  BY <1>1 DEF VersionsInv

(* What it takes while one operation of the app runs, or has just ended.    *)
LEMMA VersionsFit ==
    ASSUME NEW kind \in Kinds, NEW a \in Apps,
           \A k \in Kinds \ {kind} : job'[<<k, a>>] \in {"none", "waiting"},
           configured'[a] <= pkg'[a],
           a \in Essential => known'[a] <= pkg'[a],
           kind \in {"setup", "repair"} =>
               /\ job'[<<kind, a>>] \in {"configure", "record"} => known'[a] <= pkg'[a]
               /\ job'[<<kind, a>>] = "record" => known'[a] <= configured'[a],
           Undisturbed' =>
               /\ known'[a] <= pkg'[a] \/ job'[<<"uninstall", a>>] = "unmark"
               /\ known'[a] <= configured'[a] \/ Underway(a)' \/ prompt'[a]
    PROVE  VersionsOK(a)'
<1>1. ASSUME NEW k \in {"setup", "repair"}
      PROVE  /\ job'[<<k, a>>] \in {"configure", "record"} => known'[a] <= pkg'[a]
             /\ job'[<<k, a>>] = "record" => known'[a] <= configured'[a]
  <2>1. CASE k = kind
    BY <2>1
  <2>2. CASE k # kind
    BY <2>2 DEF Kinds
  <2> QED
    BY <2>1, <2>2
<1> QED
  BY <1>1 DEF VersionsOK

LEMMA VersionsStep ==
    ASSUME Typed, WorkInv, NeverRemoved, Permitted, VersionsInv, [Next]_vars
    PROVE  VersionsInv'
<1>a. Undisturbed' => Undisturbed
  BY StaysDisturbed DEF Typed
<1>b. /\ \A kind \in Kinds, b \in Apps : <<kind, b>> \in Jobs
      /\ \A kind \in Kinds, b \in Apps : job[<<kind, b>>] \in StagesOf(kind)
  BY DEF Typed, JobsOK, Jobs
<1>n. ASSUME NEW b \in Apps
      PROVE  pkg[b] \in Nat /\ known[b] \in Nat /\ configured[b] \in Nat
  BY DEF Typed, StoredOK
<1>v. ASSUME NEW b \in Apps
      PROVE  configured[b] <= pkg[b] /\ (b \in Essential => known[b] <= pkg[b])
  BY DEF VersionsInv, VersionsOK
<1>w. ASSUME NEW b \in Apps, Undisturbed
      PROVE  /\ known[b] <= pkg[b] \/ job[<<"uninstall", b>>] = "unmark"
             /\ known[b] <= configured[b] \/ Underway(b) \/ prompt[b]
  BY <1>w DEF VersionsInv, VersionsOK
\* What a running operation knows of the others on the app.
<1>c. ASSUME NEW kind \in Kinds, NEW a \in Apps, NEW s, Running(<<kind, a>>),
             job' = [job EXCEPT ![<<kind, a>>] = s]
      PROVE  /\ job'[<<kind, a>>] = s
             /\ \A k \in Kinds \ {kind} :
                  /\ job'[<<k, a>>] \in {"none", "waiting"}
                  /\ job[<<k, a>>] \in {"none", "waiting"}
  <2>1. \A k \in Kinds \ {kind} : ~Running(<<k, a>>)
    BY <1>b, <1>c DEF WorkInv, OneRuns
  <2> QED
    BY <1>b, <1>c, <2>1 DEF Typed, JobsOK, Running, StagesOf
<1>d. ASSUME NEW kind \in Kinds, NEW a \in Apps, NEW s,
             job' = [job EXCEPT ![<<kind, a>>] = s],
             \A b \in Apps \ {a} : UNCHANGED <<pkg[b], known[b], configured[b], prompt[b]>>,
             VersionsOK(a)'
      PROVE  VersionsInv'
  BY <1>a, <1>d, VersionsHere DEF Typed
\* The rest of a setup, repair or forced upgrade is to come.
<1>e. ASSUME NEW kind \in {"setup", "repair", "force"}, NEW a \in Apps,
             NEW s \in {"install", "mark", "configure"}, Running(<<kind, a>>),
             kind = "force" => s = "configure",
             job' = [job EXCEPT ![<<kind, a>>] = s],
             \A b \in Apps \ {a} : UNCHANGED <<pkg[b], known[b], configured[b], prompt[b]>>,
             pkg'[a] \in Nat, pkg[a] <= pkg'[a], configured'[a] = configured[a],
             known'[a] = known[a] \/ known'[a] = pkg'[a],
             s = "configure" => known'[a] <= pkg'[a]
      PROVE  VersionsInv'
  <2>0. kind \in Kinds
    BY DEF Kinds
  <2>1. /\ job'[<<kind, a>>] = s
        /\ \A k \in Kinds \ {kind} : /\ job'[<<k, a>>] \in {"none", "waiting"}
                                     /\ job[<<k, a>>] \in {"none", "waiting"}
    BY <1>c, <1>e, <2>0
  <2>2. Underway(a)'
    BY <1>e, <2>1 DEF Underway
  <2>3. job[<<"uninstall", a>>] # "unmark"
    BY <2>1 DEF Kinds
  <2>4. /\ configured'[a] <= pkg'[a] /\ (a \in Essential => known'[a] <= pkg'[a])
        /\ Undisturbed' => known'[a] <= pkg'[a]
    BY <1>e, <1>a, <1>n, <1>v, <1>w, <2>3
  <2>5. (kind # "force" /\ job'[<<kind, a>>] = "configure") => known'[a] <= pkg'[a]
    BY <1>e, <2>1
  <2>6. job'[<<kind, a>>] # "record"
    BY <2>1
  <2>7. VersionsOK(a)'
    BY <2>0, <2>1, <2>2, <2>4, <2>5, <2>6, VersionsFit
  <2> QED
    BY <1>d, <1>e, <2>0, <2>7
\* Operations that go on or end without touching versions.
<1>1. ASSUME NEW kind \in Kinds, NEW a \in Apps, JobStart(<<kind, a>>)
      PROVE  VersionsInv'
  <2>1. /\ job[<<kind, a>>] = "waiting" /\ job' = [job EXCEPT ![<<kind, a>>] = "begin"]
        /\ UNCHANGED <<pkg, known, configured, prompt>>
    BY <1>1 DEF JobStart, stored
  <2>2. \A k \in Kinds : job'[<<k, a>>] = job[<<k, a>>]
                         \/ (k = kind /\ job'[<<k, a>>] = "begin")
    BY <1>b, <2>1 DEF Typed, JobsOK
  <2>3. VersionsOK(a)'
    BY <1>a, <2>1, <2>2, VersionsElsewhere DEF Typed, VersionsInv
  <2> QED
    BY <1>d, <2>1, <2>3
<1>2. ASSUME NEW kind \in Kinds, NEW a \in Apps, Running(<<kind, a>>),
             job[<<kind, a>>] \in {"begin", "record", "install"},
             job[<<kind, a>>] = "install" => prompt[a],
             job' = [job EXCEPT ![<<kind, a>>] = "none"],
             UNCHANGED <<pkg, known, configured, prompt>>
      PROVE  VersionsInv'
  <2>1. /\ job'[<<kind, a>>] = "none"
        /\ \A k \in Kinds \ {kind} : /\ job'[<<k, a>>] \in {"none", "waiting"}
                                     /\ job[<<k, a>>] \in {"none", "waiting"}
    BY <1>2, <1>c
  <2>2. (Underway(a) => prompt[a]) /\ job[<<"uninstall", a>>] # "unmark"
    BY <1>2, <2>1 DEF Underway, Kinds
  <2>3. VersionsOK(a)'
    BY <1>2, <1>a, <1>v, <1>w, <2>1, <2>2, VersionsFit
  <2> QED
    BY <1>2, <1>d, <2>3
\* Setup and repair.
<1>3. ASSUME NEW kind \in Kinds, NEW a \in Apps, SetupBegin(kind, a)
      PROVE  VersionsInv'
  <2>1. /\ kind \in {"setup", "repair"} /\ job[<<kind, a>>] = "begin"
        /\ Running(<<kind, a>>)
    BY <1>3 DEF SetupBegin, JobGoesOn, Running
  <2>2. \/ UNCHANGED <<pkg, known, configured, prompt>>
        \/ ForceUpgrade(a) /\ configured' = configured
    BY <1>3 DEF SetupBegin, stored
  <2>3. CASE job' = [job EXCEPT ![<<kind, a>>] = "install"]
    <3>1. /\ configured' = configured /\ pkg[a] <= pkg'[a] /\ pkg'[a] \in Nat
          /\ known'[a] = known[a] \/ known'[a] = pkg'[a]
          /\ \A b \in Apps \ {a} : UNCHANGED <<pkg[b], known[b], configured[b], prompt[b]>>
      BY <1>n, <2>2 DEF ForceUpgrade, Typed, StoredOK
    <3> QED
      BY <1>e, <2>1, <2>3, <3>1
  <2>4. CASE /\ job' = [job EXCEPT ![<<kind, a>>] = "none"]
             /\ UNCHANGED <<pkg, known, configured, prompt>>
    BY <1>2, <2>1, <2>4
  <2> QED
    BY <1>3, <2>3, <2>4 DEF SetupBegin, JobGoesOn, JobEnd, stored
<1>4. ASSUME NEW kind \in Kinds, NEW a \in Apps, SetupInstall(kind, a)
      PROVE  VersionsInv'
  <2>1. job[<<kind, a>>] = "install" /\ Running(<<kind, a>>)
    BY <1>4, InstallMoves DEF Running
  <2>2. kind \in {"setup", "repair"}
    BY <1>b, <2>1 DEF StagesOf, Kinds
  <2>3. /\ UNCHANGED <<known, configured, prompt>>
        /\ pkg[a] <= pkg'[a] /\ pkg'[a] \in Nat
        /\ \A b \in Apps \ {a} : UNCHANGED pkg[b]
    BY <1>4, <1>n, Installs DEF Typed
  <2>4. CASE job' = [job EXCEPT ![<<kind, a>>] = "mark"]
    BY <1>e, <2>1, <2>2, <2>3, <2>4
  <2>5. CASE job' = [job EXCEPT ![<<kind, a>>] = "configure"] /\ ~mayInstall[a]
    <3>1. known[a] <= pkg[a]
      BY <1>v, <2>5 DEF Permitted
    <3>2. known'[a] <= pkg'[a]
      BY <1>n, <2>3, <3>1
    <3> QED
      BY <1>e, <2>1, <2>2, <2>3, <2>5, <3>2
  <2>6. CASE /\ job' = [job EXCEPT ![<<kind, a>>] = "none"]
             /\ prompt[a] /\ UNCHANGED pkg
    BY <1>2, <2>1, <2>3, <2>6
  <2> QED
    BY <1>4, <2>4, <2>5, <2>6, InstallMoves
<1>5. ASSUME NEW kind \in Kinds, NEW a \in Apps, SetupMark(kind, a)
      PROVE  VersionsInv'
  <2>1. /\ job[<<kind, a>>] = "mark" /\ Running(<<kind, a>>)
        /\ job' = [job EXCEPT ![<<kind, a>>] = "configure"]
    BY <1>5 DEF SetupMark, JobGoesOn, Running
  <2>2. kind \in {"setup", "repair"}
    BY <1>b, <2>1 DEF StagesOf, Kinds
  <2>3. /\ UNCHANGED <<pkg, configured, prompt>> /\ known'[a] = pkg[a]
        /\ \A b \in Apps \ {a} : UNCHANGED known[b]
    BY <1>5 DEF SetupMark, Typed, StoredOK
  <2>4. pkg[a] <= pkg'[a] /\ known'[a] <= pkg'[a]
    BY <1>n, <2>3
  <2> QED
    BY <1>e, <1>n, <2>1, <2>2, <2>3, <2>4
<1>6. ASSUME NEW kind \in Kinds, NEW a \in Apps, SetupConfigure(kind, a)
      PROVE  VersionsInv'
  <2>1. /\ job[<<kind, a>>] = "configure" /\ Running(<<kind, a>>) /\ kind # "force"
        /\ job' = [job EXCEPT ![<<kind, a>>] = "record"]
    BY <1>6 DEF SetupConfigure, JobGoesOn, Running
  <2>2. kind \in {"setup", "repair"}
    BY <1>b, <2>1 DEF StagesOf, Kinds
  <2>3. /\ UNCHANGED <<pkg, known, prompt>> /\ configured'[a] = pkg[a]
        /\ \A b \in Apps \ {a} : UNCHANGED configured[b]
    BY <1>6 DEF SetupConfigure, Typed, StoredOK
  <2>4. known[a] <= pkg[a]
    BY <2>1, <2>2 DEF VersionsInv, VersionsOK
  <2>5. configured'[a] <= pkg'[a] /\ known'[a] <= pkg'[a] /\ known'[a] <= configured'[a]
    BY <1>n, <2>3, <2>4
  <2>6. \A k \in Kinds \ {kind} : job'[<<k, a>>] \in {"none", "waiting"}
    BY <1>c, <2>1
  <2>7. VersionsOK(a)'
    BY <2>5, <2>6, VersionsFit
  <2> QED
    BY <1>d, <2>1, <2>3, <2>7
<1>7. ASSUME NEW kind \in Kinds, NEW a \in Apps,
             \/ SetupRecord(kind, a)
             \/ kind = "repair" /\ RepairEnd(a)
             \/ kind = "uninstall" /\ UninstallRecord(a)
             \/ kind = "force" /\ ForceDeclined(a)
      PROVE  VersionsInv'
  <2>1. /\ job[<<kind, a>>] \in {"begin", "record"}
        /\ job' = [job EXCEPT ![<<kind, a>>] = "none"]
        /\ UNCHANGED <<pkg, known, configured, prompt>>
    BY <1>7 DEF SetupRecord, RepairEnd, UninstallRecord, ForceDeclined, JobEnd, stored
  <2> QED
    BY <1>2, <2>1 DEF Running
\* Uninstallation: of no essential app.
<1>8. ASSUME NEW a \in Apps, UninstallRemove(a) PROVE VersionsInv'
  <2>0. "uninstall" \in Kinds
    BY DEF Kinds
  <2>1. /\ job[<<"uninstall", a>>] = "begin" /\ Running(<<"uninstall", a>>)
        /\ job' = [job EXCEPT ![<<"uninstall", a>>] = "unmark"]
    BY <1>8 DEF UninstallRemove, JobGoesOn, Running
  <2>2. /\ UNCHANGED known /\ pkg'[a] = 0 /\ configured'[a] = 0
        /\ \A b \in Apps \ {a} : UNCHANGED <<pkg[b], configured[b], prompt[b]>>
    BY <1>8 DEF UninstallRemove, Typed, StoredOK
  <2>3. a \notin Essential
    BY <2>1 DEF NeverRemoved
  <2>4. /\ job'[<<"uninstall", a>>] = "unmark"
        /\ \A k \in Kinds \ {"uninstall"} : /\ job'[<<k, a>>] \in {"none", "waiting"}
                                            /\ job[<<k, a>>] \in {"none", "waiting"}
    BY <1>c, <2>0, <2>1
  <2>5. Underway(a)' /\ configured'[a] <= pkg'[a]
    BY <2>2, <2>4 DEF Underway
  <2>6. VersionsOK(a)'
    BY <2>0, <2>3, <2>4, <2>5, VersionsFit
  <2> QED
    BY <1>d, <2>0, <2>1, <2>2, <2>6
<1>9. ASSUME NEW a \in Apps, UninstallUnmark(a) PROVE VersionsInv'
  <2>0. "uninstall" \in Kinds
    BY DEF Kinds
  <2>1. /\ job[<<"uninstall", a>>] = "unmark" /\ Running(<<"uninstall", a>>)
        /\ job' = [job EXCEPT ![<<"uninstall", a>>] = "record"]
    BY <1>9 DEF UninstallUnmark, JobGoesOn, Running
  <2>2. /\ UNCHANGED <<pkg, configured, prompt>> /\ known'[a] = 0
        /\ \A b \in Apps \ {a} : UNCHANGED known[b]
    BY <1>9 DEF UninstallUnmark, Typed, StoredOK
  <2>3. \A k \in Kinds \ {"uninstall"} : job'[<<k, a>>] \in {"none", "waiting"}
    BY <1>c, <2>0, <2>1
  <2>4. /\ configured'[a] <= pkg'[a]
        /\ known'[a] <= pkg'[a] /\ known'[a] <= configured'[a]
    BY <1>n, <1>v, <2>2
  <2>5. VersionsOK(a)'
    BY <2>0, <2>3, <2>4, VersionsFit
  <2> QED
    BY <1>d, <2>0, <2>1, <2>2, <2>5
\* Forced upgrades.
<1>10. ASSUME NEW a \in Apps, ForceInstall(a) PROVE VersionsInv'
  <2>1. /\ job[<<"force", a>>] = "begin" /\ Running(<<"force", a>>)
        /\ job' = [job EXCEPT ![<<"force", a>>] = "configure"]
    BY <1>10 DEF ForceInstall, JobGoesOn, Running
  <2>2. /\ UNCHANGED configured /\ pkg'[a] = pkg[a] + 1 /\ known'[a] = pkg'[a]
        /\ \A b \in Apps \ {a} : UNCHANGED <<pkg[b], known[b], prompt[b]>>
    BY <1>10 DEF ForceInstall, ForceUpgrade, Typed, StoredOK
  <2>3. pkg'[a] \in Nat /\ pkg[a] <= pkg'[a] /\ known'[a] <= pkg'[a]
    BY <1>n, <2>2
  <2> QED
    BY <1>e, <2>1, <2>2, <2>3
<1>11. ASSUME NEW a \in Apps, ForceConfigure(a) PROVE VersionsInv'
  <2>0. "force" \in Kinds
    BY DEF Kinds
  <2>1. /\ job[<<"force", a>>] = "configure" /\ Running(<<"force", a>>)
        /\ job' = [job EXCEPT ![<<"force", a>>] = "none"]
    BY <1>11 DEF ForceConfigure, JobEnd, Running
  <2>2. /\ UNCHANGED <<pkg, known, prompt>> /\ configured'[a] = pkg[a]
        /\ \A b \in Apps \ {a} : UNCHANGED configured[b]
    BY <1>11 DEF ForceConfigure, Typed, StoredOK
  <2>3. \A k \in Kinds \ {"force"} : /\ job'[<<k, a>>] \in {"none", "waiting"}
                                     /\ job[<<k, a>>] \in {"none", "waiting"}
    BY <1>c, <2>0, <2>1
  <2>4. job[<<"uninstall", a>>] # "unmark"
    BY <2>3 DEF Kinds
  <2>5. /\ configured'[a] <= pkg'[a] /\ (a \in Essential => known'[a] <= pkg'[a])
        /\ Undisturbed' => known'[a] <= pkg'[a] /\ known'[a] <= configured'[a]
    BY <1>a, <1>n, <1>v, <1>w, <2>2, <2>4
  <2>6. VersionsOK(a)'
    BY <2>0, <2>3, <2>5, VersionsFit
  <2> QED
    BY <1>d, <2>0, <2>1, <2>2, <2>6
\* Failures, updates from outside and restarts.
<1>12. ASSUME NEW kind \in Kinds, NEW a \in Apps, JobFails(<<kind, a>>)
       PROVE  VersionsInv'
  <2>1. /\ Running(<<kind, a>>) /\ job' = [job EXCEPT ![<<kind, a>>] = "none"]
        /\ UNCHANGED <<pkg, known, prompt>> /\ failures' = failures + 1
        /\ configured'[a] = configured[a] \/ configured'[a] = 0
        /\ \A b \in Apps \ {a} : UNCHANGED configured[b]
    BY <1>12 DEF JobFails, JobEnd, Fail, Typed, StoredOK
  <2>2. ~Undisturbed'
    BY <2>1 DEF Undisturbed, Typed, CountsOK
  <2>3. /\ job'[<<kind, a>>] = "none"
        /\ \A k \in Kinds \ {kind} : job'[<<k, a>>] \in {"none", "waiting"}
    <3>1. Running(<<kind, a>>) /\ job' = [job EXCEPT ![<<kind, a>>] = "none"]
      BY <2>1
    <3> QED
      BY <1>c, <3>1
  <2>4. configured'[a] <= pkg'[a] /\ (a \in Essential => known'[a] <= pkg'[a])
    BY <1>n, <1>v, <2>1
  <2>5. VersionsOK(a)'
    BY <2>2, <2>3, <2>4, VersionsFit
  <2> QED
    BY <1>d, <2>1, <2>5
<1>13. ASSUME NEW a \in Apps, PackageUpdated(a) PROVE VersionsInv'
  <2>1. /\ UNCHANGED <<job, known, configured, prompt>> /\ pkg'[a] = pkg[a] + 1
        /\ \A b \in Apps \ {a} : UNCHANGED pkg[b]
    BY <1>13 DEF PackageUpdated, Typed, StoredOK
  <2>2. ASSUME NEW b \in Apps PROVE VersionsOK(b)'
    <3>1. pkg'[b] \in Nat /\ pkg[b] <= pkg'[b]
      BY <1>n, <2>1
    <3>2. Underway(b)' <=> Underway(b)
      BY <2>1 DEF Underway
    <3>3. /\ configured[b] <= pkg'[b]
          /\ known[b] <= pkg[b] => known[b] <= pkg'[b]
      BY <1>n, <1>v, <3>1
    <3> QED
      BY <1>a, <2>1, <3>2, <3>3 DEF VersionsInv, VersionsOK
  <2> QED
    BY <2>2 DEF VersionsInv
<1>14. CASE Restart
  <2>1. /\ UNCHANGED <<pkg, known, configured>> /\ restarts' = restarts + 1
        /\ \A kind \in Kinds, b \in Apps : job'[<<kind, b>>] = "none"
    BY <1>14, <1>b DEF Restart, stored
  <2>2. ~Undisturbed'
    BY <2>1 DEF Undisturbed, Typed, CountsOK
  <2>3. ASSUME NEW b \in Apps PROVE VersionsOK(b)'
    BY <2>1, <2>2 DEF VersionsInv, VersionsOK, Kinds
  <2> QED
    BY <2>3 DEF VersionsInv
<1>15. CASE Onlooks
  <2>1. ASSUME NEW b \in Apps PROVE VersionsOK(b)'
    <3>1. \A kind \in Kinds : \/ job'[<<kind, b>>] = job[<<kind, b>>]
                              \/ /\ job[<<kind, b>>] = "none"
                                 /\ job'[<<kind, b>>] = "waiting"
      BY <1>15, <1>b DEF Onlooks, Typed, JobsOK
    <3> QED
      BY <1>15, <1>a, <3>1, VersionsElsewhere DEF Onlooks, Typed, VersionsInv
  <2> QED
    BY <2>1 DEF VersionsInv
<1> QED
  BY <1>1, <1>3, <1>4, <1>5, <1>6, <1>7, <1>8, <1>9, <1>10, <1>11, <1>12, <1>13,
     <1>14, <1>15, Onlookers
  DEF JobStep, Kinds, Typed

(* A package version that is noted as known was processed when the setup   *)
(* or repair that did so reaches its end, and always while nothing fails   *)
(* or is cut short: the versions of known, configured and installed        *)
(* package are in this order but where an operation is under way.  Needed  *)
(* is that installation is not skipped for an app that was uninstalled     *)
(* (Permitted, NeverRemoved).                                              *)
THEOREM KnownIsConfigured == Spec => []KnownUnlessCut
<1> DEFINE Inv == Typed /\ WorkInv /\ NeverRemoved /\ Permitted /\ VersionsInv
<1>1. Init => Inv
  <2> SUFFICES ASSUME Init PROVE NeverRemoved /\ Permitted /\ VersionsInv
    BY TypesBegin, WorkBegins
  <2>1. \A kind \in Kinds, a \in Apps : job[<<kind, a>>] = "none"
    BY DEF Init, Jobs
  <2>2. NeverRemoved
    <3>1. ASSUME NEW a \in Essential PROVE job[<<"uninstall", a>>] = "none"
      <4>1. a \in Apps /\ "uninstall" \in Kinds
        BY Assumed DEF Kinds
      <4> QED
        BY <2>1, <4>1
    <3> QED
      BY <3>1 DEF NeverRemoved
  <2>3. Permitted
    BY DEF Init, Permitted, AtStart
  <2>4. ASSUME NEW a \in Apps PROVE VersionsOK(a)
    <3>1. known[a] = configured[a] /\ known[a] <= pkg[a] /\ known[a] \in Nat
      BY DEF Init
    <3> QED
      BY <2>1, <3>1 DEF VersionsOK, Kinds
  <2> QED
    BY <2>2, <2>3, <2>4 DEF VersionsInv
<1>2. Inv /\ [Next]_vars => Inv'
  BY TypesStep, WorkStep, NeverRemovedStep, PermittedStep, VersionsStep DEF Typed
<1>3. Inv => KnownUnlessCut
  <2> SUFFICES ASSUME Inv PROVE KnownUnlessCut
    OBVIOUS
  <2>n. ASSUME NEW a \in Apps
        PROVE  pkg[a] \in Nat /\ known[a] \in Nat /\ configured[a] \in Nat
    BY DEF Typed, StoredOK
  <2>v. ASSUME NEW a \in Apps
        PROVE  /\ configured[a] <= pkg[a]
               /\ \A kind \in {"setup", "repair"} :
                    job[<<kind, a>>] = "record" => known[a] <= configured[a]
               /\ Undisturbed => known[a] <= configured[a] \/ Underway(a) \/ prompt[a]
    BY DEF VersionsInv, VersionsOK
  <2>1. ASSUME NEW a \in Apps, NEW kind \in {"setup", "repair"},
               job[<<kind, a>>] = "record", known[a] = pkg[a]
        PROVE  configured[a] = pkg[a]
    <3>1. configured[a] <= pkg[a] /\ known[a] <= configured[a]
      BY <2>1, <2>v
    <3> QED
      BY <2>1, <2>n, <3>1
  <2>2. ASSUME Undisturbed, NEW a \in Apps, known[a] = pkg[a], ~prompt[a],
               \A kind \in Kinds : ~Running(<<kind, a>>)
        PROVE  configured[a] = pkg[a]
    <3>1. ~Underway(a)
      BY <2>2 DEF Underway, Running, Kinds
    <3>2. configured[a] <= pkg[a] /\ known[a] <= configured[a]
      BY <2>2, <2>v, <3>1
    <3> QED
      BY <2>2, <2>n, <3>2
  <2> QED
    BY <2>1, <2>2 DEF KnownUnlessCut, Processed, Undisturbed
<1> QED
  BY <1>1, <1>2, <1>3, PTL DEF Spec

=============================================================================
