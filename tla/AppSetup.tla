------------------------------ MODULE AppSetup ------------------------------
(***************************************************************************)
(* plinth/setup.py: the life of apps, from installation to removal.        *)
(*                                                                         *)
(* Threads ask the operations manager for operations on apps: requests of  *)
(* users, the startup thread, the handler of dpkg invocations and the      *)
(* force upgrader.  The manager runs one operation at a time (see          *)
(* SerialJobs) and refuses an identifier that is in use.  What must survive*)
(* a restart is in the database: the setup version of each app and the     *)
(* package versions FreedomBox knows.                                      *)
(*                                                                         *)
(* The packages of an app are one package with a version number, 0 when it *)
(* is not installed.  Packages that several apps share, which uninstalling *)
(* one of them keeps, and conflicting packages are left out.               *)
(***************************************************************************)
EXTENDS Integers, Sequences

CONSTANTS
    AppList,      \* App.list(): the apps in dependency order
    Essential,    \* app.info.is_essential
    Interested,   \* apps with rerun_setup_on_upgrade
    Forcible,     \* apps that implement force_upgrade
    Declining,    \* <<app, v>>: its force_upgrade does not know package version v
    CodeVersion,  \* app.info.version, for every app
    UserApps,     \* apps that users install, rerun, repair or uninstall
    Attempts,     \* HANDLE_ATTEMPTS and UPGRADE_ATTEMPTS (12 in the code)
    MaxPkg,       \* bound: package versions
    MaxFailures,  \* bound: exceptions and busy package manager
    MaxRestarts   \* bound: stops of the service

Apps == {AppList[i] : i \in DOMAIN AppList}

ASSUME AppSetupAssumption ==
    /\ AppList \in Seq(Apps) /\ AppList # << >>
    /\ Essential \subseteq Apps /\ Interested \subseteq Apps
    /\ Forcible \subseteq Apps /\ Declining \subseteq Forcible \X Nat
    /\ UserApps \subseteq Apps
    /\ CodeVersion \in Nat \ {0} /\ Attempts \in Nat \ {0}
    /\ MaxPkg \in Nat \ {0} /\ MaxFailures \in Nat /\ MaxRestarts \in Nat

VARIABLES
    version,      \* models.Module.setup_version, 0 when there is no entry
    pkg,          \* installed version of the app's package
    known,        \* kvstore 'packages_known', 0 when the package is unknown
    prompt,       \* an upgrade of the package waits with a conffile prompt
    configured,   \* history: package version the app was last configured for
    job,          \* operations: how far each one is
    mayInstall,   \* thread_data['allow_install'] of the setup operation
    startup,      \* thread of run_post_init_and_setup
    dpkg,         \* DpkgHandler: the thread that holds its _run_lock
    force,        \* ForceUpgrader: the thread that holds its _run_lock
    firstSetup,   \* is_first_setup_running
    stopping,     \* _is_shutting_down, and both _wait_events set
    invoked,      \* dpkg ran outside of FreedomBox, the D-Bus call is due
    failures,     \* number of failures so far
    restarts      \* number of restarts so far

stored == <<version, pkg, known, prompt, configured>>
threads == <<startup, dpkg, force>>
bounds == <<failures, restarts>>
vars == <<stored, job, mayInstall, threads, firstSetup, stopping, invoked, bounds>>

Kinds == {"setup", "repair", "uninstall", "force"}
Jobs == Kinds \X Apps

\* none: no operation with the identifier is in progress; waiting: queued; the
\* rest are the stages of a running operation, each the one about to be done.
Stages == {"none", "waiting", "begin", "install", "mark", "configure", "record",
           "unmark"}

\* The threads before they start and after they end.
AtStart == [at |-> "start", idx |-> 1, first |-> FALSE, todo |-> {}]
Resting == [at |-> "idle", idx |-> 1, tries |-> 0]
NotForcing == [at |-> "idle", todo |-> {}, app |-> AppList[1], retry |-> FALSE,
               tries |-> 0]

\* An earlier run of FreedomBox, possibly with older code, left this behind.
Init ==
    /\ version \in [Apps -> 0..CodeVersion]
    /\ pkg = [a \in Apps |-> IF version[a] = 0 /\ a \notin Essential THEN 0 ELSE 1]
    /\ known = [a \in Apps |-> IF version[a] = 0 THEN 0 ELSE 1]
    /\ prompt = [a \in Apps |-> FALSE]
    /\ configured = known
    /\ job = [j \in Jobs |-> "none"]
    /\ mayInstall = [a \in Apps |-> TRUE]
    /\ startup = AtStart
    /\ dpkg = Resting
    /\ force = NotForcing
    /\ firstSetup = FALSE
    /\ stopping = FALSE
    /\ invoked = FALSE
    /\ failures = 0
    /\ restarts = 0

-----------------------------------------------------------------------------
(* The operations manager, as its users see it.                            *)

InProgress(j) == job[j] # "none"
Running(j) == job[j] \notin {"none", "waiting"}

New(j) == job' = [job EXCEPT ![j] = "waiting"]

\* Something the code depends on raises an exception, or is not ready.
Fail == failures < MaxFailures /\ failures' = failures + 1

\* Mutant: the manager runs two operations at a time.
JobStartAnytime(j) ==
    /\ job[j] = "waiting"
    /\ job' = [job EXCEPT ![j] = "begin"]
    /\ UNCHANGED <<stored, mayInstall, threads, firstSetup, stopping, invoked, bounds>>

JobStart(j) ==
    /\ job[j] = "waiting"
    /\ \A other \in Jobs : ~Running(other)
    /\ job' = [job EXCEPT ![j] = "begin"]
    /\ UNCHANGED <<stored, mayInstall, threads, firstSetup, stopping, invoked, bounds>>

\* Mutant: a failed operation does not wake the thread that joins it.
JobEndUnnoticed(j, ok) ==
    LET Wake(t, mine) == IF ok /\ t.at = "join" /\ mine = j
                         THEN [t EXCEPT !.at = "joined"] ELSE t
    IN
    /\ job' = [job EXCEPT ![j] = "none"]
    /\ startup' = IF startup.idx \in DOMAIN AppList
                  THEN Wake(startup, <<"setup", AppList[startup.idx]>>) ELSE startup
    /\ dpkg' = IF dpkg.idx \in DOMAIN AppList
               THEN Wake(dpkg, <<"setup", AppList[dpkg.idx]>>) ELSE dpkg
    /\ force' = Wake(force, <<"force", force.app>>)
    /\ mayInstall' = mayInstall

\* The end of an operation: a thread that joins it returns or raises.
JobEnd(j, ok) ==
    LET back == IF ok THEN "joined" ELSE "raised" IN
    /\ job' = [job EXCEPT ![j] = "none"]
    /\ startup' = IF startup.at = "join" /\ j = <<"setup", AppList[startup.idx]>>
                  THEN [startup EXCEPT !.at = back] ELSE startup
    /\ dpkg' = IF dpkg.at = "join" /\ j = <<"setup", AppList[dpkg.idx]>>
               THEN [dpkg EXCEPT !.at = back] ELSE dpkg
    /\ force' = IF force.at = "join" /\ j = <<"force", force.app>>
                THEN [force EXCEPT !.at = back] ELSE force
    /\ mayInstall' = IF j[1] = "setup" THEN [mayInstall EXCEPT ![j[2]] = TRUE]
                                       ELSE mayInstall

JobGoesOn(j, from, to) ==
    /\ job[j] = from
    /\ job' = [job EXCEPT ![j] = to]
    /\ UNCHANGED <<threads, mayInstall>>

\* Any step can raise.  An uninstall that does may have undone some of the
\* configuration already.
JobFails(j) ==
    /\ Running(j)
    /\ Fail
    /\ JobEnd(j, FALSE)
    /\ \/ UNCHANGED configured
       \/ /\ j[1] = "uninstall"
          /\ configured' = [configured EXCEPT ![j[2]] = 0]
    /\ UNCHANGED <<version, pkg, known, prompt, firstSetup, stopping, invoked, restarts>>

jobRest == <<firstSetup, stopping, invoked, bounds>>

-----------------------------------------------------------------------------
(* _run_setup_on_app, in an operation of kind "setup" or "repair".         *)

ForceUpgrade(a) ==
    /\ prompt' = [prompt EXCEPT ![a] = FALSE]
    /\ pkg' = [pkg EXCEPT ![a] = @ + 1]
    /\ known' = [known EXCEPT ![a] = pkg[a] + 1]
    /\ invoked' = TRUE

\* The operation may install packages.  One of the first setup may not, and then
\* install() only looks for them, for a force upgrade, too.
May(kind, a) == kind = "repair" \/ mayInstall[a]

\* force_upgrade is not implemented for the version that is offered.
Declines(a) == <<a, pkg[a] + 1>> \in Declining

\* attempt_upgrade_for_app raises: the service stops, or a force upgrade is due
\* and declined.
Refused(a) == stopping \/ (prompt[a] /\ Declines(a))

\* The version is read again; an installed app is first force upgraded when
\* a conffile prompt is due.
SetupBegin(kind, a) ==
    LET j == <<kind, a>> IN
    /\ kind \in {"setup", "repair"}
    /\ \/ /\ version[a] = 0
          /\ JobGoesOn(j, "begin", "install")
          /\ UNCHANGED <<stored, invoked>>
       \/ /\ version[a] # 0 /\ ~Refused(a)
          /\ JobGoesOn(j, "begin", "install")
          /\ IF a \in Forcible /\ prompt[a] /\ May(kind, a)
             THEN ForceUpgrade(a)
             ELSE UNCHANGED <<prompt, pkg, known, invoked>>
          /\ UNCHANGED <<version, configured>>
       \/ /\ version[a] # 0 /\ Refused(a)
          /\ job[j] = "begin"
          /\ JobEnd(j, FALSE)
          /\ UNCHANGED <<stored, invoked>>
    /\ UNCHANGED <<firstSetup, stopping, bounds>>

\* Packages.setup: apt-get installs what is missing, upgrades what has a newer
\* version, and fails at a conffile prompt.  When dpkg runs it calls back: the
\* variable FREEDOMBOX_INVOKED that is to prevent this is given to systemd-run
\* and not to apt-get.  Without permission to install a missing package is a
\* failure, as any step can have.
SetupInstall(kind, a) ==
    /\ \/ /\ May(kind, a) /\ ~prompt[a]
          /\ JobGoesOn(<<kind, a>>, "install", "mark")
          /\ pkg' \in {[pkg EXCEPT ![a] = v] :
                        v \in (IF pkg[a] = 0 THEN {1} ELSE pkg[a]..(pkg[a] + 1))
                                \cap 1..MaxPkg}
          /\ invoked' = (invoked \/ pkg' # pkg)
       \/ /\ May(kind, a) /\ prompt[a]
          /\ job[<<kind, a>>] = "install"
          /\ JobEnd(<<kind, a>>, FALSE)
          /\ UNCHANGED <<pkg, invoked>>
       \/ /\ ~May(kind, a) /\ pkg[a] # 0
          /\ JobGoesOn(<<kind, a>>, "install", "configure")
          /\ UNCHANGED <<pkg, invoked>>
    /\ UNCHANGED <<version, known, prompt, configured, firstSetup, stopping, bounds>>

\* mark_known, the last statement of install().
SetupMark(kind, a) ==
    /\ JobGoesOn(<<kind, a>>, "mark", "configure")
    /\ known' = [known EXCEPT ![a] = pkg[a]]
    /\ UNCHANGED <<version, pkg, prompt, configured, jobRest>>

\* The rest of app.setup: configuration files, databases, daemons.
SetupConfigure(kind, a) ==
    /\ kind # "force"
    /\ JobGoesOn(<<kind, a>>, "configure", "record")
    /\ configured' = [configured EXCEPT ![a] = pkg[a]]
    /\ UNCHANGED <<version, pkg, known, prompt, jobRest>>

\* Mutant: the versions are noted when all of setup is done.
SetupRecordMarks(kind, a) ==
    /\ kind \in {"setup", "repair"}
    /\ job[<<kind, a>>] = "record"
    /\ version' = [version EXCEPT ![a] = CodeVersion]
    /\ known' = [known EXCEPT ![a] = pkg[a]]
    /\ JobEnd(<<kind, a>>, TRUE)
    /\ UNCHANGED <<pkg, prompt, configured, jobRest>>

SetupRecord(kind, a) ==
    /\ kind \in {"setup", "repair"}
    /\ job[<<kind, a>>] = "record"
    /\ version' = [version EXCEPT ![a] = CodeVersion]
    /\ JobEnd(<<kind, a>>, TRUE)
    /\ UNCHANGED <<pkg, known, prompt, configured, jobRest>>

\* _run_repair_on_app: nothing failed, or what failed is repaired without
\* running setup (otherwise SetupBegin follows in the same operation).
RepairEnd(a) ==
    /\ job[<<"repair", a>>] = "begin"
    /\ JobEnd(<<"repair", a>>, TRUE)
    /\ UNCHANGED <<stored, jobRest>>

-----------------------------------------------------------------------------
(* _run_uninstall_on_app                                                   *)

UninstallRemove(a) ==
    /\ JobGoesOn(<<"uninstall", a>>, "begin", "unmark")
    /\ pkg' = [pkg EXCEPT ![a] = 0]
    /\ prompt' = [prompt EXCEPT ![a] = FALSE]
    /\ configured' = [configured EXCEPT ![a] = 0]
    /\ invoked' = (invoked \/ pkg[a] # 0)
    /\ UNCHANGED <<version, known, firstSetup, stopping, bounds>>

UninstallUnmark(a) ==
    /\ JobGoesOn(<<"uninstall", a>>, "unmark", "record")
    /\ known' = [known EXCEPT ![a] = 0]
    /\ UNCHANGED <<version, pkg, prompt, configured, jobRest>>

UninstallRecord(a) ==
    /\ job[<<"uninstall", a>>] = "record"
    /\ version' = [version EXCEPT ![a] = 0]
    /\ JobEnd(<<"uninstall", a>>, TRUE)
    /\ UNCHANGED <<pkg, known, prompt, configured, jobRest>>

-----------------------------------------------------------------------------
(* app.force_upgrade, in an operation of the force upgrader: the app       *)
(* declines the new version, finds it installed by now, or upgrades and    *)
(* applies its settings again.                                             *)

ForceDeclined(a) ==
    /\ job[<<"force", a>>] = "begin"
    /\ ~prompt[a] \/ Declines(a)
    /\ JobEnd(<<"force", a>>, TRUE)
    /\ UNCHANGED <<stored, jobRest>>

ForceInstall(a) ==
    /\ prompt[a] /\ ~Declines(a)
    /\ JobGoesOn(<<"force", a>>, "begin", "configure")
    /\ ForceUpgrade(a)
    /\ UNCHANGED <<version, configured, firstSetup, stopping, bounds>>

ForceConfigure(a) ==
    /\ job[<<"force", a>>] = "configure"
    /\ configured' = [configured EXCEPT ![a] = pkg[a]]
    /\ JobEnd(<<"force", a>>, TRUE)
    /\ UNCHANGED <<version, pkg, known, prompt, jobRest>>

JobStep(kind, a) ==
    \/ JobStart(<<kind, a>>)
    \/ SetupBegin(kind, a) \/ SetupInstall(kind, a) \/ SetupMark(kind, a)
    \/ SetupConfigure(kind, a) \/ SetupRecord(kind, a)
    \/ kind = "uninstall" /\ (UninstallRemove(a) \/ UninstallUnmark(a) \/ UninstallRecord(a))
    \/ kind = "force" /\ (ForceDeclined(a) \/ ForceInstall(a) \/ ForceConfigure(a))

-----------------------------------------------------------------------------
(* run_setup_on_app(app, rerun), in the threads that call it.              *)

SetupDue(a, rerun) == rerun \/ version[a] < CodeVersion

NewSetup(a, allow) ==
    /\ New(<<"setup", a>>)
    /\ mayInstall' = [mayInstall EXCEPT ![a] = allow]

userRest == <<stored, threads, firstSetup, stopping, invoked, bounds>>

\* SetupView (install or update) and rerun_setup_view, which the pages of an
\* installed app offer.  No request is served during the first setup.
UserSetup(a) ==
    /\ ~firstSetup
    /\ \E rerun \in BOOLEAN : (rerun => version[a] # 0) /\ SetupDue(a, rerun)
    /\ ~InProgress(<<"setup", a>>)
    /\ NewSetup(a, TRUE)
    /\ UNCHANGED userRest

\* run_repair_on_app and run_uninstall_on_app refuse an app without a version;
\* the view refuses to uninstall essential apps.
UserRepairOrUninstall(kind, a) ==
    /\ ~firstSetup
    /\ kind = "uninstall" => a \notin Essential
    /\ version[a] # 0
    /\ ~InProgress(<<kind, a>>)
    /\ New(<<kind, a>>)
    /\ UNCHANGED <<userRest, mayInstall>>

-----------------------------------------------------------------------------
(* run_setup_on_startup and what follows it in run_post_init_and_setup.    *)

startupRest == <<stored, stopping, invoked, bounds>>

NeedsUpdate(a) == version[a] # 0 /\ version[a] < CodeVersion

\* _get_apps_for_regular_setup; run_setup_on_apps takes an empty list for all
\* essential apps.
AppsForRegularSetup ==
    LET required == {a \in Apps : \/ a \in Essential /\ version[a] < CodeVersion
                                  \/ NeedsUpdate(a)}
    IN IF required = {} THEN Essential ELSE required

\* The kind of setup is decided once, and the apps at each attempt.
StartupBegin ==
    /\ startup.at = "start"
    /\ startup' = [startup EXCEPT
                     !.at = "attempt",
                     !.first = \E a \in Essential : version[a] = 0]
    /\ UNCHANGED <<startupRest, job, mayInstall, dpkg, force, firstSetup>>

StartupAttempt ==
    /\ startup.at = "attempt"
    /\ startup' = [startup EXCEPT
                     !.at = "next", !.idx = 1,
                     !.todo = IF startup.first THEN Essential ELSE AppsForRegularSetup]
    /\ firstSetup' = (startup.first \/ firstSetup)
    /\ UNCHANGED <<startupRest, job, mayInstall, dpkg, force>>

\* One turn of the loop of setup_apps.
StartupNext ==
    LET a == AppList[startup.idx] IN
    /\ startup.at = "next" /\ startup.idx \in DOMAIN AppList
    /\ \/ /\ a \notin startup.todo \/ ~SetupDue(a, FALSE)
          /\ startup' = [startup EXCEPT !.idx = @ + 1]
          /\ UNCHANGED <<job, mayInstall>>
       \/ /\ a \in startup.todo /\ SetupDue(a, FALSE) /\ InProgress(<<"setup", a>>)
          /\ startup' = [startup EXCEPT !.at = "raised"]
          /\ UNCHANGED <<job, mayInstall>>
       \/ /\ a \in startup.todo /\ SetupDue(a, FALSE) /\ ~InProgress(<<"setup", a>>)
          /\ startup' = [startup EXCEPT !.at = "join"]
          /\ NewSetup(a, ~startup.first)
    /\ UNCHANGED <<startupRest, dpkg, force, firstSetup>>

StartupJoined ==
    /\ startup.at = "joined"
    /\ startup' = [startup EXCEPT !.at = "next", !.idx = @ + 1]
    /\ UNCHANGED <<startupRest, job, mayInstall, dpkg, force, firstSetup>>

\* Mutant: a failed attempt ends the loop.
StartupRetryNever ==
    /\ startup.at = "raised"
    /\ startup' = [AtStart EXCEPT !.at = "dpkg"]
    /\ UNCHANGED <<startupRest, job, mayInstall, dpkg, force, firstSetup>>

\* The exception ends the attempt; after a sleep there is another one, unless
\* the service is stopping, which ends the loop like a success.
StartupRetry ==
    /\ startup.at = "raised"
    /\ startup' = IF stopping THEN [AtStart EXCEPT !.at = "dpkg"]
                              ELSE [startup EXCEPT !.at = "attempt"]
    /\ UNCHANGED <<startupRest, job, mayInstall, dpkg, force, firstSetup>>

StartupSucceeds ==
    /\ startup.at = "next" /\ startup.idx \notin DOMAIN AppList
    /\ startup' = [AtStart EXCEPT !.at = "dpkg"]
    /\ firstSetup' = (firstSetup /\ ~startup.first)
    /\ UNCHANGED <<startupRest, job, mayInstall, dpkg, force>>

\* setup.on_dpkg_invoked(), which runs in this thread unless another has the
\* lock, and then setup.on_package_cache_updated().
StartupDpkg ==
    /\ startup.at = "dpkg"
    /\ \/ /\ dpkg.at = "idle"
          /\ dpkg' = [Resting EXCEPT !.at = "attempt"]
          /\ startup' = [startup EXCEPT !.at = "dpkg wait"]
       \/ /\ dpkg.at # "idle"
          /\ startup' = [startup EXCEPT !.at = "force"]
          /\ UNCHANGED dpkg
    /\ UNCHANGED <<startupRest, job, mayInstall, force, firstSetup>>

StartupForce ==
    /\ \/ startup.at = "dpkg wait" /\ dpkg.at = "idle"
       \/ startup.at = "force"
    /\ IF force.at = "idle" THEN force' = [force EXCEPT !.at = "attempt"]
                            ELSE UNCHANGED force
    /\ startup' = [startup EXCEPT !.at = "done"]
    /\ UNCHANGED <<startupRest, job, mayInstall, dpkg, firstSetup>>

StartupStep ==
    \/ StartupBegin \/ StartupAttempt \/ StartupNext \/ StartupJoined
    \/ StartupRetry \/ StartupSucceeds \/ StartupDpkg \/ StartupForce

-----------------------------------------------------------------------------
(* DpkgHandler                                                             *)

dpkgRest == <<stored, startup, force, firstSetup, stopping, restarts>>

\* on_dpkg_invoked: a call that finds the lock taken is dropped.
DpkgInvoked ==
    /\ invoked
    /\ invoked' = FALSE
    /\ dpkg' = IF dpkg.at = "idle" THEN [Resting EXCEPT !.at = "attempt"] ELSE dpkg
    /\ UNCHANGED <<dpkgRest, job, mayInstall, failures>>

\* _attempt_post_invoke up to its loop.
DpkgAttempt ==
    /\ dpkg.at = "attempt"
    /\ \/ /\ stopping
          /\ dpkg' = Resting
          /\ UNCHANGED failures
       \/ /\ ~stopping /\ Fail
          /\ dpkg' = [dpkg EXCEPT !.at = "raised"]
       \/ /\ ~stopping
          /\ dpkg' = [dpkg EXCEPT !.at = "next", !.idx = 1]
          /\ UNCHANGED failures
    /\ UNCHANGED <<dpkgRest, job, mayInstall, invoked>>

\* _app_needs_setup_rerun
NeedsRerun(a) == pkg[a] # 0 /\ pkg[a] # known[a]

RerunWanted(a) == a \in Interested /\ version[a] # 0 /\ NeedsRerun(a)

\* _post_invoke_on_app for one app.
DpkgNext ==
    LET a == AppList[dpkg.idx] IN
    /\ dpkg.at = "next" /\ dpkg.idx \in DOMAIN AppList
    /\ \/ /\ ~RerunWanted(a)
          /\ dpkg' = [dpkg EXCEPT !.idx = @ + 1]
          /\ UNCHANGED <<job, mayInstall>>
       \/ /\ RerunWanted(a) /\ InProgress(<<"setup", a>>)
          /\ dpkg' = [dpkg EXCEPT !.at = "raised"]
          /\ UNCHANGED <<job, mayInstall>>
       \/ /\ RerunWanted(a) /\ ~InProgress(<<"setup", a>>)
          /\ dpkg' = [dpkg EXCEPT !.at = "join"]
          /\ NewSetup(a, TRUE)
    /\ UNCHANGED <<dpkgRest, invoked, failures>>

DpkgJoined ==
    /\ dpkg.at = "joined"
    /\ dpkg' = [dpkg EXCEPT !.at = "next", !.idx = @ + 1]
    /\ UNCHANGED <<dpkgRest, job, mayInstall, invoked, failures>>

DpkgCompletes ==
    /\ dpkg.at = "next" /\ dpkg.idx \notin DOMAIN AppList
    /\ dpkg' = Resting
    /\ UNCHANGED <<dpkgRest, job, mayInstall, invoked, failures>>

\* Mutants: one attempt too many, and only one.
DpkgRetryOneMore ==
    /\ dpkg.at = "raised"
    /\ dpkg' = IF stopping \/ dpkg.tries + 1 > Attempts THEN Resting
               ELSE [dpkg EXCEPT !.at = "attempt", !.tries = @ + 1]
    /\ UNCHANGED <<dpkgRest, job, mayInstall, invoked, failures>>

DpkgRetryNever ==
    /\ dpkg.at = "raised"
    /\ dpkg' = Resting
    /\ UNCHANGED <<dpkgRest, job, mayInstall, invoked, failures>>

\* After a failed attempt: wait, then try again; a stop ends the wait and the
\* handling, and so does the last attempt.
DpkgRetry ==
    /\ dpkg.at = "raised"
    /\ dpkg' = IF stopping \/ dpkg.tries + 1 >= Attempts THEN Resting
               ELSE [dpkg EXCEPT !.at = "attempt", !.tries = @ + 1]
    /\ UNCHANGED <<dpkgRest, job, mayInstall, invoked, failures>>

DpkgStep == DpkgAttempt \/ DpkgNext \/ DpkgJoined \/ DpkgCompletes \/ DpkgRetry

-----------------------------------------------------------------------------
(* ForceUpgrader                                                           *)

forceRest == <<version, pkg, known, configured, startup, dpkg, firstSetup,
               stopping, invoked, restarts>>

\* apt's cache was updated and offers a package with a conffile prompt;
\* on_package_cache_updated: a call that finds the lock taken is dropped.
CacheUpdated(a) ==
    /\ pkg[a] \in 1..(MaxPkg - 1) /\ ~prompt[a]
    /\ prompt' = [prompt EXCEPT ![a] = TRUE]
    /\ force' = IF force.at = "idle" THEN [force EXCEPT !.at = "attempt"]
                                     ELSE force
    /\ UNCHANGED <<forceRest, job, mayInstall, failures>>

\* _attempt_upgrade up to its loop: the apps are listed once per attempt.
ForceAttempt ==
    /\ force.at = "attempt"
    /\ \/ /\ stopping
          /\ force' = NotForcing
          /\ UNCHANGED failures
       \/ /\ ~stopping /\ Fail
          /\ force' = [force EXCEPT !.at = "wait"]
       \/ /\ ~stopping
          /\ force' = [force EXCEPT
                         !.at = "next", !.retry = FALSE,
                         !.todo = {a \in Forcible : version[a] # 0 /\ prompt[a]}]
          /\ UNCHANGED failures
    /\ UNCHANGED <<forceRest, prompt, job, mayInstall>>

\* _run_force_upgrade_as_operation for one of the apps.  Nobody else uses the
\* identifier.
ForceNext(a) ==
    /\ force.at = "next" /\ a \in force.todo
    /\ ~InProgress(<<"force", a>>)
    /\ force' = [force EXCEPT !.at = "join", !.app = a]
    /\ New(<<"force", a>>)
    /\ UNCHANGED <<forceRest, prompt, mayInstall, failures>>

ForceJoined ==
    /\ force.at \in {"joined", "raised"}
    /\ force' = [force EXCEPT !.at = "next", !.todo = @ \ {force.app},
                              !.retry = @ \/ force.at = "raised"]
    /\ UNCHANGED <<forceRest, prompt, job, mayInstall, failures>>

ForceCompletes ==
    /\ force.at = "next" /\ force.todo = {}
    /\ force' = IF force.retry THEN [force EXCEPT !.at = "wait", !.app = AppList[1]]
                ELSE NotForcing
    /\ UNCHANGED <<forceRest, prompt, job, mayInstall, failures>>

ForceRetry ==
    /\ force.at = "wait"
    /\ force' = IF stopping \/ force.tries + 1 >= Attempts
                THEN NotForcing
                ELSE [force EXCEPT !.at = "attempt", !.tries = @ + 1]
    /\ UNCHANGED <<forceRest, prompt, job, mayInstall, failures>>

ForceStep ==
    \/ ForceAttempt \/ ForceJoined \/ ForceCompletes \/ ForceRetry
    \/ \E a \in Forcible : ForceNext(a)

-----------------------------------------------------------------------------
(* The environment                                                         *)

\* unattended-upgrades installs a new version and dpkg's hook calls D-Bus.
PackageUpdated(a) ==
    /\ pkg[a] \in 1..(MaxPkg - 1) /\ ~prompt[a]
    /\ pkg' = [pkg EXCEPT ![a] = @ + 1]
    /\ invoked' = TRUE
    /\ UNCHANGED <<version, known, prompt, configured, job, mayInstall, threads,
                   firstSetup, stopping, bounds>>

\* stop(), called when the web server stops.
Stop ==
    /\ ~stopping /\ restarts < MaxRestarts
    /\ stopping' = TRUE
    /\ UNCHANGED <<stored, job, mayInstall, threads, firstSetup, invoked, bounds>>

\* The process ends, in an orderly way or not, and starts again: only what is
\* stored remains.
Restart ==
    /\ restarts < MaxRestarts
    /\ restarts' = restarts + 1
    /\ job' = [j \in Jobs |-> "none"]
    /\ startup' = AtStart
    /\ dpkg' = Resting
    /\ force' = NotForcing
    /\ mayInstall' = [a \in Apps |-> TRUE]
    /\ firstSetup' = FALSE
    /\ stopping' = FALSE
    /\ invoked' = FALSE
    /\ UNCHANGED <<stored, failures>>

-----------------------------------------------------------------------------

Next ==
    \/ \E a \in Apps : \/ \E kind \in Kinds : JobStep(kind, a) \/ JobFails(<<kind, a>>)
                       \/ RepairEnd(a)
    \/ \E a \in Forcible : CacheUpdated(a)
    \/ \E a \in Interested : PackageUpdated(a)
    \/ \E a \in UserApps :
          \/ UserSetup(a)
          \/ \E kind \in {"repair", "uninstall"} : UserRepairOrUninstall(kind, a)
    \/ StartupStep
    \/ DpkgInvoked \/ DpkgStep
    \/ ForceStep
    \/ Stop \/ Restart

Spec == Init /\ [][Next]_vars

\* Threads run, operations end, the manager starts some operation when one is
\* waiting, and D-Bus calls arrive.  Users need not act, packages need not
\* change and nothing need fail or stop.
FairSpec ==
    /\ Spec
    /\ WF_vars(\E a \in Apps, kind \in Kinds : JobStep(kind, a))
    /\ WF_vars(StartupStep)
    /\ WF_vars(DpkgInvoked)
    /\ WF_vars(DpkgStep)
    /\ WF_vars(ForceStep)

-----------------------------------------------------------------------------
(* Properties                                                              *)

TypeOK ==
    /\ version \in [Apps -> 0..CodeVersion]
    /\ pkg \in [Apps -> 0..MaxPkg]
    /\ known \in [Apps -> 0..MaxPkg]
    /\ prompt \in [Apps -> BOOLEAN]
    /\ configured \in [Apps -> 0..MaxPkg]
    /\ job \in [Jobs -> Stages]
    /\ mayInstall \in [Apps -> BOOLEAN]
    /\ startup \in [at : {"start", "attempt", "next", "join", "joined", "raised",
                          "dpkg", "dpkg wait", "force", "done"},
                    idx : 1..(Len(AppList) + 1), first : BOOLEAN, todo : SUBSET Apps]
    /\ dpkg \in [at : {"idle", "attempt", "next", "join", "joined", "raised"},
                 idx : 1..(Len(AppList) + 1), tries : 0..(Attempts - 1)]
    /\ force \in [at : {"idle", "attempt", "next", "join", "joined", "raised", "wait"},
                  todo : SUBSET Apps, app : Apps, retry : BOOLEAN,
                  tries : 0..(Attempts - 1)]
    /\ firstSetup \in BOOLEAN /\ stopping \in BOOLEAN /\ invoked \in BOOLEAN
    /\ failures \in 0..MaxFailures /\ restarts \in 0..MaxRestarts

\* The database follows the packages: a version is recorded only for an app
\* whose package is installed and configured, and erased only when package and
\* knowledge of it are gone, however operations, updates and restarts mix.
RecordMatchesPackages ==
    [][\A a \in Apps : version'[a] # version[a] =>
          IF version'[a] = 0 THEN pkg[a] = 0 /\ known[a] = 0
                             ELSE pkg[a] # 0 /\ configured[a] # 0]_vars

\* When the startup thread is through with setup and the service is not
\* stopping, requests are served again and every essential app is up-to-date.
SetupEnded == startup.at \in {"dpkg", "dpkg wait", "force", "done"}

StartupComplete ==
    (SetupEnded /\ ~stopping) =>
        ~firstSetup /\ \A a \in Essential : version[a] = CodeVersion

\* What _app_needs_setup_rerun relies on: a package version that is known has
\* been processed, that is, the app was configured for it.
Processed(a) ==
    (version[a] # 0 /\ pkg[a] # 0 /\ known[a] = pkg[a]
       /\ \A kind \in Kinds : ~Running(<<kind, a>>))
    => configured[a] = pkg[a]

KnownIsProcessed == \A a \in Apps : Processed(a)

\* What the code achieves of KnownIsProcessed, because install() notes the
\* versions before the app is configured and not after: a setup or repair that
\* gets to its end leaves no package version that is known and not processed,
\* whatever failed before and whatever is upgraded meanwhile; and while nothing
\* has failed or been cut short there is none either, but for a package whose
\* next upgrade waits with a conffile prompt, at which apt fails.
KnownUnlessCut ==
    /\ \A a \in Apps, kind \in {"setup", "repair"} :
         (job[<<kind, a>>] = "record" /\ known[a] = pkg[a]) => configured[a] = pkg[a]
    /\ (failures = 0 /\ restarts = 0) => \A a \in Apps : prompt[a] \/ Processed(a)

\* A pending package upgrade whose conffile prompt the app does not know: every
\* setup of the app is refused until somebody upgrades the package by hand.
Stuck(a) == prompt[a] /\ Declines(a) /\ version[a] # 0

\* Startup retries until the essential apps are set up or the service stops;
\* an app that is stuck keeps it at that, for ever.
StartupConverges ==
    startup.at = "start" ~> (SetupEnded \/ stopping \/ \E a \in Apps : Stuck(a))

\* A setup or repair of the app was cut short after the package was noted.
Forgotten(a) ==
    /\ known[a] = pkg[a] /\ configured[a] # pkg[a]
    /\ \A kind \in Kinds : ~Running(<<kind, a>>)

\* A package update that the handler finds when it starts is processed: the app
\* is configured for it, or goes away.  It is not when the service stops, when
\* every one of the attempts fails, when an app is stuck, or when a rerun fails
\* after it has noted the package (see KnownIsProcessed).
UpdateHandled ==
    \A a \in Apps :
        (dpkg.at = "attempt" /\ dpkg.tries = 0 /\ RerunWanted(a))
            ~> \/ configured[a] = pkg[a] \/ pkg[a] = 0 \/ version[a] = 0
               \/ stopping
               \/ dpkg.at = "raised" /\ dpkg.tries = Attempts - 1
               \/ Forgotten(a) \/ \E b \in Apps : Stuck(b)
=============================================================================
