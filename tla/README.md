# A formal model of the FreedomBox service

FreedomBox (Plinth) is a web service that installs, configures, upgrades, backs
up and removes apps on a Debian machine.  It is a threaded Python program:
request threads, a startup thread, threads started for D-Bus calls and timers,
and one thread per *operation*.  Next to it run a daemon that acts as root and,
for a distribution upgrade, a systemd unit.  This directory holds TLA+ modules
of the parts that carry its concurrent and long-lived logic, the TLC
configurations that check them on small instances, and TLAPS proofs about them.

## Inventory

| part | state it keeps | operations | talks to | what is hard |
|---|---|---|---|---|
| operations manager, `plinth/operation.py` | ordered dict of operations, current operation, state/exception/app of each | `new`, `join`, `on_update`, completion callback, `_schedule_next`, `collect_results` | everything that installs or configures | state is written without the lock; callback, creation and collection interleave |
| app setup, `plinth/setup.py` | setup version per app (database), first-setup flag, shutdown flag, two run locks | setup, repair, uninstall, startup loop, dpkg handler, force upgrader | operations manager, packages, D-Bus | restarts between steps, retries, stale checks, dropped calls |
| packages, `plinth/package.py` | known package versions (key-value store) | `install`, `uninstall`, `mark_known`, `unmark_known` | apt through privileged actions | what is known must mean what was processed |
| backup schedule, `modules/backups/schedule.py` | archives in a repository | `run_schedule`: check, backup, cleanup | timer, borg | overlapping runs, failures, time off, clock changes, calendar edges |
| backup and restore, `modules/backups/api.py` | what was running, locked apps | `backup_apps`, `restore_apps` | services, web server, hooks of apps, borg | failures between stopping and starting, other runs and users on the same services |
| daemons and apps, `plinth/app.py`, `daemon.py` | enabled and running units | enable, disable, `SharedDaemon.disable`, `ensure_running` | systemd, web server | look first and act later, on units that apps share |
| privileged actions, `plinth/actions.py`, `privileged_daemon.py` | backlog of the socket, request threads, time of last request | call, answer, idle exit, stop, kill | systemd | exit against an arriving request, stops at any moment |
| certificates, `modules/letsencrypt` | certificates, copies of apps, last seen times (key-value store) | obtain, reobtain, revoke, delete, renew; events, check at start; setup of an app | apps, certbot, names, D-Bus | hooks that fail, lost calls, lost updates of the shared record, a certificate newer than the one handled |
| upgrades, `modules/upgrades`, `action_utils.py` | sources.list and its copies, holds, a flag file, snapshots, quassel | distribution upgrade, manual update, repair, package installation | apt, systemd | a crash between doing and undoing; several holders of one hold |
| diagnostics, `modules/diagnostics` | current results, running flag | run, repair, daily check | apps, operations | results replaced while they are read |
| firewall, names, storage, network | system configuration | enable, disable, device and name events | firewalld, udisks2, NetworkManager | components shared between apps |
| web layer, notifications, D-Bus, glib | requests, rows, timers | middleware, views | users | requests during the first setup |

What makes each part correct:

* **operations**: one at a time, nothing added is lost, the queue never stands
  still, an identifier is in flight once, joining means completed;
* **setup**: the version in the database follows packages and configuration
  through failures and restarts; startup ends with essential apps set up; an
  update from outside is processed;
* **schedule**: backups neither too often nor missing, cleanup never takes the
  backup that counts;
* **backup runs**: services that ran before run afterwards, files are copied
  while their services are stopped, no app stays locked; a **shared daemon** is
  on for every enabled app that uses it;
* **certificates**: no app is left with an old certificate, nor with a revoked one;
* **privileged actions**: the daemon comes and goes without a call noticing, every
  call gets an answer, and an idle daemon does exit;
* **upgrades**: what was disabled or held is put back, a hold of the administrator
  survives, an interrupted upgrade is continued.

`PROJECT.json` lists the hazards with their source lines.

## Modules

| module | models | role |
|---|---|---|
| `SerialJobs` | what the operations manager promises | abstract specification |
| `PrivilegedCalls` | what a caller of privileged actions may rely on | abstract specification |
| `Operations` | `plinth/operation.py` | component; implements `SerialJobs` |
| `AppSetup` | `plinth/setup.py` with `plinth/package.py` and the start of `plinth/__main__.py` | composition of the threads that use the manager, which appears as its users see it |
| `BackupSchedule` | `modules/backups/schedule.py` and its timer | component |
| `AppDaemons` | enabling and disabling apps, shared daemons, `ensure_running` | component without a specification of its own: its actions are those of a thread |
| `BackupRun` | `modules/backups/api.py` | composition: runs and the threads of `AppDaemons`, on the same units |
| `Certificates` | `modules/letsencrypt`, domains of `modules/names` | component with its threads, certbot and D-Bus |
| `PrivilegedDaemon` | `plinth/privileged_daemon.py` and both ends of `plinth/actions.py` | component with its callers and systemd; implements `PrivilegedCalls` |
| `DistUpgrade` | `modules/upgrades/distupgrade.py` and the holds of `action_utils.py` and `privileged/packages.py` | composition of the upgrade, the web service and privileged methods |
| `OperationsProofs`, `AppSetupProofs`, `BackupScheduleProofs`, `BackupRunProofs`, `CertificatesProofs`, `PrivilegedDaemonProofs`, `DistUpgradeProofs` | - | theorems and proofs about the module they are named after |
| `SharedDaemonProofs` | - | the theorem about shared daemons in `BackupRun` |
| `MC...` | - | instances for TLC |

### Operations

A member of `Ops` is an `Operation` object; `OpId` and `OpApp` are its
arguments.  `operations` and `ahead` are the `OrderedDict` (its values, and for
each key the keys inserted before it, since replacing a value keeps its place);
`current` is `_current_operation`; `lock` is the manager's lock; `thread` is the
place in `_catch_thread_errors` and `_on_operation_complete`.  Everything that
another thread can see in between is a step of its own: `Finish` writes the
state without the lock, `CompleteEnter` takes the lock later, and in the window
between them `NewEnter` and `CollectResults` can come.  `Silent` operations are
those created with `show_message=False` (first setup of essential apps, force
upgrades); only for them the callback deletes the entry.  `Notifying`
operations write notifications, which can raise: in the constructor, before the
target and in the `finally` block.  A thread that dies of one never gets to the
callback: `_current_operation` stays set and the queue stands still, which
`NoStalledQueue` counts as a stall just like a manager that is idle while
operations wait.  `StallsOnlyAfterDeath` says that nothing but such a death, or that
of a silent operation in the callback, leads to it (`SchedulerDied`), and
`JoinMeansCompleted` that join returns early only when the first notification
failed.  `ReuseForApp` is the change of `app_id` by
`run_repair_on_app`.

### AppSetup

`version` is the database, `pkg` and `known` are the installed version and the
one in the key-value store, `prompt` a pending conffile prompt.  `configured`
is a history variable: the package version for which the app was last
configured.  `job` gives the stage of each operation (kind and app); operations
run one at a time, as `SerialJobs` has it, in any order among the waiting
ones (the manager's order of waiting operations depends on identifiers used
before, so the model leaves it open).  `startup`, `dpkg` and `force` are the
three long-lived activities, with their place, loop index and attempts.
`Restart` may happen anywhere and keeps only what is stored.  Packages shared
between apps and conflicting packages are left out.

`install()` runs apt-get for packages that are installed already: it upgrades what
has a newer version and fails at a conffile prompt.  Its own dpkg run triggers the
handler, for the variable `FREEDOMBOX_INVOKED` that is to prevent this reaches
systemd-run and not apt-get.  An operation of the first setup may not install, and
then `install()` only looks (`May`).  `Declining` are the versions for which an app's
`force_upgrade` returns false: every setup of the app is then refused
(`attempt_upgrade_for_app`), not now and then but until somebody upgrades the package
(`Stuck`), and a startup that finds an app stuck repeats its attempts for ever.

A rerun that `DpkgHandler` queues behind an uninstall sets the app up again,
because the operation reads the version only when it runs (`setup.py:798`,
`setup.py:815`); the record stays right all the same.

`install()` marks a package version known before the app is configured for it, so
that a failure in between leaves it known and unprocessed (`KnownIsProcessed` is
violated).  `KnownUnlessCut` is what is left of the promise: a setup or repair that
gets as far as recording the version has processed whatever is known then,
failures of earlier operations and updates in between included; and before the
first failure or restart everything known is processed, save while the next
version waits with a conffile prompt: the prompt can appear after a force upgrade
has noted the version and before the setup it belongs to calls apt-get, which then
fails (the exception came out of the proof).  `UpdateHandled` takes an update for
handled when the app is configured for it, not when it is known: a rerun that fails
right after `mark_known` is one of its exceptions (`Forgotten`), as are a stop, a
failure at every attempt and an app that is stuck.

### BackupSchedule

Time is in hours and the calendar is a parameter.  `archives` holds start and
periods of the scheduled archives.  A run is divided at its borg commands:
`Check` lists and decides, `CreateBegin` and `CreateEnd` span the backup, during
which the repository is locked and other commands fail, `CleanupList` and
`CleanupDelete` remove archives.  `Runners` are the threads that the timer
starts: a long run overlaps with the next.  The timer's interval is an hour give or
take 5% (`glib.py:89`); with times rounded down to whole hours this means that now
and then an hour passes without a trigger or has two, and so `Tick` may pass an
hour, with the next trigger or without, or bring another trigger within the hour.
It assumes that a run which has decided on a backup starts it within the hour.  `MaxBack` is by how many hours
the clock may be set back, 0 or 1: set back by two hours between the check and
the backup, two archives can start at the same time, and the spacing that
`_recent_backups` is to ensure is lost.

`streak` is a history variable: how many triggers in a row, up to two, found the
backups recent enough or made one.  `CatchesUp` speaks of two.  One is not enough,
because a trigger less than two hours after an archive of another period skips the
backup that is due (`TooSoon`) and still counts as a good one; a failure, time off,
a change of the clock or a trigger that finds the repository locked starts anew.

### AppDaemons and BackupRun

A unit is a systemd unit or a configuration of the web server; `Shared` are the
units of `SharedDaemon` components.  `task` is what a thread is doing: `enable`
and `disable` go over the components of an app, one privileged call per step;
`last` is the place in `SharedDaemon.disable` between looking at the other apps
and disabling; `borrow` and `using` are `ensure_running`, whose finally clause
disables what it found stopped.  `raced` collects the units that two threads
worked on at once, `partial` the apps whose change was broken off, `startedBy`
who started a unit.

There are two ways for a call to fail.  It *raises* (`CallRaises`) when the privileged
daemon cannot be reached or refuses, and for web configurations when `a2enconf` or
`a2disconf` fails, which run with `check=True`.  And `systemctl` *fails unnoticed*:
`service_start`, `service_stop`, `service_enable` and `service_disable` run it with
`check=False`, so that the call returns as if it had succeeded, the unit being as it
was or, for enable and disable, changed by half (`Balks`).  The loop goes on, files are
copied, apps are unlocked.  `balked` is a history variable with the units that were
left so and have not changed since.

`run[r]` is a call of `backup_apps` or `restore_apps`: its place, loop index and
the list of `ServiceHandler`s with what they found running.  `StopLook` and
`StopCall` are the two halves of `ServiceHandler.stop`, `Hook...` the hooks, some
of which borrow a unit (Nextcloud's database), `Copy` the handler,
`StartCall` and `Unlock` the finally clause.  A call to stop that raises leaves
`_shutdown_services` outside the `try`, a call to start that raises ends
`_restore_services`: `GivesUp` records what is then lost or stays locked.  Runs overlap with each
other and with users who enable and disable apps.  Snapshots are left out:
`_is_snapshot_available` returns nothing.

What the properties had to say, since the code does not prevent it: `App.locked`
is read nowhere, against its docstring (`api.py:227`), so a user can start a
service while its files are copied, and then the copy is not quiet; two runs on
one app unlock it at the end of the first; a shared daemon can be taken away
by `ensure_running` or `disable` that overlaps with enabling another app; and what
`systemctl` failed to do, nobody repeats.  The properties name these units (`balked`),
so that one failure excuses one unit and not the run.  Web configurations are owed
and restored like services: stopping one disables it, and `NoServiceLost` and
`EventuallyRestored` are about what was last enabled and is off.
Nextcloud nests three `ensure_running`; the model has one.  Aliases of daemons are
abstracted.

### Certificates

Times are numbers of certificates issued.  `cert` and `valid` are certbot's,
`copy[c][d]` is the file that component `c` keeps for domain `d`, 0 when it is
self-signed.  `thread` holds the threads of `on_certificate_event` and, as `Main`,
the check at start; a thread goes over the components, then reads the time and
the stored record (`SeenRead`) and writes the whole record (`SeenWrite`), so that
an update of another thread is lost.  `hooks` are certbot's D-Bus calls on their
way, which are lost when the service does not have its name.  Requests change
`domains` or `cert` and send an event in a second step (`op`).

`overtaken`, `excused` and `kept` are history variables that name the exceptions of
the two safety properties, each a behaviour of the code: a hook that fails is not
repeated; adding a domain back whose certificate was kept leaves the self-signed
copies in place, as `on_domain_added` returns early; the time is read after
copying, so that a certificate issued in between counts as seen and only its own
event can bring it; `setup_certificates` copies certificates that are no longer
valid, and misses events while it runs.  The check at start ends when a
certificate is deleted under it.  Threads for events are a pool; the code starts
one per event.  `SetupCopies` copies the certificates of all domains in one step, where
the code goes from one to the next.  Each property is about one domain and one
component, and seen from there the two are the same: a copy made at one moment.

### PrivilegedDaemon

`mode` is socket activation or a service of its own.  `server` is the main thread
(`select`, `accept`, `actions` are a round of `serve_forever`), `backlog` the
connections nobody has accepted, `handler` and `caller` the two ends of a request,
`kind` what the request will lead to.  `idle` stands for
`idle_shutdown_time` having passed; `listed` for `_threads` being a list, which it is not
before the first request that is let in: a daemon that only denied
connections never exits by itself.  `Terminate` and `Kill` are systemd's stop and
what follows after its timeout; a signal during loading is lost
(`_shutdown_server` finds no server).  A result that JSON cannot express makes
`handle()` raise after the thread's storage was cleared: the caller reads an
empty answer, which `actions.py` reports as a `ConnectionError`.

Raw output is streamed from a process that runs on while it is read, and its reader
takes a closed connection for the end (`actions.py:138`): when a stop, which signals
the process too, or a kill comes in between, it has part of the output and no
error (`CutOff`, answer "part").  `ExitUnnoticed` includes that nothing but a stop does
this, an idle exit in particular does not.

`PrivilegedCalls` is the daemon as a caller sees it: a call waits, runs, ends in a
result or an error, and is over, whatever its caller then reads.  `PhaseOf` maps the
places of the request thread to it.  What the refinement (`ImplementsPrivilegedCalls`)
adds to the other properties is that no stop, kill, exit or closed connection lets
an action start twice, or start or go on after its caller was told something, so
that a caller which tries again does not run an action beside itself.

### DistUpgrade

Releases are numbers.  `sources` is `sources.list`, `temp` the modified copy, `lists` the
release in apt's package lists; `hold` and `flag` are the hold on freedombox and the
file that tells it from one of the administrator.  `pc` has three processes: the
upgrade, installations by the web service, and privileged methods (start, manual
update, repair).  All enter `apt_hold_freedombox`, whose steps (`LookForHold`,
`TouchFlag`, `Mark`, `Unmark`, `Unflag`) are separate because a crash or another
process may come between.  `undo` is what the context managers of `perform` have to
put back.  `OnComplete` commits the new `sources.list`.

The upgrade does not run in its unit.  `freedombox-cmd` is a client
(`privileged_daemon.py:212`) which sends the request and waits; `perform` and apt run in
a thread of the privileged daemon.  So there are a `unit` and a place
`pc["upgrade"]`, which need not agree: when the unit is stopped by hand `perform` goes
on (`UnitEnds`), when the daemon is stopped the unit fails (`DaemonStops`), and a unit
that has failed keeps `systemd-run` from starting another of its name until the
machine restarts.  The file that `BindPaths` mounts is seen by the client only: apt
offers what the *original* file names (`Offered`), and where that is a codename,
full-upgrade installs no new release and `on_complete` commits one all the same.
`SourcesInstalled` states what the comment at `distupgrade.py:358` takes for granted, and
is violated.

To put back can fail: enabling the snapshots again raises (`SnapshotsBack`), enabling
quasselcore fails unnoticed (`QuasselBack`), as disabling it does (`QuasselOff`).  `left`
records what was tried and failed; `PutBackAtEnd` says that everything else is as it
was, whatever else failed, and that a failure of one does not prevent the other.

What the properties had to except: two holders at once give the hold up while
the other still depends on it (`crossed`), although `distupgrade.py:264` says it is
held during the entire upgrade; after a crash snapshots and quassel stay disabled
and packages with prompts held until somebody acts (`cut`); repair leaves the flag
behind, so that a hold the administrator sets later may be released.
`DistUpgradeConfirmView` and `start_service` do not look at the next action, and
`start_service` writes the file that `on_complete` will commit before `systemd-run`
refuses to start the unit twice.  Where `sources.list` says "stable", the current
release is that of base-files, and a second start after full-upgrade makes the first
upgrade commit the release after the one it installed.  `rewritten` is a history
variable for that, and `OneBehind` says that otherwise `sources.list` is at most one
release ahead of the system, whatever fails, crashes or is continued.  `Continued` is
about an upgrade that changed base-files and was cut off before its release was
committed; where `sources.list` names "stable" the code does not see that.  It is
continued whatever the free space and the setting of automatic updates, but not
when distribution upgrades are turned off (`allowed`), a switch that `check_dist_upgrade`
reads before anything else.

What systemd does with a name that is in use is external.  A second `perform` beside
one whose unit was ended by hand is excluded (`Launch` waits), as are the other holder of
the flag's file in `modules/names/privileged.py:86` and the `fix-broken` of a manual
update as a step of its own.

### Mutants

Definitions introduced as "Mutant" or "For mutants of" change an operation the way
a plausible mistake would.  They are not part of `Next`; substituted for the
definition that follows them, they make TLC report the property that is meant to
notice.

## Runs

| run | checks | result |
|---|---|---|
| `MCOperations_all` | type, one operation at a time, what losses and stalls need, identifiers unique in flight, refinement of `SerialJobs`, join means completed, every operation completes, joiners return | holds, 40,696 states |
| `MCOperations_lost` | no waiting operation is lost | violated: a silent operation deletes its successor |
| `MCAppSetup_users` | type, the recorded version follows packages and configuration, what is known was processed unless something was cut short | holds, 2,819,381 states |
| `MCAppSetup_startup` | after startup requests are served and essential apps are up-to-date; startup ends; updates are processed | holds, 156,642 states |
| `MCAppSetup_known` | a known package version was processed | violated: a rerun that fails is not repeated |
| `MCBackupSchedule_small` | type, spacing, catching up, the newest of each period survives | holds, 2,500,541 states |
| `MCBackupSchedule_monthly` | monthly backups catch up | violated: 31 January plus a month is taken for 31 January of the next year |
| `MCBackupRun_overlap` | type, no service lost, quiet copies, locks released, shared daemons kept, what was stopped is started again | holds, 656,718 states |
| `MCCertificates_events` | type, no renewal missed, revoked certificates withdrawn, the check at start heals | holds, 147,090 states |
| `MCPrivilegedDaemon_calls` | type, exits unnoticed, every call is answered, an idle daemon exits, refinement of `PrivilegedCalls` | holds, 362,859 states |
| `MCDistUpgrade_next` | type, holds traced, held throughout, put back at the end, `sources.list` at most one release ahead, an interrupted upgrade is continued | holds, 884,994 states |
| `MCDistUpgrade_sources` | what `on_complete` commits is installed | violated: apt does not see the file that is mounted for its client |

The violated properties quote comments, docstrings and tests of the repository;
the findings in `PROJECT.json` give the lines.  The weaker properties that hold
(`LostOnlyToSilent`, `StallsOnlyAfterDeath`, `KnownUnlessCut`, `OneBehind`) say how
far the damage goes.

### Bounds

* *Operations*: three operations, two identifiers and two callers: the least in
  which an operation has a successor with its identifier while another waits, two
  threads compete for the lock, and every kind of operation (silent, notifying,
  reused) meets the others.  The liveness properties are checked with all of them,
  and except only what a silent operation deletes and a queue whose scheduler
  died.
* *AppSetup*: one app on which users and all threads act, two package versions, an
  app that declines its first force upgrade; or an essential app and another, two
  code versions and two attempts in place of twelve, force upgrades included; one
  failure and one restart.  Two attempts are enough for a first, a last and a
  repeated one; a failure can hit every step.
* *BackupSchedule*: days of 4 hours, weeks of 2 days, months of 3 and 2 days, 18
  hours: several days, two weeks and a change of month; one failure, one hour
  back, time off of 1 or 5 hours.  The run about months has the real calendar
  and the default schedule.
* *BackupRun*: an app with a daemon, one with a hook that borrows, one with a web
  configuration; the first two share the database.  A backup of all three, a
  restore of two and a user: every pair overlaps, and three tasks suffice for
  a loop to be overtaken by two others.  One failure, which is a call that
  raises, a systemctl that fails unnoticed, at any place, or a restart.
* *Certificates*: a domain that is acted upon and one whose certificate only waits
  for the check; a component for both and a late one for the first; one thread
  for events beside the one of the check, which can overlap on one certificate;
  three certificates, requests, failures and stops in any mixture.
* *PrivilegedDaemon*: two calls, one stop, one caller that vanishes: a call that
  arrives during the exit caused by another.  Of kinds that differ only in the
  answer one is left out.
* *DistUpgrade*: three releases, the last without a date, so that there is one
  upgrade to run, continue and not to begin; two events among crashes, failures,
  requests, ends of the unit and changes of settings.  Snapshots and quasselcore
  are both on at first: with either off there is less to put back.

The checks go beyond these bounds where there is a theorem (below).  Deadlock is
not an error in these models: operations are finite in number, and time, failures
and requests are bounded, so that every behaviour may end.

### Fairness

* `Operations!FairSpec`: threads that can run do run (weak fairness of the steps
  of callers and operation threads, which includes that targets return), and a
  thread that waits for the manager's lock, which is released again and again,
  gets it (strong fairness of `CompleteEnter`).  Nobody need create operations or
  load pages.
* `AppSetup!FairSpec`: operations, the startup thread, the dpkg handler and the
  force upgrader make progress and D-Bus calls arrive; users, updates, failures,
  stops and restarts are never required.
* `BackupRun!FairSpec`: a run that has begun goes on: it is one thread, and each
  of its calls returns or raises.
* `Certificates!FairSpec`: event threads and the check are threads of a service
  that runs, and certbot calls the deploy hook of what it renewed.
* `PrivilegedDaemon!FairSpec`: the main loop, the request threads and callers that
  have connected go on, and time passes.  Stops and vanishing callers are never
  required; new calls neither.
* `DistUpgrade!FairSpec`: processes that were started go on, and the daily check
  comes again (a timer of `glib.py`); crashes and users are never required.

## Proofs

Eight modules prove, for every value of the constants, what the runs show on small
instances.  The only assumptions are the named `ASSUME`s of the modules, which TLC
evaluates in the runs, and, where a theorem says so, an assumption of its own.  For
each model type correctness is proved (`TypeCorrect`), and then safety properties from an inductive invariant that TLC or a reader would not
guess from the property alone.

* **`OperationsProofs`**.  `InductiveInvariant`: that two operations do not overlap
  depends on `current`, which depends on the stage at which the callback clears
  it, which depends on who holds the lock.  Its parts: `ThreadMatchesState`,
  `RunningIsCurrent`, `CallbackClears` (between clearing and scheduling there is no
  current operation), `CallerHolds` (what a caller in `new` may rely on),
  `ListedUnderId`, and `Served` (no waiting entry while nobody is at work, up to
  threads that died).  From it `OperationsSerialised` (with the exclusion of the critical
  sections, and that the current operation is the active one),
  `LossNeedsSilent`, `StallNeedsDeath`, `ShownOperationsAreSafe`, `QueueServed`, the action
  property `OperationsRunOnce`, and `Refinement`: `Spec` implements `SerialJobs`.
  `Served` is about an idle manager; that a current operation whose thread has died
  counts as a stall, too, takes `WhoDies`.  Two theorems need an invariant of their own: `IdentifiersUnique`,
  by `InFlightListed` (an entry in flight stays listed unless a silent operation with
  its identifier has completed), and `JoinersSeeResults`, by `EndsCompleted`.
* **`AppSetupProofs`**.  `RecordFollowsPackages`: `WorkInv` says that at most one
  operation runs and what the stages it has passed have established about package,
  configuration and knowledge; no other step undoes that.  Both halves need each
  other.  `StartupSetsUp`: `StartupInv` says which essential apps the loop of
  the startup thread has passed and that they are current, also across attempts
  whose list of apps was computed anew; `NeverRemoved` that nobody uninstalls one of
  them; and which attempt the mark of the first setup belongs to.
  `KnownIsConfigured`: `VersionsInv` says that a setup or repair brings the known
  version below the installed and then the configured one, and that, as long as
  nothing has failed or restarted, it is above them only while an operation on
  the app is under way or a conffile prompt waits.  Versions only grow, so that below and known means equal.
* **`BackupScheduleProofs`**.  `BackupsApart`: `SpacedInv` says that one run at a time
  decides and starts (`OneDecides`), that no archive starts in the future unless the
  clock was set back (`Past`), and that a run which has decided to back up found the
  other archives old enough (`Room`).  Needs `MaxBack <= 1`.
  `NewestStays`: `TodoInv` says that every archive a run still has to delete is
  superseded, in each period that is kept, by a newer one that is there, although
  runs list the archives at different times and delete them from the newest on.
  `BackupsCatchUp`: `TogetherInv` says that when an archive was made those of the other
  periods were not overdue; `PromptInv` that while the streak lasts no backup spans a
  second trigger; `CaughtUp` adds up what may pass since a backup was due: the hour of
  grace, one in which another backup was too recent, one to the next trigger, one to
  make the backup (`Grace`, `MakingInv`).
* **`BackupRunProofs`**.  `NothingLost`: a unit that is enabled and does not run is
  owed by a run, or was left so by a systemctl that failed, for every way in which
  runs, users and borrowed units interleave;
  needed are the places of a run at which it owes, and that what a hook borrows is
  not what a manifest names (`HandlersAssumption`).  `CopiesAreQuiet`: the loop that
  stops services has stopped everything behind its index.  `NothingStaysLocked`.
* **`SharedDaemonProofs`**.  `SharedDaemonsKept`: `SharedInv` says, for a shared daemon
  nobody raced for, how much of an app's units the loop that enables it or
  disables it has dealt with, that the last app to use the daemon is still the
  last when the daemon is disabled (`StillLast`), and that what `ensure_running` found
  off is needed by no app until it is put back (`StillUnused`).  The theorem assumes
  `OwnUnits`: an app with a shared daemon has other units, which are its own and
  whose web configuration no backup manifest names, and hooks borrow shared
  daemons only.  The apps of the repository with a `SharedDaemon` are like that,
  except that the hooks of Nextcloud also borrow its own container; so is the
  instance of `MCBackupRun`.
* **`CertificatesProofs`**.  `RenewalsArrive`: an old copy is *cared for*: the
  certificate's own hook or event is on its way, when an older event overlapped
  with it, or else the record shows it as unseen and no thread is past the
  component or about to record it.  A thread that has read the record and not yet
  written it is why the second half is needed: it may write back a time that
  another thread has since moved on.  `RevokedGoes`.
* **`PrivilegedDaemonProofs`**.  `ExitsUnnoticed`: with socket activation connections
  in the backlog survive an exit, and the loop is left for idleness only when no
  thread of a request is alive; that none comes to life between the decision
  and the end rests on the place of the main thread.  `PromiseKept`: the daemon
  implements `PrivilegedCalls`; each action of main thread, request thread, caller and
  systemd is mapped to the step of the abstract call, or a stutter.
* **`DistUpgradeProofs`**.  `HoldIsTraced` and `HeldThroughUpgrade`: `HoldInv` relates
  the place of each process to what it found and to the flag, as long as holders
  have not crossed.  `UpgradePutsBack`: `UndoInv` says that what is disabled,
  what is still to be put back and what could not be add up to what there was.
  `CommitsOneAhead`: `FollowInv` orders the releases in `sources.list`, its copy, apt's
  lists and base-files according to the place of the upgrade and of the method that
  starts one; what apt offers is installed once full-upgrade is past without failure
  (`Installed`).

Only model-checked: the liveness properties, for fairness and `ENABLED` are out of the
prover's reach (`EveryOperationCompletes`, `JoinersReturn`, `StartupConverges`,
`UpdateHandled`, `EventuallyRestored`, `CheckHeals`, `CallsAnswered`, `IdleExits`,
`Continued`).  Every invariant, action property and refinement that a passing run
checks is also a theorem.  Conversely three theorems have no passing run of their own:
`ShownOperationsAreSafe` (without silent operations) and `QueueServed` (without silent
and notifying ones) are cases of `LostOnlyToSilent` and `StallsOnlyAfterDeath`, which
`MCOperations_all` checks with both kinds, and the order of states in `OperationsRunOnce` is that of `SerialJobs`.

## Not modelled

The repository is large, and most of it is not this kind of code: some sixty apps
that declare components and write the configuration files of other programs;
presentation, translation, menus, forms, templates and the conversion of the
manual; wrappers around apt, borg, systemd, NetworkManager, firewalld and udisks2,
apart from the fact that they fail.  The modules here cover a small part of the
lines, those with state that several threads, processes or restarts share.
Further left out:

* diagnostics: one dictionary of results for display, on which nothing depends;
* ports of the firewall, which follow the rule of shared daemons, and daemons
  related to an app without being part of it;
* notifications, except that writing one can fail in an operation;
* users editing a backup schedule or deleting archives by hand during a run;
* backports, the settings pages of upgrades and unattended-upgrades itself;
* the order of apps, which is computed once at start;
* arguments and results of single privileged actions.

## Plan

1. *Done*: `SerialJobs`, `Operations`, `AppSetup`, `BackupSchedule`, `AppDaemons`,
   `BackupRun`, `Certificates`, `PrivilegedDaemon`, `DistUpgrade`, and proofs about
   each (`AppDaemons` as part of `BackupRun`).
2. *Done*: proofs of all safety properties and both refinements.
3. Proofs that remain: `SharedDaemonsKept` under a weaker assumption than `OwnUnits`,
   one that admits Nextcloud's own container.
4. Next to model: ports of the firewall in `AppDaemons`; `Diagnostics`; an
   abstract specification of a hold that several processes share, which
   `apt_hold_freedombox` does not implement; the order of apps against a reference
   definition.
