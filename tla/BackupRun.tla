------------------------------ MODULE BackupRun ------------------------------
(***************************************************************************)
(* modules/backups/api.py: backup_apps and restore_apps, composed with the *)
(* threads of AppDaemons that enable, disable and borrow the same units.   *)
(*                                                                         *)
(* A run is a call of backup_apps or restore_apps: by a request, or by the *)
(* timer of a schedule.  It marks the apps as locked, stops the services   *)
(* of their manifests in reverse order, runs hooks and the handler that    *)
(* copies files, and starts again what had been running.  Runs overlap.    *)
(* _is_snapshot_available returns None, so that snapshots are never used.  *)
(***************************************************************************)
EXTENDS AppDaemons, SequencesExt

CONSTANTS
    Runs,       \* calls of backup_apps and restore_apps
    Restores,   \* the ones that are calls of restore_apps
    RunApps,    \* RunApps[r]: the apps of the components, in order
    Services,   \* Services[a]: the services in the backup manifest of a
    HookUnit,   \* HookUnit[a]: what the hook of a borrows, or NoUnit
    MaxTasks    \* how many runs and tasks of other threads there may be

ASSUME BackupRunAssumption ==
    /\ Runs \subseteq Threads
    /\ Restores \subseteq Runs
    /\ RunApps \in [Runs -> Seq(Apps)]
    /\ Services \in [Apps -> Seq(Units \ Shared)]
    /\ HookUnit \in [Apps -> Units \cup {NoUnit}]
    /\ MaxTasks \in Nat

VARIABLES
    run,        \* where each run is, its loop index and the ServiceHandlers
    locked,     \* App.locked
    lost,       \* history: units that nobody will start again
    stuck,      \* history: apps that nobody will unlock
    tasks       \* runs and tasks of other threads that have begun

daemonVars == <<unitVars, task, raced, partial, failures>>

vars == <<daemonVars, run, locked, lost, stuck, tasks>>

historyVars == <<lost, stuck, tasks>>

\* install: _install_apps_before_restore; stop, stopping: before and after
\* looking at a service; pre, prehook: in a backup_pre hook that is plain, or
\* that borrows a unit; copy: the handler; post, posthook: likewise; start.
Stages == {"idle", "install", "stop", "stopping", "pre", "prehook", "copy",
           "post", "posthook", "start", "over"}

AppsOf(r) == {RunApps[r][i] : i \in DOMAIN RunApps[r]}

\* The list of ServiceHandlers, in the order of the components.
Handlers ==
    [r \in Runs |-> FlattenSeq([i \in DOMAIN RunApps[r] |-> Services[RunApps[r][i]]])]

\* No manifest names a unit that a hook borrows.  That elements of Services[a],
\* no shared daemons, are what Handlers[r] consists of follows from its definition.
ASSUME HandlersAssumption ==
    \A r \in Runs :
        Handlers[r] \in Seq((Units \ Shared) \ {HookUnit[a] : a \in Apps})

NothingRan(r) == [i \in DOMAIN Handlers[r] |-> FALSE]

Init ==
    /\ DaemonsInit
    /\ run = [r \in Runs |-> [at |-> "idle", idx |-> 0, was |-> NothingRan(r)]]
    /\ locked = [a \in Apps |-> FALSE]
    /\ lost = {}
    /\ stuck = {}
    /\ tasks = 0

-----------------------------------------------------------------------------
\* The run that will start a unit again: it found the unit running.
Owes(r, u) ==
    /\ run[r].at \in Stages \ {"idle", "install", "over"}
    /\ \E i \in DOMAIN Handlers[r] : Handlers[r][i] = u /\ run[r].was[i]

Ends(r) == [run[r] EXCEPT !.at = "over", !.idx = 0, !.was = NothingRan(r)]

Goto(r, at, idx) == run' = [run EXCEPT ![r].at = at, ![r].idx = idx]

\* Mutant: the loop over the services runs once too often.
StopFromOnceMore(r, i) == Goto(r, "stop", i)

\* Mutant: the first service of the list is not started again.
HookFromSkips(r, at, i) ==
    IF i <= Len(RunApps[r]) THEN Goto(r, at, i)
    ELSE IF at = "pre" THEN Goto(r, "copy", 0) ELSE Goto(r, "start", 2)

\* The stages that come after the i-th handler, or before the i-th hook.
StopFrom(r, i) == IF i = 0 THEN Goto(r, "pre", 1) ELSE Goto(r, "stop", i)

HookFrom(r, at, i) ==
    IF i <= Len(RunApps[r]) THEN Goto(r, at, i)
    ELSE IF at = "pre" THEN Goto(r, "copy", 0) ELSE Goto(r, "start", 1)

SetLocked(r, value) ==
    locked' = [a \in Apps |-> IF a \in AppsOf(r) THEN value ELSE locked[a]]

\* backup_apps: lock the apps and begin to stop services.  restore_apps sets
\* up apps first.
Begin(r) ==
    /\ run[r].at = "idle"
    /\ tasks < MaxTasks
    /\ tasks' = tasks + 1
    /\ IF r \in Restores
       THEN Goto(r, "install", 0) /\ UNCHANGED locked
       ELSE StopFrom(r, Len(Handlers[r])) /\ SetLocked(r, TRUE)
    /\ UNCHANGED <<daemonVars, lost, stuck>>

\* _install_apps_before_restore returns, or raises before anything is locked.
Install(r) ==
    /\ run[r].at = "install"
    /\ \/ /\ StopFrom(r, Len(Handlers[r]))
          /\ SetLocked(r, TRUE)
          /\ UNCHANGED <<daemonVars, historyVars>>
       \/ /\ Goto(r, "over", 0)
          /\ CallRaises
          /\ UNCHANGED <<task, raced, partial, locked, historyVars>>

\* SystemServiceHandler.stop and ApacheServiceHandler.stop: look, then stop.
StopLook(r) ==
    /\ run[r].at = "stop"
    /\ run' = [run EXCEPT ![r].at = "stopping",
                          ![r].was[run[r].idx] = running[Handlers[r][run[r].idx]]]
    /\ UNCHANGED <<daemonVars, locked, historyVars>>

\* Mutant: the loop over the services stops the last one only.
StopCallOnce(r) ==
    LET i == run[r].idx IN
    /\ run[r].at = "stopping"
    /\ IF run[r].was[i] /\ i = Len(Handlers[r])
       THEN StopUnit(Handlers[r][i]) ELSE UNCHANGED <<unitVars, failures>>
    /\ StopFrom(r, i - 1)
    /\ UNCHANGED <<task, raced, partial, locked, historyVars>>

\* A systemctl that fails is not noticed: the loop goes on, to the copy.
StopCall(r) ==
    LET i == run[r].idx IN
    /\ run[r].at = "stopping"
    /\ IF run[r].was[i] THEN StopUnit(Handlers[r][i]) ELSE UNCHANGED <<unitVars, failures>>
    /\ StopFrom(r, i - 1)
    /\ UNCHANGED <<task, raced, partial, locked, historyVars>>

\* What the run owes is lost, and its apps stay locked.
GivesUp(r, owed) ==
    /\ run' = [run EXCEPT ![r] = Ends(r)]
    /\ lost' = lost \cup owed
    /\ stuck' = stuck \cup AppsOf(r)
    /\ UNCHANGED <<task, raced, partial, locked, tasks>>

\* The call to stop a service raises.  _shutdown_services is outside the try
\* block: the exception leaves backup_apps at once.
StopRaises(r) ==
    /\ run[r].at = "stopping"
    /\ run[r].was[run[r].idx]
    /\ CallRaises
    /\ GivesUp(r, {u \in Units : Owes(r, u)})

-----------------------------------------------------------------------------
(* _run_hooks: an exception is noted in packet.errors and the loop goes on,*)
(* so a hook that fails is no different from one that returns.             *)

\* The hook of a borrows a unit: backup_pre to dump a database, restore_post
\* to read it back.
Borrows(r, at, a) ==
    HookUnit[a] # NoUnit /\ (at = "pre" <=> r \notin Restores)

Hook(r) ==
    LET at == run[r].at
        i == run[r].idx
    IN
    /\ at \in {"pre", "post"}
    /\ \/ /\ i \notin DOMAIN RunApps[r]
          /\ HookFrom(r, at, i)
          /\ UNCHANGED daemonVars
       \/ /\ i \in DOMAIN RunApps[r]
          /\ ~Borrows(r, at, RunApps[r][i])
          /\ HookFrom(r, at, i + 1)
          /\ UNCHANGED daemonVars
       \/ /\ i \in DOMAIN RunApps[r]
          /\ Borrows(r, at, RunApps[r][i])
          /\ \/ EnsureEnter(r, HookUnit[RunApps[r][i]])
             \/ EnsureEnterMissing(r, HookUnit[RunApps[r][i]])
          /\ Goto(r, IF at = "pre" THEN "prehook" ELSE "posthook", i)
    /\ UNCHANGED <<locked, historyVars>>

HookStep(r) ==
    /\ run[r].at \in {"prehook", "posthook"}
    /\ TaskStep(r)
    /\ UNCHANGED <<run, locked, historyVars>>

HookReturns(r) ==
    /\ run[r].at \in {"prehook", "posthook"}
    /\ task[r].at = "idle"
    /\ HookFrom(r, IF run[r].at = "prehook" THEN "pre" ELSE "post", run[r].idx + 1)
    /\ UNCHANGED <<daemonVars, locked, historyVars>>

\* Mutant: without the finally clause.
CopyNoFinally(r) ==
    /\ run[r].at = "copy"
    /\ \/ Goto(r, "post", 1) /\ UNCHANGED daemonVars
       \/ /\ Goto(r, "over", 0)
          /\ CallRaises
          /\ UNCHANGED <<task, raced, partial>>
    /\ UNCHANGED <<locked, historyVars>>

\* The handler, _backup_handler or one that restores: it returns, or raises
\* and the finally clause comes next.
Copy(r) ==
    /\ run[r].at = "copy"
    /\ \/ Goto(r, "post", 1) /\ UNCHANGED daemonVars
       \/ /\ Goto(r, "start", 1)
          /\ CallRaises
          /\ UNCHANGED <<task, raced, partial>>
    /\ UNCHANGED <<locked, historyVars>>

-----------------------------------------------------------------------------
(* The finally clause: _restore_services, then the apps are unlocked.      *)

\* was is cleared to tell what is still owed: a handler restarts once, and does
\* not notice that systemctl fails.
StartCall(r) ==
    LET i == run[r].idx IN
    /\ run[r].at = "start"
    /\ i \in DOMAIN Handlers[r]
    /\ IF run[r].was[i] THEN StartUnit(Handlers[r][i], r) ELSE UNCHANGED <<unitVars, failures>>
    /\ run' = [run EXCEPT ![r].idx = @ + 1, ![r].was[i] = FALSE]
    /\ UNCHANGED <<task, raced, partial, locked, historyVars>>

\* The call to start a service raises: the loop ends, the apps are not unlocked.
StartRaises(r) ==
    /\ run[r].at = "start"
    /\ run[r].idx \in DOMAIN Handlers[r]
    /\ run[r].was[run[r].idx]
    /\ CallRaises
    /\ GivesUp(r, {u \in Units : Owes(r, u)})

Unlock(r) ==
    /\ run[r].at = "start"
    /\ run[r].idx > Len(Handlers[r])
    /\ run' = [run EXCEPT ![r] = Ends(r)]
    /\ SetLocked(r, FALSE)
    /\ stuck' = stuck \ AppsOf(r)
    /\ UNCHANGED <<daemonVars, lost, tasks>>

-----------------------------------------------------------------------------
\* The service is restarted, which counts as a failure: its threads and
\* App.locked are gone, systemd units stay as they are.
Crash ==
    /\ failures < MaxFailures
    /\ failures' = failures + 1
    /\ lost' = lost \cup {u \in Units : \E r \in Runs : Owes(r, u)}
    /\ partial' = partial \cup ({task[t].app : t \in Threads} \cap Apps)
    /\ task' = [t \in Threads |-> Idle]
    /\ run' = [r \in Runs |->
                  IF run[r].at = "idle" THEN run[r]
                  ELSE Ends(r)]
    /\ locked' = [a \in Apps |-> FALSE]
    /\ stuck' = {}
    /\ UNCHANGED <<unitVars, raced, tasks>>

RunStep(r) ==
    \/ Install(r)
    \/ StopLook(r)
    \/ StopCall(r)
    \/ StopRaises(r)
    \/ Hook(r)
    \/ HookStep(r)
    \/ HookReturns(r)
    \/ Copy(r)
    \/ StartCall(r)
    \/ StartRaises(r)
    \/ Unlock(r)

\* A thread that enables or disables an app, or borrows a unit.
UserBegins(t) ==
    /\ tasks < MaxTasks
    /\ tasks' = tasks + 1
    /\ \E a \in Apps : \/ PressButton(t, a)
                       \/ /\ HookUnit[a] # NoUnit
                          /\ \/ EnsureEnter(t, HookUnit[a])
                             \/ EnsureEnterMissing(t, HookUnit[a])
    /\ UNCHANGED <<run, locked, lost, stuck>>

UserStep(t) ==
    /\ TaskStep(t)
    /\ UNCHANGED <<run, locked, historyVars>>

Next ==
    \/ \E r \in Runs : Begin(r) \/ RunStep(r)
    \/ \E t \in Threads \ Runs : UserBegins(t) \/ UserStep(t)
    \/ Crash

Spec == Init /\ [][Next]_vars

\* Runs that have begun go on; nobody has to press a button or begin a run.
FairSpec == Spec /\ \A r \in Runs : WF_vars(RunStep(r))

-----------------------------------------------------------------------------
(* Properties.                                                             *)

TypeOK ==
    /\ enabled \in [Units -> BOOLEAN]
    /\ running \in [Units -> BOOLEAN]
    /\ startedBy \in [Units -> Threads \cup {NoOne}]
    /\ wanted \in [Units -> BOOLEAN]
    /\ balked \cap Web = {}
    /\ \A t \in Threads :
          /\ task[t].at \in Places
          /\ task[t].app \in Apps \cup {NoUnit}
          /\ task[t].unit \in Units \cup {NoUnit}
    /\ raced \subseteq Units
    /\ partial \subseteq Apps
    /\ \A r \in Runs :
          /\ run[r].at \in Stages
          /\ run[r].was \in [DOMAIN Handlers[r] -> BOOLEAN]
          /\ run[r].at \in {"stop", "stopping"} => run[r].idx \in DOMAIN Handlers[r]
    /\ locked \in [Apps -> BOOLEAN]
    /\ lost \subseteq Units
    /\ stuck \subseteq Apps
    /\ failures \in 0..MaxFailures
    /\ tasks \in 0..MaxTasks

\* No service is lost: a unit that was last enabled and is off, a web server
\* configuration included, will be started by a run that is under way, whatever
\* runs overlap, hooks or handlers fail and users do.  The exceptions are a call
\* of the run that raises, a restart of FreedomBox, and a systemctl that failed
\* unnoticed, in the state it left.
NoServiceLost ==
    \A u \in Units :
        (wanted[u] /\ ~running[u]) =>
            u \in lost \cup balked \/ \E r \in Runs : Owes(r, u)

\* Files are copied while the services that write them are stopped: a service
\* that runs all the same was started by somebody else since, or systemctl
\* failed to stop it, which no run notices.
QuietCopy ==
    \A r \in Runs : run[r].at = "copy" =>
        \A u \in Range(Handlers[r]) :
            (running[u] /\ u \notin balked) => startedBy[u] \notin {NoOne, r}

\* An app does not stay locked: it is locked on behalf of a run that is under
\* way, or of one whose call to stop or start a service raised.
LocksReleased ==
    \A a \in Apps : locked[a] =>
        \/ a \in stuck
        \/ \E r \in Runs : a \in AppsOf(r) /\ run[r].at \notin {"idle", "install", "over"}

\* A shared daemon is on for every enabled app that uses it, however apps are
\* enabled, disabled and set up and backed up one after another: only threads
\* that work on the daemon at the same time can take it away, and an app whose
\* last change raised, or had a systemctl fail unnoticed, may lack it.
SharedKept ==
    \A a \in Apps :
        (IsEnabled(a) /\ a \notin partial /\ \A t \in Threads : task[t].app # a)
            => \A s \in UnitsOf(a) \cap Shared : enabled[s] \/ s \in raced

\* What runs have stopped is eventually started again, even if a user disables
\* it meanwhile: a service that was last enabled and is off comes back, unless
\* a call of the run that owes it raises, FreedomBox restarts or systemctl fails.
EventuallyRestored ==
    \A u \in UNION {Range(Handlers[r]) : r \in Runs} :
        (wanted[u] /\ ~running[u]) ~> (running[u] \/ u \in lost \cup balked)

=============================================================================
