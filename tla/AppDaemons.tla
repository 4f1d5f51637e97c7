----------------------------- MODULE AppDaemons -----------------------------
(***************************************************************************)
(* plinth/app.py (enabling and disabling an app), plinth/daemon.py         *)
(* (Daemon, SharedDaemon, ensure_running), modules/apache/components.py    *)
(* (Webserver) and the privileged calls they make.                         *)
(*                                                                         *)
(* An app has components in an order.  A component stands for a unit:      *)
(* a systemd unit, or a configuration of the web server.  Threads (of      *)
(* requests, of domain events) enable and disable apps, and borrow units   *)
(* with ensure_running.  One privileged call is one step; nothing keeps    *)
(* the threads from running side by side.                                  *)
(***************************************************************************)
EXTENDS Naturals, Sequences

CONSTANTS
    Apps,       \* apps that are set up
    Units,      \* systemd units and web server configurations
    Web,        \* the units that are web server configurations
    Shared,     \* the units held by SharedDaemon components
    Components, \* Components[a]: the units of the components of a, in order
    Threads,    \* threads that work on apps
    NoUnit,     \* a value that is no unit
    NoOne,      \* a value that is no thread
    MaxFailures \* how many privileged calls and systemctl commands may fail

ASSUME AppDaemonsAssumption ==
    /\ Components \in [Apps -> Seq(Units)]
    /\ Web \subseteq Units
    /\ Shared \subseteq Units \ Web
    /\ NoUnit \notin Units
    /\ NoOne \notin Threads
    /\ MaxFailures \in Nat

VARIABLES
    enabled,    \* systemctl is-enabled, or the web configuration is enabled
    running,    \* systemctl status, or the web configuration is enabled
    startedBy,  \* history: who started a unit since it last stopped
    wanted,     \* history: of enable and disable, enable was called last
    balked,     \* history: units that are as a failed systemctl left them
    task,       \* what each thread is doing
    raced,      \* history: units that two threads worked on at the same time
    partial,    \* history: apps whose last change was broken off or failed in part
    failures    \* privileged calls and systemctl commands that failed

unitVars == <<enabled, running, startedBy, wanted, balked>>

Idle == [at |-> "idle", app |-> NoUnit, unit |-> NoUnit, idx |-> 0, found |-> FALSE]

\* Where a thread can be.  enable, disable: in the loop over the components;
\* last: SharedDaemon.disable found no other app; borrow: ensure_running has
\* looked at the unit; using: in its with block.
Places == {"idle", "enable", "disable", "last", "borrow", "using"}

UnitsOf(a) == {Components[a][i] : i \in DOMAIN Components[a]}

\* Component.is_enabled for the leader components: a SharedDaemon is none.
IsEnabled(a) == \A u \in UnitsOf(a) \ Shared : enabled[u]

-----------------------------------------------------------------------------
(* privileged/service.py: start, stop, enable, disable; for the web server *)
(* modules/apache/privileged.py, where enabling is all there is.  For a    *)
(* systemd unit systemctl runs with check=False: when it fails the call    *)
(* returns like one that succeeded, and only history knows.                *)

Bring(u, value, who) ==
    /\ running' = [running EXCEPT ![u] = value]
    /\ startedBy' = IF running[u] = value THEN startedBy
                    ELSE [startedBy EXCEPT ![u] = IF value THEN who ELSE NoOne]

Succeeds(u) ==
    /\ balked' = IF running'[u] = running[u] THEN balked ELSE balked \ {u}
    /\ UNCHANGED failures

Balks(u) ==
    /\ u \notin Web
    /\ failures < MaxFailures
    /\ failures' = failures + 1
    /\ balked' = balked \cup {u}

SetEnabled(u, value) == enabled' = [enabled EXCEPT ![u] = value]

StartUnit(u, who) ==
    /\ \/ /\ Bring(u, TRUE, who)
          /\ SetEnabled(u, enabled[u] \/ u \in Web)
          /\ Succeeds(u)
       \/ Balks(u) /\ UNCHANGED <<enabled, running, startedBy>>
    /\ UNCHANGED wanted

StopUnit(u) ==
    /\ \/ /\ Bring(u, FALSE, NoOne)
          /\ SetEnabled(u, enabled[u] /\ u \notin Web)
          /\ Succeeds(u)
       \/ Balks(u) /\ UNCHANGED <<enabled, running, startedBy>>
    /\ UNCHANGED wanted

\* systemctl enable, then systemctl start: each may fail without the other.
EnableUnit(u, who) ==
    /\ \/ Bring(u, TRUE, who) /\ SetEnabled(u, TRUE) /\ Succeeds(u)
       \/ \E v \in {running[u], TRUE}, e \in {enabled[u], TRUE} :
             Bring(u, v, who) /\ SetEnabled(u, e) /\ Balks(u)
    /\ wanted' = [wanted EXCEPT ![u] = TRUE]

DisableUnit(u) ==
    /\ \/ Bring(u, FALSE, NoOne) /\ SetEnabled(u, FALSE) /\ Succeeds(u)
       \/ \E v \in {running[u], FALSE}, e \in {enabled[u], FALSE} :
             Bring(u, v, NoOne) /\ SetEnabled(u, e) /\ Balks(u)
    /\ wanted' = [wanted EXCEPT ![u] = FALSE]

\* A call raises: the privileged daemon is not reached or refuses, or a2enconf
\* or a2disconf, which run with check=True, fails.
CallRaises ==
    /\ failures < MaxFailures
    /\ failures' = failures + 1
    /\ UNCHANGED unitVars

-----------------------------------------------------------------------------
(* History: a unit is raced when a thread takes it up while another has    *)
(* not finished with it.                                                   *)

\* The units the task of a thread is about.
Touches(tk) ==
    {u \in Units :
        \/ tk.at \in {"enable", "disable", "last"} /\ u \in UnitsOf(tk.app)
        \/ tk.at \in {"borrow", "using"} /\ u = tk.unit}

\* A thread takes up a task, a change of an app or another.
Take(t, tk) ==
    /\ task' = [task EXCEPT ![t] = tk]
    /\ raced' = raced \cup UNION {Touches(tk) \cap Touches(task[o]) : o \in Threads \ {t}}
    /\ partial' = partial \ {tk.app}

\* The task goes on.  A systemctl that has just failed spoils it.
Move(t, tk) ==
    /\ task' = [task EXCEPT ![t] = tk]
    /\ raced' = raced
    /\ partial' = IF failures' = failures THEN partial
                  ELSE partial \cup ({task[t].app} \cap Apps)

\* The task is complete ...
Leave(t) == Move(t, Idle)

\* ... or an exception ends it.
BreakOff(t) ==
    /\ CallRaises
    /\ Move(t, Idle)

-----------------------------------------------------------------------------
(* The enable and disable button of an app page.                           *)

\* AppView: nothing is done unless the state of the app changes.
PressButton(t, a) ==
    /\ task[t].at = "idle"
    /\ Take(t, IF IsEnabled(a)
               THEN [Idle EXCEPT !.at = "disable", !.app = a, !.idx = Len(Components[a])]
               ELSE [Idle EXCEPT !.at = "enable", !.app = a, !.idx = 1])
    /\ UNCHANGED <<unitVars, failures>>

\* App.enable calls enable of one component after another.
EnableComponent(t) ==
    LET tk == task[t] IN
    /\ tk.at = "enable"
    /\ tk.idx \in DOMAIN Components[tk.app]
    /\ \/ /\ EnableUnit(Components[tk.app][tk.idx], t)
          /\ IF tk.idx = Len(Components[tk.app])
             THEN Leave(t)
             ELSE Move(t, [tk EXCEPT !.idx = @ + 1])
       \/ BreakOff(t)

\* The next component of a disable loop, which runs backwards.
DisableNext(t, tk) ==
    IF tk.idx = 1 THEN Leave(t)
    ELSE Move(t, [tk EXCEPT !.at = "disable", !.idx = @ - 1])

\* Mutant: the other app is asked whether the shared unit is its only one.
OtherAppsEnabledAlone(a, u) ==
    \E other \in Apps \ {a} : UnitsOf(other) = {u} /\ IsEnabled(other)

\* SharedDaemon.disable: is there another app that uses the unit?
OtherAppsEnabled(a, u) ==
    \E other \in Apps \ {a} : u \in UnitsOf(other) /\ IsEnabled(other)

\* A component is disabled; for a SharedDaemon the other apps are looked at
\* first, and the call to disable the unit comes after that.
DisableComponent(t) ==
    LET tk == task[t]
        u == Components[tk.app][tk.idx]
    IN
    /\ tk.at = "disable"
    /\ tk.idx \in DOMAIN Components[tk.app]
    /\ \/ /\ u \notin Shared
          /\ DisableUnit(u)
          /\ DisableNext(t, tk)
       \/ /\ u \notin Shared
          /\ BreakOff(t)
       \/ /\ u \in Shared
          /\ UNCHANGED <<unitVars, failures>>
          /\ IF OtherAppsEnabled(tk.app, u)
             THEN DisableNext(t, tk)
             ELSE Move(t, [tk EXCEPT !.at = "last"])

DisableShared(t) ==
    /\ task[t].at = "last"
    /\ \/ /\ DisableUnit(Components[task[t].app][task[t].idx])
          /\ DisableNext(t, task[t])
       \/ BreakOff(t)

-----------------------------------------------------------------------------
(* Daemon.ensure_running, entered by the thread t for the unit u.  The     *)
(* setup of an app, a changed domain and the hooks of backups use it.      *)

EnsureEnter(t, u) ==
    /\ task[t].at = "idle"
    /\ Take(t, [Idle EXCEPT !.at = "borrow", !.unit = u, !.found = running[u]])
    /\ UNCHANGED <<unitVars, failures>>

\* LoadState is not-found: the package of a unit that is off is not installed.
\* The unit is left alone to the end, as one that was found running is.
EnsureEnterMissing(t, u) ==
    /\ task[t].at = "idle"
    /\ ~running[u] /\ ~enabled[u]
    /\ Take(t, [Idle EXCEPT !.at = "borrow", !.unit = u, !.found = TRUE])
    /\ UNCHANGED <<unitVars, failures>>

EnsureEnable(t) ==
    LET tk == task[t] IN
    /\ tk.at = "borrow"
    /\ \/ /\ tk.found
          /\ UNCHANGED <<unitVars, failures>>
          /\ Move(t, [tk EXCEPT !.at = "using"])
       \/ /\ ~tk.found
          /\ EnableUnit(tk.unit, t)
          /\ Move(t, [tk EXCEPT !.at = "using"])
       \/ ~tk.found /\ BreakOff(t)

\* The finally clause: the unit is disabled again if it had to be enabled.
EnsureExit(t) ==
    LET tk == task[t] IN
    /\ tk.at = "using"
    /\ \/ /\ tk.found
          /\ UNCHANGED <<unitVars, failures>>
          /\ Leave(t)
       \/ /\ ~tk.found
          /\ DisableUnit(tk.unit)
          /\ Leave(t)
       \/ ~tk.found /\ BreakOff(t)

TaskStep(t) ==
    \/ EnableComponent(t)
    \/ DisableComponent(t)
    \/ DisableShared(t)
    \/ EnsureEnable(t)
    \/ EnsureExit(t)

-----------------------------------------------------------------------------
\* A machine on which what is enabled runs, the units of an app are enabled
\* together and a shared daemon is on when an app that uses it is.
DaemonsInit ==
    /\ enabled \in [Units -> BOOLEAN]
    /\ \A a \in Apps : \A u, v \in UnitsOf(a) \ Shared : enabled[u] = enabled[v]
    /\ \A s \in Shared : enabled[s] <=> \E a \in Apps : s \in UnitsOf(a) /\ IsEnabled(a)
    /\ running = enabled
    /\ startedBy = [u \in Units |-> NoOne]
    /\ wanted = enabled
    /\ balked = {}
    /\ task = [t \in Threads |-> Idle]
    /\ raced = {}
    /\ partial = {}
    /\ failures = 0

=============================================================================
