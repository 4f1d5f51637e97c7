----------------------------- MODULE DistUpgrade -----------------------------
(***************************************************************************)
(* plinth/modules/upgrades and what it shares with the installation of     *)
(* packages: the upgrade to the next Debian release, its interruption and  *)
(* continuation, and the hold on the freedombox package.                   *)
(*                                                                         *)
(* The upgrade is asked for in a systemd unit of its own, in which a        *)
(* modified sources.list is mounted over the original.  All that runs in   *)
(* the unit is a client: distupgrade.perform and apt run in the privileged *)
(* daemon and see the original.  At the end another unit commits the file. *)
(* Meanwhile the web service installs and removes packages, which takes    *)
(* and gives back the same hold, and runs updates, repairs and upgrades.   *)
(***************************************************************************)
EXTENDS Naturals

CONSTANTS
    Dated,      \* the last release in distribution_info with a release date
    Last,       \* the last release of all
    AtFirst,    \* whether apt snapshots and quasselcore may be enabled, in pairs
    MaxWork     \* how many crashes, failures and requests by users there are

\* Releases are numbered from the one that is installed first.
ASSUME UpgradeAssumption ==
    /\ Dated \in Nat /\ Last \in Nat \ {0} /\ Dated <= Last
    /\ AtFirst \subseteq BOOLEAN \X BOOLEAN
    /\ MaxWork \in Nat

Releases == 0..Last

\* upgrade: distupgrade.perform; web: install and remove in
\* privileged/packages.py; root: other privileged methods, one at a time.
Procs == {"upgrade", "web", "root"}

VARIABLES
    base,       \* the release base-files belongs to
    sources,    \* the release that sources.list names
    named,      \* it names it by codename and not as stable
    lists,      \* the release in the package lists of apt
    temp,       \* sources.list.fbx-dist-upgrade; 0 when there is no such file
    rewritten,  \* history: the file was changed that an upgrade is to commit
    able,       \* automatic updates are on and there is enough free space
    allowed,    \* is_dist_upgrade_enabled
    hold,       \* freedombox is held
    flag,       \* apt_hold_flag exists
    prompts,    \* PACKAGES_WITH_PROMPTS are held
    snaps,      \* apt snapshots are enabled
    quassel,    \* quasselcore is enabled and runs
    unit,       \* the unit of the upgrade: none, active or failed
    pc,         \* where each process is
    then,       \* what the privileged method has yet to do: run or start
    found,      \* current_hold: the process found freedombox held, and is inside
    undo,       \* what the upgrade has to put back
    failed,     \* an exception is on its way out of perform
    apt,        \* who runs apt, or free
    done,       \* the on-complete unit: none, runs or failed
    before,     \* history: the first values of snaps and quassel
    left,       \* history: which of the two could not be put back
    admin,      \* history: the administrator holds freedombox
    crossed,    \* history: holders of freedombox got in each other's way
    cut,        \* history: an upgrade was cut off by a crash
    work        \* events so far, at most MaxWork

system == <<base, sources, named, lists, temp, rewritten, able, allowed>>
holds == <<hold, flag, found, admin, crossed>>
others == <<prompts, snaps, quassel, undo>>
procs == <<unit, then, failed, apt, done>>
history == <<before, left, cut, work>>
vars == <<pc, system, holds, others, procs, history>>

Nothing == [snaps |-> FALSE, quassel |-> FALSE, prompts |-> FALSE]

Init ==
    /\ base = 0 /\ sources = 0 /\ lists = 0 /\ temp = 0
    /\ named \in BOOLEAN
    /\ able = TRUE /\ allowed = TRUE /\ rewritten = FALSE
    /\ hold \in BOOLEAN /\ admin = hold
    /\ flag = FALSE /\ prompts = FALSE
    /\ before \in AtFirst
    /\ snaps = before[1] /\ quassel = before[2]
    /\ unit = "none"
    /\ pc = [p \in Procs |-> "away"]
    /\ then = "run"
    /\ found = [p \in Procs |-> FALSE]
    /\ undo = Nothing
    /\ failed = FALSE /\ apt = "free" /\ done = "none"
    /\ left = {} /\ crossed = FALSE /\ cut = FALSE /\ work = 0

Goes(p, place) == pc' = [pc EXCEPT ![p] = place]

Works == work < MaxWork /\ work' = work + 1

-----------------------------------------------------------------------------
(* apt_hold_freedombox, for the upgrade and for the web service.           *)

\* Where a process is that has entered apt_hold_freedombox and not left it.
Holding == {"flag", "mark", "prompts", "update", "full", "autoremove",
            "unprompt", "work", "unmark", "unflag"}

\* Where it goes on with the hold, and without it.
Inside(p) == IF p = "upgrade" THEN "prompts" ELSE "work"

After(p) ==
    IF p = "upgrade" THEN "restore"
    ELSE IF p = "root" /\ then = "start" THEN "list" ELSE "away"

\* Another process depends on the hold.
Crosses(p) == \E q \in Procs \ {p} : pc[q] \in Holding

LookForHold(p) ==
    /\ pc[p] = "look"
    /\ found' = [found EXCEPT ![p] = hold]
    /\ Goes(p, IF hold THEN Inside(p) ELSE "flag")
    /\ UNCHANGED <<system, hold, flag, admin, crossed, others, procs, history>>

\* For mutants of TouchFlag: the hold leaves no trace.
TouchFlagNever(p) ==
    /\ pc[p] = "flag"
    /\ Goes(p, "mark")
    /\ UNCHANGED <<system, holds, others, procs, history>>

\* The flag is written before the hold is set.
TouchFlag(p) ==
    /\ pc[p] = "flag"
    /\ flag' = TRUE
    /\ Goes(p, "mark")
    /\ UNCHANGED <<system, hold, found, admin, crossed, others, procs, history>>

\* apt-mark hold, which may fail while apt runs.
Mark(p) ==
    /\ pc[p] = "mark"
    /\ \/ /\ hold' = TRUE
          /\ Goes(p, Inside(p))
          /\ UNCHANGED failed
       \/ /\ apt # "free"
          /\ Goes(p, "unmark")
          /\ failed' = (failed \/ p = "upgrade")
          /\ UNCHANGED hold
    /\ UNCHANGED <<system, flag, found, admin, crossed, others, unit, then, apt,
                   done, history>>

\* The finally clause of apt_hold_freedombox, and apt_unhold_freedombox: a hold
\* that was found and is not by FreedomBox stays.  apt-mark unhold is not
\* checked; it may fail while apt runs.
Unmark(p) ==
    /\ pc[p] = "unmark"
    /\ \/ /\ found[p] /\ ~flag
          /\ Goes(p, After(p))
          /\ UNCHANGED <<hold, crossed>>
       \/ /\ ~found[p] \/ flag
          /\ hold' \in IF apt = "free" THEN {FALSE} ELSE {FALSE, hold}
          /\ crossed' = (crossed \/ Crosses(p))
          /\ Goes(p, "unflag")
    /\ found' = [found EXCEPT ![p] = FALSE]
    /\ UNCHANGED <<system, flag, admin, others, procs, history>>

Unflag(p) ==
    /\ pc[p] = "unflag"
    /\ flag' = FALSE
    /\ crossed' = (crossed \/ Crosses(p))
    /\ Goes(p, After(p))
    /\ UNCHANGED <<system, hold, found, admin, others, procs, history>>

HoldStep(p) ==
    LookForHold(p) \/ TouchFlag(p) \/ Mark(p) \/ Unmark(p) \/ Unflag(p)

-----------------------------------------------------------------------------
(* packages.install and packages.remove.                                   *)

WebBegins ==
    /\ pc["web"] = "away"
    /\ Works
    /\ Goes("web", "look")
    /\ UNCHANGED <<system, holds, others, procs, before, left, cut>>

\* For mutants of WebInstalls: the hold is given back while apt-get runs.
WebInstallsInBackground ==
    /\ pc["web"] = "work"
    /\ apt' = IF apt = "free" THEN "web" ELSE apt
    /\ Goes("web", "unmark")
    /\ UNCHANGED <<system, holds, others, unit, then, failed, done, history>>

\* apt-get runs, or finds that somebody else runs it; either way the hold is
\* given back before the result is looked at.
WebInstalls ==
    /\ pc["web"] = "work"
    /\ \/ apt = "free" /\ apt' = "web" /\ UNCHANGED pc
       \/ apt = "web" /\ apt' = "free" /\ Goes("web", "unmark")
       \/ apt = "upgrade" /\ Goes("web", "unmark") /\ UNCHANGED apt
    /\ UNCHANGED <<system, holds, others, unit, then, failed, done, history>>

-----------------------------------------------------------------------------
(* Starting an upgrade.                                                    *)

\* service_is_running('freedombox-dist-upgrade').
Running == unit = "active"

Current == IF named THEN sources ELSE base

\* For mutants of NextAction: an upgrade that was cut off is like a new one.
NextActionForgets ==
    IF Running \/ Current = Last \/ Current + 1 > Dated \/ ~able \/ ~allowed
    THEN "none" ELSE "ready"

\* get_status, for a system with upgrades enabled and with every release date
\* more than wait_period_after_release ago.
NextAction ==
    IF Running \/ Current = Last THEN "none"
    ELSE IF base = Current + 1 THEN "continue"
    ELSE IF Current + 1 > Dated \/ ~able \/ ~allowed THEN "none"
    ELSE "ready"

\* A privileged method starts.
RootBegins(what, place) ==
    /\ pc["root"] = "away"
    /\ then' = what
    /\ Goes("root", place)
    /\ UNCHANGED <<system, holds, others, unit, failed, apt, done, before, left, cut>>

\* check_dist_upgrade, once a day.
DailyCheck ==
    /\ allowed
    /\ NextAction \in {"continue", "ready"}
    /\ RootBegins("start", "release")
    /\ UNCHANGED work

\* DistUpgradeConfirmView.post, which does not look at the next action: the
\* page may have been loaded a while ago.
Confirmed ==
    /\ Works
    /\ RootBegins("start", "release")

\* privileged.run: a manual update.
ManualRun ==
    /\ Works
    /\ RootBegins("run", "release")

\* _release_held_freedombox: the hold of a process that was cut off.
ReleaseHeld ==
    /\ pc["root"] = "release"
    /\ Goes("root", IF flag /\ apt = "free" THEN "unmark" ELSE After("root"))
    /\ UNCHANGED <<system, holds, others, procs, history>>

\* An upgrade, or the end of one, is to commit the new sources.list.
ToCommit == pc["upgrade"] # "away" \/ done = "runs"

\* start_service looks at the status again and writes the new sources.list,
\* whether an upgrade runs or not; on the last release there is no next codename.
UpdateSources ==
    /\ pc["root"] = "list"
    /\ \/ /\ Current = Last
          /\ Goes("root", "away")
          /\ UNCHANGED <<temp, rewritten>>
       \/ /\ Current # Last
          /\ temp' = Current + 1
          /\ rewritten' = (rewritten \/ (ToCommit /\ temp' # temp))
          /\ Goes("root", "launch")
    /\ then' = "run"
    /\ UNCHANGED <<base, sources, named, lists, able, allowed, holds, others, unit,
                   failed, apt, done, history>>

\* systemd-run.  It fails while there is a unit of this name, also one that has
\* failed and was not reset since; the unit fails when there is no file to mount.
\* Otherwise the client in it calls perform.
Launch ==
    /\ pc["root"] = "launch"
    /\ \/ /\ unit # "none"
          /\ Goes("root", "away")
          /\ UNCHANGED unit
       \/ /\ unit = "none" /\ temp = 0
          /\ unit' = "failed"
          /\ Goes("root", "away")
       \/ /\ unit = "none" /\ temp # 0
          /\ pc["upgrade"] = "away"
          /\ unit' = "active"
          /\ pc' = [pc EXCEPT !["root"] = "away", !["upgrade"] = "begin"]
    /\ UNCHANGED <<system, holds, others, then, failed, apt, done, history>>

\* For mutants of Repair: whether an upgrade runs is not looked at.
RepairAnytime ==
    /\ pc["root"] = "away"
    /\ hold \/ prompts
    /\ apt = "free"
    /\ Works
    /\ hold' = FALSE /\ admin' = FALSE /\ prompts' = FALSE
    /\ UNCHANGED <<pc, system, flag, found, crossed, snaps, quassel, undo, procs,
                   before, left, cut>>

\* Diagnostics find packages held, and release_held_packages releases them,
\* unless the package manager is busy or an upgrade runs.  The flag stays.
Repair ==
    /\ pc["root"] = "away"
    /\ hold \/ prompts
    /\ apt = "free" /\ ~Running
    /\ Works
    /\ hold' = FALSE /\ admin' = FALSE /\ prompts' = FALSE
    /\ crossed' = (crossed \/ Crosses("root"))
    /\ UNCHANGED <<pc, system, flag, found, snaps, quassel, undo, procs,
                   before, left, cut>>

-----------------------------------------------------------------------------
(* distupgrade.perform.                                                    *)

\* perform returns or raises, and the client in the unit with it.
Ends(outcome) ==
    /\ Goes("upgrade", "away")
    /\ unit' = IF Running THEN outcome ELSE unit
    /\ failed' = FALSE

\* _snapshot_run_and_disable: snapper may fail.
SnapshotsOff ==
    /\ pc["upgrade"] = "begin"
    /\ \/ /\ snaps' = FALSE
          /\ undo' = [undo EXCEPT !.snaps = snaps]
          /\ Goes("upgrade", "stop")
          /\ UNCHANGED <<unit, failed, work>>
       \/ Works /\ Ends("failed") /\ UNCHANGED <<snaps, undo>>
    /\ UNCHANGED <<system, holds, prompts, quassel, then, apt, done, before,
                   left, cut>>

\* _services_disable: whether systemctl succeeds is not looked at.
QuasselOff ==
    /\ pc["upgrade"] = "stop"
    /\ \/ quassel' = FALSE /\ UNCHANGED work
       \/ quassel /\ Works /\ UNCHANGED quassel
    /\ undo' = [undo EXCEPT !.quassel = quassel]
    /\ Goes("upgrade", "look")
    /\ UNCHANGED <<system, holds, prompts, snaps, procs, before, left, cut>>

\* apt_hold for packages that are not held yet; one that cannot be held is
\* left.
HoldPrompts ==
    /\ pc["upgrade"] = "prompts"
    /\ prompts' \in IF apt = "free" THEN {TRUE} ELSE {prompts, TRUE}
    /\ undo' = [undo EXCEPT !.prompts = prompts' /\ ~prompts]
    /\ Goes("upgrade", "update")
    /\ UNCHANGED <<system, holds, snaps, quassel, procs, history>>

\* _apt_run begins, or finds the package manager busy, which is an error.
AptBegins ==
    /\ pc["upgrade"] \in {"update", "full", "autoremove"}
    /\ \/ /\ apt = "free"
          /\ apt' = "upgrade"
          /\ UNCHANGED <<pc, failed>>
       \/ /\ apt = "web"
          /\ failed' = TRUE
          /\ Goes("upgrade", "unprompt")
          /\ UNCHANGED apt
    /\ UNCHANGED <<system, holds, others, unit, then, done, history>>

\* What the original sources.list offers; the mounted one is not seen by apt.
\* stable is the last release that has come out.
Offered == IF named THEN sources ELSE Dated

\* In the course of full-upgrade the release changes.
BaseChanges ==
    /\ pc["upgrade"] = "full" /\ apt = "upgrade"
    /\ base < Offered
    /\ base' = Offered
    /\ UNCHANGED <<pc, sources, named, lists, temp, rewritten, able, allowed, holds,
                   others, procs, history>>

\* apt ends.  update stands for update, fix-broken and the removal of obsolete
\* packages.  Any of them may fail.
AptEnds ==
    /\ pc["upgrade"] \in {"update", "full", "autoremove"} /\ apt = "upgrade"
    /\ apt' = "free"
    /\ \/ /\ pc["upgrade"] = "full" /\ lists = Offered => base >= lists
          /\ lists' = IF pc["upgrade"] = "update" THEN Offered ELSE lists
          /\ Goes("upgrade", CASE pc["upgrade"] = "update" -> "full"
                               [] pc["upgrade"] = "full" -> "autoremove"
                               [] pc["upgrade"] = "autoremove" -> "unprompt")
          /\ UNCHANGED <<failed, work>>
       \/ /\ Works
          /\ failed' = TRUE
          /\ Goes("upgrade", "unprompt")
          /\ UNCHANGED lists
    /\ UNCHANGED <<base, sources, named, temp, rewritten, able, allowed, holds,
                   others, unit, then, done, before, left, cut>>

\* The finally clause of apt_hold: a failure is raised, and the outer context
\* managers are left all the same.
UnholdPrompts ==
    /\ pc["upgrade"] = "unprompt"
    /\ \/ /\ prompts' = (prompts /\ ~undo.prompts)
          /\ UNCHANGED <<failed, crossed>>
       \/ /\ apt # "free" /\ undo.prompts
          /\ failed' = TRUE
          /\ crossed' = TRUE
          /\ UNCHANGED prompts
    /\ undo' = [undo EXCEPT !.prompts = FALSE]
    /\ Goes("upgrade", "unmark")
    /\ UNCHANGED <<system, hold, flag, found, admin, snaps, quassel, unit, then,
                   apt, done, history>>

\* For mutants of QuasselBack: without finally, a failure leaves it as it is.
QuasselBackOnSuccess ==
    /\ pc["upgrade"] = "restore"
    /\ quassel' = (quassel \/ (undo.quassel /\ ~failed))
    /\ undo' = [undo EXCEPT !.quassel = FALSE]
    /\ Goes("upgrade", "resnap")
    /\ UNCHANGED <<system, holds, prompts, snaps, procs, history>>

\* service_ensure_stopped is left; whether systemctl succeeds is not looked at.
QuasselBack ==
    /\ pc["upgrade"] = "restore"
    /\ \/ quassel' = (quassel \/ undo.quassel) /\ UNCHANGED <<left, work>>
       \/ /\ undo.quassel /\ ~quassel
          /\ Works
          /\ left' = left \cup {"quassel"}
          /\ UNCHANGED quassel
    /\ undo' = [undo EXCEPT !.quassel = FALSE]
    /\ Goes("upgrade", "resnap")
    /\ UNCHANGED <<system, holds, prompts, snaps, procs, before, cut>>

\* For mutants of SnapshotsBack: a failure is swallowed in the context manager.
SnapshotsBackAndFinish ==
    /\ pc["upgrade"] = "resnap"
    /\ snaps' = (snaps \/ undo.snaps)
    /\ undo' = [undo EXCEPT !.snaps = FALSE]
    /\ Goes("upgrade", "finish")
    /\ UNCHANGED <<system, holds, prompts, quassel, procs, history>>

\* _snapshot_run_and_disable is left, and after a failure perform, too.  To
\* enable the snapshots again may fail, and then perform fails.
SnapshotsBack ==
    /\ pc["upgrade"] = "resnap"
    /\ \/ /\ snaps' = (snaps \/ undo.snaps)
          /\ IF failed THEN Ends("failed")
             ELSE Goes("upgrade", "finish") /\ UNCHANGED <<unit, failed>>
          /\ UNCHANGED <<left, work>>
       \/ /\ undo.snaps
          /\ Works
          /\ left' = left \cup {"snaps"}
          /\ Ends("failed")
          /\ UNCHANGED snaps
    /\ undo' = [undo EXCEPT !.snaps = FALSE]
    /\ UNCHANGED <<system, holds, prompts, quassel, then, apt, done, before, cut>>

\* unattended-upgrade upgrades what was held; then the on-complete unit is
\* started, unless there is one of this name already.
TriggerOnComplete ==
    /\ pc["upgrade"] = "finish"
    /\ \/ /\ done = "none"
          /\ done' = "runs"
          /\ Ends("none")
       \/ /\ done # "none"
          /\ Ends("failed")
          /\ UNCHANGED done
    /\ UNCHANGED <<system, holds, others, then, apt, history>>

\* on_complete renames the file, and fails if it is gone.
OnComplete ==
    /\ done = "runs"
    /\ \/ /\ temp # 0
          /\ sources' = temp /\ named' = TRUE /\ temp' = 0
          /\ done' = "none"
       \/ /\ temp = 0
          /\ done' = "failed"
          /\ UNCHANGED <<sources, named, temp>>
    /\ UNCHANGED <<pc, base, lists, rewritten, able, allowed, holds, others, unit,
                   then, failed, apt, history>>

UpgradeStep ==
    \/ SnapshotsOff \/ QuasselOff \/ HoldStep("upgrade") \/ HoldPrompts
    \/ AptBegins \/ BaseChanges \/ AptEnds \/ UnholdPrompts \/ QuasselBack
    \/ SnapshotsBack \/ TriggerOnComplete

WebStep == HoldStep("web") \/ WebInstalls

RootStep == ReleaseHeld \/ Unmark("root") \/ Unflag("root") \/ UpdateSources \/ Launch

-----------------------------------------------------------------------------
(* The machine stops, or only the privileged daemon and what it runs;      *)
(* files, holds and what is enabled stay.                                  *)

\* Neither a failed unit nor one that is active outlives the machine.
MachineStops == unit' = "none" /\ done' = "none"

\* The clients in the units are told that the connection is gone.
DaemonStops ==
    /\ unit' = IF Running THEN "failed" ELSE unit
    /\ done' \in IF done = "runs" THEN {"runs", "failed"} ELSE {done}

Crash ==
    /\ \E p \in Procs : pc[p] # "away"
    /\ Works
    /\ MachineStops \/ DaemonStops
    /\ pc' = [p \in Procs |-> "away"]
    /\ then' = "run" /\ apt' = "free" /\ failed' = FALSE
    /\ found' = [p \in Procs |-> FALSE]
    /\ undo' = Nothing
    /\ cut' = (cut \/ pc["upgrade"] # "away")
    /\ UNCHANGED <<system, hold, flag, admin, crossed, prompts, snaps, quassel,
                   before, left>>

\* The unit is stopped by hand: perform goes on in the privileged daemon.
UnitEnds ==
    /\ Running
    /\ Works
    /\ unit' = "none"
    /\ UNCHANGED <<pc, system, holds, others, then, failed, apt, done, before,
                   left, cut>>

\* Somebody turns automatic updates or upgrades off, or the disk fills up.
Unable ==
    /\ Works
    /\ \/ able /\ able' = FALSE /\ UNCHANGED allowed
       \/ allowed /\ allowed' = FALSE /\ UNCHANGED able
    /\ UNCHANGED <<pc, base, sources, named, lists, temp, rewritten, holds, others,
                   procs, before, left, cut>>

Next ==
    \/ UpgradeStep \/ OnComplete
    \/ WebBegins \/ WebStep
    \/ DailyCheck \/ Confirmed \/ ManualRun \/ RootStep \/ Repair
    \/ Crash \/ UnitEnds \/ Unable

Spec == Init /\ [][Next]_vars

\* What was started goes on, and the daily check comes again.
FairSpec ==
    /\ Spec
    /\ WF_vars(UpgradeStep) /\ WF_vars(OnComplete)
    /\ WF_vars(WebStep) /\ WF_vars(RootStep)
    /\ WF_vars(DailyCheck)

-----------------------------------------------------------------------------
(* Properties.                                                             *)

\* Types, and that apt belongs to a process that is at work.
TypeOK ==
    /\ base \in Releases /\ sources \in Releases
    /\ temp \in Releases /\ lists \in Releases
    /\ named \in BOOLEAN /\ able \in BOOLEAN /\ allowed \in BOOLEAN
    /\ rewritten \in BOOLEAN
    /\ hold \in BOOLEAN /\ flag \in BOOLEAN /\ prompts \in BOOLEAN
    /\ snaps \in BOOLEAN /\ quassel \in BOOLEAN
    /\ unit \in {"none", "active", "failed"} /\ failed \in BOOLEAN
    /\ done \in {"none", "runs", "failed"} /\ left \subseteq {"snaps", "quassel"}
    /\ admin \in BOOLEAN /\ crossed \in BOOLEAN /\ cut \in BOOLEAN
    /\ before \in AtFirst
    /\ found \in [Procs -> BOOLEAN]
    /\ undo \in [snaps : BOOLEAN, quassel : BOOLEAN, prompts : BOOLEAN]
    /\ then \in {"run", "start"}
    /\ work \in 0..MaxWork
    /\ pc["upgrade"] \in {"away", "begin", "stop", "look", "restore", "resnap", "finish"}
                           \cup (Holding \ {"work"})
    /\ pc["web"] \in {"away", "look", "flag", "mark", "work", "unmark", "unflag"}
    /\ pc["root"] \in {"away", "release", "unmark", "unflag", "list", "launch"}
    /\ apt = "web" => pc["web"] = "work"
    /\ apt = "upgrade" => pc["upgrade"] \in {"update", "full", "autoremove"}
    /\ apt \in {"free", "web", "upgrade"}

\* A hold that FreedomBox has set can be told from one of the administrator
\* after a crash at any point (apt_hold_flag, action_utils.py:540-564), as long
\* as one process at a time is in apt_hold_freedombox.
HoldTraced == hold /\ ~admin /\ ~crossed => flag

\* The freedombox package is held during the entire upgrade
\* (distupgrade.py:264), and a hold of the administrator stays
\* (action_utils.py:547), unless a holder in the web service, a manual update
\* or a second start interferes; a repair does so only when the unit of the
\* upgrade was ended by hand.
HeldThroughout ==
    /\ pc["upgrade"] \in {"update", "full", "autoremove"} => hold \/ crossed
    /\ admin => hold \/ crossed

\* Whether it succeeds or fails, an upgrade leaves snapshots, services and
\* packages as it found them (distupgrade.py:205-277), save what could not be put
\* back because the attempt failed, silently in the case of quasselcore.  Not so
\* when one was cut off: what a crash leaves disabled is taken for the wish of
\* the user.
PutBackAtEnd ==
    pc["upgrade"] = "away" /\ ~cut =>
        /\ snaps = before[1] \/ "snaps" \in left
        /\ quassel = before[2] \/ "quassel" \in left
        /\ prompts => crossed

\* What on_complete commits to sources.list (distupgrade.py:430) is at most one
\* release ahead of what is installed, whatever failed, crashed or was continued
\* before, unless a second start wrote the file again that an upgrade under way,
\* or one that has just ended, is to commit (start_service, distupgrade.py:412).
OneBehind == sources <= base + 1 \/ rewritten

\* The upgrade installs the release that on_complete then commits: the new file
\* is mounted for it (distupgrade.py:359).  It is not: apt sees the original.
SourcesInstalled == named => sources <= base

\* A system whose release is ahead of the one that sources.list names, which
\* get_status takes for an upgrade that was interrupted (distupgrade.py:180), is
\* upgraded until sources.list names it, whatever became of free space or
\* automatic updates, unless distribution upgrades are turned off or the unit of
\* an upgrade has failed, which keeps systemd from starting another.
Continued ==
    named /\ sources < base ~> sources >= base \/ ~allowed \/ unit = "failed"

==============================================================================
