-------------------------- MODULE DistUpgradeProofs --------------------------
(***************************************************************************)
(* Proofs about DistUpgrade, for any list of releases and any number of    *)
(* crashes, failures and requests.                                         *)
(***************************************************************************)
EXTENDS DistUpgrade, TLAPS

Stages == Holding \cup {"away", "look", "begin", "stop", "restore", "resnap",
                        "finish", "release", "list", "launch"}

FlagsOK ==
    /\ named \in BOOLEAN /\ able \in BOOLEAN /\ allowed \in BOOLEAN
    /\ rewritten \in BOOLEAN
    /\ hold \in BOOLEAN /\ flag \in BOOLEAN /\ prompts \in BOOLEAN
    /\ snaps \in BOOLEAN /\ quassel \in BOOLEAN
    /\ failed \in BOOLEAN
    /\ admin \in BOOLEAN /\ crossed \in BOOLEAN /\ cut \in BOOLEAN

FilesOK ==
    /\ base \in Releases /\ sources \in Releases
    /\ temp \in Releases /\ lists \in Releases
    /\ before \in AtFirst
    /\ found \in [Procs -> BOOLEAN]
    /\ undo \in [snaps : BOOLEAN, quassel : BOOLEAN, prompts : BOOLEAN]
    /\ left \subseteq {"snaps", "quassel"}
    /\ work \in 0..MaxWork

ControlOK ==
    /\ pc \in [Procs -> Stages]
    /\ then \in {"run", "start"}
    /\ unit \in {"none", "active", "failed"} /\ done \in {"none", "runs", "failed"}
    /\ pc["upgrade"] \in {"away", "begin", "stop", "look", "restore", "resnap", "finish"}
                           \cup (Holding \ {"work"})
    /\ pc["web"] \in {"away", "look", "flag", "mark", "work", "unmark", "unflag"}
    /\ pc["root"] \in {"away", "release", "unmark", "unflag", "list", "launch"}
    /\ apt = "web" => pc["web"] = "work"
    /\ apt = "upgrade" => pc["upgrade"] \in {"update", "full", "autoremove"}
    /\ apt \in {"free", "web", "upgrade"}

LEMMA FlagsType == FlagsOK /\ [Next]_vars => FlagsOK'
<1> SUFFICES ASSUME FlagsOK, [Next]_vars PROVE FlagsOK'
  OBVIOUS
<1> USE DEF FlagsOK, system, holds, others, procs, history
<1>1. ASSUME NEW p \in Procs, HoldStep(p) PROVE FlagsOK'
  <2>1. CASE LookForHold(p)
    BY <2>1, ZenonT(60) DEF LookForHold
  <2>2. CASE TouchFlag(p)
    BY <2>2, ZenonT(60) DEF TouchFlag
  <2>3. CASE Mark(p)
    BY <2>3, ZenonT(60) DEF Mark
  <2>4. CASE Unmark(p)
    <3>1. hold' \in BOOLEAN
      BY <2>4, ZenonT(60) DEF Unmark
    <3> QED
      BY <2>4, <3>1, ZenonT(60) DEF Unmark
  <2>5. CASE Unflag(p)
    BY <2>5, ZenonT(60) DEF Unflag
  <2> QED
    BY <1>1, <2>1, <2>2, <2>3, <2>4, <2>5, ZenonT(60) DEF HoldStep
<1>2. CASE UpgradeStep
  <2>1. CASE SnapshotsOff
    BY <2>1, ZenonT(60) DEF SnapshotsOff, Ends
  <2>2. CASE QuasselOff
    BY <2>2, ZenonT(60) DEF QuasselOff
  <2>3. CASE HoldStep("upgrade")
    BY <1>1, <2>3 DEF Procs
  <2>4. CASE HoldPrompts
    BY <2>4, ZenonT(60) DEF HoldPrompts
  <2>5. CASE AptBegins
    BY <2>5, ZenonT(60) DEF AptBegins
  <2>6. CASE BaseChanges
    BY <2>6, ZenonT(60) DEF BaseChanges
  <2>7. CASE AptEnds
    BY <2>7, ZenonT(60) DEF AptEnds
  <2>8. CASE UnholdPrompts
    BY <2>8, ZenonT(60) DEF UnholdPrompts
  <2>9. CASE QuasselBack
    BY <2>9, ZenonT(60) DEF QuasselBack
  <2>10. CASE SnapshotsBack
    BY <2>10, ZenonT(60) DEF SnapshotsBack, Ends
  <2>11. CASE TriggerOnComplete
    BY <2>11, ZenonT(60) DEF TriggerOnComplete, Ends
  <2> QED
    BY <1>2, <2>1, <2>2, <2>3, <2>4, <2>5, <2>6, <2>7, <2>8, <2>9, <2>10, <2>11,
       Zenon
    DEF UpgradeStep
<1>3. CASE OnComplete
  BY <1>3, ZenonT(60) DEF OnComplete
<1>4. CASE WebBegins \/ WebInstalls
  <2>1. CASE WebBegins
    BY <2>1, ZenonT(60) DEF WebBegins
  <2>2. CASE WebInstalls
    BY <2>2, ZenonT(60) DEF WebInstalls
  <2> QED
    BY <1>4, <2>1, <2>2
<1>5. ASSUME NEW what, NEW place, RootBegins(what, place) PROVE FlagsOK'
  BY <1>5, ZenonT(60) DEF RootBegins
<1>6. CASE ReleaseHeld \/ UpdateSources \/ Launch
  <2>1. CASE ReleaseHeld
    BY <2>1, ZenonT(60) DEF ReleaseHeld
  <2>2. CASE UpdateSources
    BY <2>2, ZenonT(60) DEF UpdateSources
  <2>3. CASE Launch
    BY <2>3, ZenonT(60) DEF Launch
  <2> QED
    BY <1>6, <2>1, <2>2, <2>3
<1>7. CASE Repair
  BY <1>7, ZenonT(60) DEF Repair
<1>8. CASE Crash
  BY <1>8, ZenonT(60) DEF Crash
<1>9. CASE UnitEnds \/ Unable
  <2>1. CASE UnitEnds
    BY <2>1, ZenonT(60) DEF UnitEnds
  <2>2. CASE Unable
    BY <2>2, ZenonT(60) DEF Unable
  <2> QED
    BY <1>9, <2>1, <2>2
<1>10. CASE UNCHANGED vars
  BY <1>10, ZenonT(60) DEF vars
<1>11. CASE HoldStep("web") \/ Unmark("root") \/ Unflag("root")
  BY <1>1, <1>11 DEF HoldStep, Procs
<1>12. CASE DailyCheck \/ Confirmed \/ ManualRun
  BY <1>5, <1>12, ZenonT(60) DEF DailyCheck, Confirmed, ManualRun
<1> QED
  BY <1>2, <1>3, <1>4, <1>6, <1>7, <1>8, <1>9, <1>10, <1>11, <1>12, Zenon
  DEF Next, WebStep, RootStep

LEMMA ControlType == ControlOK /\ [Next]_vars => ControlOK'
<1> SUFFICES ASSUME ControlOK, [Next]_vars PROVE ControlOK'
  OBVIOUS
<1> USE DEF ControlOK, Stages, Holding, Procs, Goes, procs
<1>1. ASSUME NEW p \in Procs, HoldStep(p) PROVE ControlOK'
  <2>1. CASE LookForHold(p)
    BY <2>1 DEF LookForHold, Inside
  <2>2. CASE TouchFlag(p)
    BY <2>2 DEF TouchFlag
  <2>3. CASE Mark(p)
    BY <2>3 DEF Mark, Inside
  <2>4. CASE Unmark(p)
    <3>1. pc[p] = "unmark" /\ UNCHANGED <<then, unit, done, apt>>
      BY <2>4, ZenonT(60) DEF Unmark
    <3>2. Goes(p, After(p)) \/ Goes(p, "unflag")
      BY <2>4, ZenonT(60) DEF Unmark
    <3>3. CASE p = "upgrade"
      BY <3>1, <3>2, <3>3 DEF After
    <3>4. CASE p = "web"
      BY <3>1, <3>2, <3>4 DEF After
    <3>5. CASE p = "root"
      BY <3>1, <3>2, <3>5 DEF After
    <3> QED
      BY <3>3, <3>4, <3>5
  <2>5. CASE Unflag(p)
    BY <2>5 DEF Unflag, After
  <2> QED
    BY <1>1, <2>1, <2>2, <2>3, <2>4, <2>5 DEF HoldStep
<1>2. CASE UpgradeStep
  <2>1. CASE SnapshotsOff
    BY <2>1 DEF SnapshotsOff, Ends
  <2>2. CASE QuasselOff
    BY <2>2 DEF QuasselOff
  <2>3. CASE HoldStep("upgrade")
    BY <1>1, <2>3
  <2>4. CASE HoldPrompts
    BY <2>4 DEF HoldPrompts
  <2>5. CASE AptBegins
    BY <2>5 DEF AptBegins
  <2>6. CASE BaseChanges
    BY <2>6 DEF BaseChanges
  <2>7. CASE AptEnds
    BY <2>7 DEF AptEnds
  <2>8. CASE UnholdPrompts
    BY <2>8 DEF UnholdPrompts
  <2>9. CASE QuasselBack
    BY <2>9 DEF QuasselBack
  <2>10. CASE SnapshotsBack
    BY <2>10 DEF SnapshotsBack, Ends
  <2>11. CASE TriggerOnComplete
    BY <2>11 DEF TriggerOnComplete, Ends
  <2> QED
    BY <1>2, <2>1, <2>2, <2>3, <2>4, <2>5, <2>6, <2>7, <2>8, <2>9, <2>10, <2>11
    DEF UpgradeStep
<1>3. CASE OnComplete
  BY <1>3 DEF OnComplete
<1>4. CASE WebBegins
  BY <1>4 DEF WebBegins
<1>5. CASE WebInstalls
  BY <1>5 DEF WebInstalls
<1>6. CASE DailyCheck \/ Confirmed \/ ManualRun
  BY <1>6 DEF DailyCheck, Confirmed, ManualRun, RootBegins
<1>7. CASE ReleaseHeld
  BY <1>7 DEF ReleaseHeld, After
<1>8. CASE UpdateSources
  BY <1>8 DEF UpdateSources
<1>9. CASE Launch
  BY <1>9 DEF Launch, Running
<1>10. CASE Repair \/ UnitEnds \/ Unable
  BY <1>10 DEF Repair, UnitEnds, Unable
<1>11. CASE Crash
  BY <1>11 DEF Crash, MachineStops, DaemonStops
<1>12. CASE UNCHANGED vars
  BY <1>12 DEF vars
<1>13. CASE HoldStep("web") \/ Unmark("root") \/ Unflag("root")
  BY <1>1, <1>13 DEF HoldStep
<1> QED
  BY <1>2, <1>3, <1>4, <1>5, <1>6, <1>7, <1>8, <1>9, <1>10, <1>11, <1>12, <1>13
  DEF Next, WebStep, RootStep

LEMMA FilesType ==
    ASSUME FilesOK, FlagsOK, FlagsOK', [Next]_vars PROVE FilesOK'
<1> USE UpgradeAssumption
    DEF FilesOK, system, holds, others, procs, history, Works, Releases
<1> DEFINE Undos == [snaps : BOOLEAN, quassel : BOOLEAN, prompts : BOOLEAN]
<1>0. Nothing \in Undos
  BY DEF Nothing
<1>1. ASSUME NEW p \in Procs, HoldStep(p) PROVE FilesOK'
  <2>1. CASE LookForHold(p)
    BY <2>1 DEF LookForHold, FlagsOK
  <2>2. CASE TouchFlag(p) \/ Unflag(p)
    BY <2>2 DEF TouchFlag, Unflag
  <2>3. CASE Mark(p)
    BY <2>3 DEF Mark
  <2>4. CASE Unmark(p)
    BY <2>4 DEF Unmark
  <2> QED
    BY <1>1, <2>1, <2>2, <2>3, <2>4 DEF HoldStep
<1>2. CASE UpgradeStep
  <2>1. CASE SnapshotsOff
    <3>1. undo' \in Undos
      BY <2>1 DEF SnapshotsOff, FlagsOK
    <3> QED
      BY <2>1, <3>1 DEF SnapshotsOff, Ends
  <2>2. CASE QuasselOff
    <3>1. undo' \in Undos
      BY <2>2 DEF QuasselOff, FlagsOK
    <3> QED
      BY <2>2, <3>1 DEF QuasselOff
  <2>3. CASE HoldStep("upgrade")
    BY <1>1, <2>3 DEF Procs
  <2>4. CASE HoldPrompts
    <3>1. undo' \in Undos
      BY <2>4 DEF HoldPrompts, FlagsOK
    <3> QED
      BY <2>4, <3>1, ZenonT(60) DEF HoldPrompts
  <2>5. CASE AptBegins
    BY <2>5 DEF AptBegins
  <2>6. CASE BaseChanges
    BY <2>6 DEF BaseChanges, Offered
  <2>7. CASE AptEnds
    <3>1. UNCHANGED <<base, sources, temp, before, left, found, undo>>
      BY <2>7, ZenonT(60) DEF AptEnds
    <3>2. UNCHANGED work \/ Works
      BY <2>7, ZenonT(60) DEF AptEnds
    <3>3. lists' \in {lists, Offered}
      BY <2>7, ZenonT(60) DEF AptEnds
    <3>4. Offered \in 0..Last
      BY DEF Offered
    <3> QED
      BY <3>1, <3>2, <3>3, <3>4
  <2>8. CASE UnholdPrompts
    BY <2>8 DEF UnholdPrompts
  <2>9. CASE QuasselBack
    <3>1. undo' \in Undos
      BY <2>9 DEF QuasselBack
    <3>2. left' \subseteq {"snaps", "quassel"} /\ work' \in 0..MaxWork
      BY <2>9 DEF QuasselBack
    <3> QED
      BY <2>9, <3>1, <3>2 DEF QuasselBack
  <2>10. CASE SnapshotsBack
    <3>1. undo' \in Undos
      BY <2>10 DEF SnapshotsBack
    <3>2. left' \subseteq {"snaps", "quassel"} /\ work' \in 0..MaxWork
      BY <2>10 DEF SnapshotsBack
    <3> QED
      BY <2>10, <3>1, <3>2 DEF SnapshotsBack
  <2>11. CASE TriggerOnComplete
    BY <2>11 DEF TriggerOnComplete, Ends
  <2> QED
    BY <1>2, <2>1, <2>2, <2>3, <2>4, <2>5, <2>6, <2>7, <2>8, <2>9, <2>10, <2>11,
       Zenon
    DEF UpgradeStep
<1>3. CASE OnComplete
  BY <1>3 DEF OnComplete
<1>4. CASE WebBegins \/ WebInstalls
  <2>1. CASE WebBegins
    BY <2>1 DEF WebBegins
  <2>2. CASE WebInstalls
    BY <2>2 DEF WebInstalls
  <2> QED
    BY <1>4, <2>1, <2>2
<1>5. ASSUME NEW what, NEW place, RootBegins(what, place),
             UNCHANGED work \/ Works
      PROVE FilesOK'
  BY <1>5 DEF RootBegins, Procs
<1>6. CASE ReleaseHeld \/ Launch
  BY <1>6 DEF ReleaseHeld, Launch
<1>7. CASE UpdateSources
  <2>1. Current \in 0..Last
    BY DEF Current
  <2>2. temp' \in 0..Last
    BY <1>7, <2>1 DEF UpdateSources
  <2> QED
    BY <1>7, <2>2 DEF UpdateSources
<1>8. CASE Repair \/ UnitEnds \/ Unable
  <2>1. CASE Repair
    BY <2>1 DEF Repair
  <2>2. CASE UnitEnds
    BY <2>2 DEF UnitEnds
  <2>3. CASE Unable
    BY <2>3 DEF Unable
  <2> QED
    BY <1>8, <2>1, <2>2, <2>3
<1>9. CASE Crash
  BY <1>9, <1>0 DEF Crash
<1>10. CASE UNCHANGED vars
  BY <1>10 DEF vars
<1>11. CASE HoldStep("web") \/ Unmark("root") \/ Unflag("root")
  BY <1>1, <1>11 DEF HoldStep, Procs
<1>12. CASE DailyCheck \/ Confirmed \/ ManualRun
  BY <1>5, <1>12, ZenonT(60) DEF DailyCheck, Confirmed, ManualRun
<1> QED
  BY <1>2, <1>3, <1>4, <1>6, <1>7, <1>8, <1>9, <1>10, <1>11, <1>12, Zenon
  DEF Next, WebStep, RootStep

Typed == FlagsOK /\ FilesOK /\ ControlOK

LEMMA InitTyped == Init => Typed
<1> SUFFICES ASSUME Init PROVE Typed
  OBVIOUS
<1> USE UpgradeAssumption DEF Init
<1>1. before \in BOOLEAN \X BOOLEAN
  OBVIOUS
<1>2. FlagsOK
  BY <1>1 DEF FlagsOK
<1>3. FilesOK
  BY DEF FilesOK, Nothing, Releases
<1>4. ControlOK
  BY DEF ControlOK, Stages, Procs
<1> QED
  BY <1>2, <1>3, <1>4 DEF Typed

LEMMA AlwaysTyped == Spec => []Typed
<1>1. Typed /\ [Next]_vars => Typed'
  BY FlagsType, FilesType, ControlType DEF Typed
<1> QED
  BY InitTyped, <1>1, PTL DEF Spec

\* Values and places stay what they should be, and apt belongs to the upgrade
\* or to the web service only while it is at the place where it waits for apt.
THEOREM TypeCorrect == Spec => []TypeOK
<1>1. Typed => TypeOK
  BY Zenon DEF Typed, FlagsOK, FilesOK, ControlOK, TypeOK
<1> QED
  BY AlwaysTyped, <1>1, PTL

-----------------------------------------------------------------------------
(* The hold.                                                               *)

\* What the two properties of the hold rest on: when holders do not cross, the
\* flag is there before the hold and until after it, the upgrade is within its
\* hold while apt runs, and nobody undoes a hold of the administrator.
HoldInv ==
    /\ HoldTraced
    /\ pc["upgrade"] \in {"prompts", "update", "full", "autoremove"}
         => hold \/ crossed
    /\ \A p \in Procs : pc[p] = "mark" => flag \/ crossed
    /\ \A p \in Procs :
         pc[p] = "unflag" /\ hold => admin \/ crossed \/ Crosses(p)
    /\ admin /\ ~crossed =>
         /\ hold /\ ~flag
         /\ \A p \in Procs :
              pc[p] \in Holding => found[p] /\ pc[p] \notin {"flag", "mark", "unflag"}

LEMMA HoldStepHolds ==
    ASSUME Typed, HoldInv, NEW p \in Procs, HoldStep(p), ControlOK' PROVE HoldInv'
<1> USE DEF Typed, ControlOK, FlagsOK, HoldInv, HoldTraced, Crosses, Holding,
            Goes, others, procs, history, system
<1>0. found \in [Procs -> BOOLEAN]
  BY DEF FilesOK
<1>1. CASE LookForHold(p)
  BY <1>0, <1>1 DEF LookForHold, Inside
<1>2. CASE TouchFlag(p)
  BY <1>2 DEF TouchFlag
<1>3. CASE Mark(p)
  <2>1. CASE hold' = TRUE /\ Goes(p, Inside(p))
    BY <1>3, <2>1 DEF Mark, Inside
  <2>2. CASE Goes(p, "unmark") /\ UNCHANGED hold
    BY <1>3, <2>2 DEF Mark
  <2> QED
    BY <1>3, <2>1, <2>2 DEF Mark
<1>4. CASE Unmark(p)
  <2>1. CASE found[p] /\ ~flag /\ Goes(p, After(p)) /\ UNCHANGED <<hold, crossed>>
    BY <1>4, <2>1 DEF Unmark, After
  <2>2. CASE /\ ~found[p] \/ flag
             /\ crossed' = (crossed \/ Crosses(p))
             /\ Goes(p, "unflag")
    <3>1. apt # "free" => Crosses(p)
      BY <1>4 DEF Unmark, Procs
    <3>2. hold' = FALSE \/ crossed'
      BY <1>4, <2>2, <3>1 DEF Unmark
    <3>3. pc[p] = "unmark" /\ UNCHANGED <<flag, admin>>
      BY <1>4 DEF Unmark
    <3>4. CASE crossed'
      BY <2>2, <3>3, <3>4
    <3>5. CASE ~crossed'
      <4>1. ~crossed /\ ~Crosses(p) /\ hold' = FALSE
        BY <2>2, <3>2, <3>5
      <4>2. ~admin
        BY <2>2, <3>3, <4>1
      <4>3. pc'["upgrade"] \notin {"prompts", "update", "full", "autoremove"}
        BY <2>2, <3>3, <4>1 DEF Procs
      <4>4. \A q \in Procs : pc'[q] # "mark"
        BY <2>2, <3>3, <4>1
      <4> QED
        BY <3>3, <4>1, <4>2, <4>3, <4>4
    <3> QED
      BY <3>4, <3>5
  <2> QED
    BY <1>4, <2>1, <2>2 DEF Unmark
<1>5. CASE Unflag(p)
  BY <1>5 DEF Unflag, After
<1> QED
  BY <1>1, <1>2, <1>3, <1>4, <1>5 DEF HoldStep

LEMMA HoldKept == ASSUME Typed, HoldInv, [Next]_vars, ControlOK' PROVE HoldInv'
<1> USE DEF Typed, ControlOK, FlagsOK, HoldInv, HoldTraced, Crosses, Holding,
            Procs, Goes, others, procs, history, system, holds
<1>1. ASSUME NEW p \in Procs, HoldStep(p) PROVE HoldInv'
  BY <1>1, HoldStepHolds
<1>2. CASE UpgradeStep
  <2>1. CASE SnapshotsOff \/ QuasselOff
    BY <2>1 DEF SnapshotsOff, QuasselOff, Ends
  <2>2. CASE HoldStep("upgrade")
    BY <1>1, <2>2
  <2>3. CASE HoldPrompts
    BY <2>3 DEF HoldPrompts
  <2>4. CASE AptBegins
    BY <2>4 DEF AptBegins
  <2>5. CASE BaseChanges
    BY <2>5 DEF BaseChanges
  <2>6. CASE AptEnds
    BY <2>6 DEF AptEnds
  <2>7. CASE UnholdPrompts
    BY <2>7 DEF UnholdPrompts
  <2>8. CASE QuasselBack \/ SnapshotsBack
    BY <2>8 DEF QuasselBack, SnapshotsBack, Ends
  <2>9. CASE TriggerOnComplete
    BY <2>9 DEF TriggerOnComplete, Ends
  <2> QED
    BY <1>2, <2>1, <2>2, <2>3, <2>4, <2>5, <2>6, <2>7, <2>8, <2>9 DEF UpgradeStep
<1>3. CASE OnComplete \/ UnitEnds \/ Unable \/ UNCHANGED vars
  BY <1>3 DEF OnComplete, UnitEnds, Unable, vars
<1>4. CASE WebBegins \/ WebInstalls
  BY <1>4 DEF WebBegins, WebInstalls
<1>5. CASE DailyCheck \/ Confirmed \/ ManualRun
  <2>1. /\ pc["root"] = "away"
        /\ Goes("root", "release")
        /\ UNCHANGED <<hold, flag, found, admin, crossed>>
    BY <1>5, ZenonT(60) DEF DailyCheck, Confirmed, ManualRun, RootBegins
  <2> QED
    BY <2>1
<1>6. CASE ReleaseHeld
  BY <1>6 DEF ReleaseHeld, After
<1>7. CASE UpdateSources
  BY <1>7 DEF UpdateSources
<1>8. CASE Launch
  BY <1>8 DEF Launch, Running
<1>9. CASE Repair
  BY <1>9 DEF Repair, Running
<1>10. CASE Crash
  BY <1>10 DEF Crash
<1>11. CASE HoldStep("web") \/ Unmark("root") \/ Unflag("root")
  BY <1>1, <1>11 DEF HoldStep
<1> QED
  BY <1>2, <1>3, <1>4, <1>5, <1>6, <1>7, <1>8, <1>9, <1>10, <1>11
  DEF Next, WebStep, RootStep

LEMMA AlwaysHoldInv == Spec => [](Typed /\ HoldInv)
<1>1. Init => HoldInv
  BY DEF Init, HoldInv, HoldTraced, Holding, Procs
<1>2. Typed /\ HoldInv /\ [Next]_vars => (Typed /\ HoldInv)'
  BY HoldKept, FlagsType, FilesType, ControlType DEF Typed
<1> QED
  BY InitTyped, <1>1, <1>2, PTL DEF Spec

\* A hold that FreedomBox has set can be told from one of the administrator
\* after a crash at any point, as long as one process at a time is in
\* apt_hold_freedombox: the flag is written first and removed last.
THEOREM HoldIsTraced == Spec => []HoldTraced
<1>1. HoldInv => HoldTraced
  BY DEF HoldInv
<1> QED
  BY AlwaysHoldInv, <1>1, PTL

\* Unless another holder interferes, freedombox is held whenever apt changes
\* packages for the upgrade, and a hold of the administrator stays.
THEOREM HeldThroughUpgrade == Spec => []HeldThroughout
<1>1. HoldInv => HeldThroughout
  BY DEF HoldInv, HeldThroughout
<1> QED
  BY AlwaysHoldInv, <1>1, PTL

-----------------------------------------------------------------------------
(* What the upgrade puts back.                                             *)

\* What snapshots and quasselcore were first is what they are, what the upgrade
\* will put back, or what it failed to put back; PACKAGES_WITH_PROMPTS are held
\* only by it.
UndoInv ==
    /\ before \in BOOLEAN \X BOOLEAN
    /\ ~cut => /\ (snaps \/ undo.snaps) = before[1] \/ "snaps" \in left
               /\ (quassel \/ undo.quassel) = before[2] \/ "quassel" \in left
    /\ pc["upgrade"] \in {"away", "begin", "finish"} => ~undo.snaps
    /\ pc["upgrade"] \in {"away", "begin", "stop", "resnap", "finish"} => ~undo.quassel
    /\ prompts =>
         \/ cut \/ crossed
         \/ /\ undo.prompts
            /\ pc["upgrade"] \in {"update", "full", "autoremove", "unprompt"}

LEMMA UndoKept == ASSUME Typed, UndoInv, [Next]_vars PROVE UndoInv'
<1> USE DEF Typed, ControlOK, FlagsOK, UndoInv, Nothing,
            Procs, Goes, others, procs, history, system, holds
<1>0. undo \in [snaps : BOOLEAN, quassel : BOOLEAN, prompts : BOOLEAN]
  BY DEF FilesOK
<1> USE <1>0
<1>1. ASSUME NEW p \in Procs, HoldStep(p) PROVE UndoInv'
  <2> DEFINE Places == {"look", "flag", "mark", "prompts", "unmark", "unflag",
                        "restore"}
  <2>1. UNCHANGED <<others, before, left, cut>>
    BY <1>1, ZenonT(60) DEF HoldStep, LookForHold, TouchFlag, Mark, Unmark, Unflag
  <2>2. crossed => crossed'
    BY <1>1 DEF HoldStep, LookForHold, TouchFlag, Mark, Unmark, Unflag
  <2>3. pc[p] \in {"look", "flag", "mark", "unmark", "unflag"}
    BY <1>1 DEF HoldStep, LookForHold, TouchFlag, Mark, Unmark, Unflag
  <2>4. CASE p = "upgrade"
    <3>1. pc'["upgrade"] \in Places
      BY <1>1, <2>4 DEF HoldStep, LookForHold, TouchFlag, Mark, Unmark, Unflag,
                        Inside, After
    <3> QED
      BY <2>1, <2>2, <2>3, <2>4, <3>1
  <2>5. CASE p # "upgrade"
    <3>1. pc'["upgrade"] = pc["upgrade"]
      BY <1>1, <2>5 DEF HoldStep, LookForHold, TouchFlag, Mark, Unmark, Unflag
    <3> QED
      BY <2>1, <2>2, <3>1
  <2> QED
    BY <2>4, <2>5
<1>2. CASE UpgradeStep
  <2>1. CASE SnapshotsOff
    BY <2>1 DEF SnapshotsOff, Ends
  <2>2. CASE QuasselOff
    BY <2>2 DEF QuasselOff
  <2>3. CASE HoldStep("upgrade")
    BY <1>1, <2>3
  <2>4. CASE HoldPrompts
    BY <2>4 DEF HoldPrompts
  <2>5. CASE AptBegins
    BY <2>5 DEF AptBegins
  <2>6. CASE BaseChanges
    BY <2>6 DEF BaseChanges
  <2>7. CASE AptEnds
    BY <2>7 DEF AptEnds
  <2>8. CASE UnholdPrompts
    BY <2>8 DEF UnholdPrompts
  <2>9. CASE QuasselBack
    BY <2>9 DEF QuasselBack
  <2>10. CASE SnapshotsBack
    BY <2>10 DEF SnapshotsBack, Ends
  <2>11. CASE TriggerOnComplete
    BY <2>11 DEF TriggerOnComplete, Ends
  <2> QED
    BY <1>2, <2>1, <2>2, <2>3, <2>4, <2>5, <2>6, <2>7, <2>8, <2>9, <2>10, <2>11
    DEF UpgradeStep
<1>3. CASE OnComplete \/ UnitEnds \/ Unable \/ UNCHANGED vars
  BY <1>3 DEF OnComplete, UnitEnds, Unable, vars
<1>4. CASE WebBegins \/ WebInstalls
  BY <1>4 DEF WebBegins, WebInstalls
<1>5. CASE DailyCheck \/ Confirmed \/ ManualRun
  BY <1>5 DEF DailyCheck, Confirmed, ManualRun, RootBegins
<1>6. CASE ReleaseHeld \/ UpdateSources
  BY <1>6 DEF ReleaseHeld, After, UpdateSources
<1>7. CASE Launch
  BY <1>7 DEF Launch, Running
<1>8. CASE Repair
  BY <1>8 DEF Repair
<1>9. CASE Crash
  BY <1>9 DEF Crash
<1>10. CASE HoldStep("web") \/ Unmark("root") \/ Unflag("root")
  BY <1>1, <1>10 DEF HoldStep
<1> QED
  BY <1>2, <1>3, <1>4, <1>5, <1>6, <1>7, <1>8, <1>9, <1>10
  DEF Next, WebStep, RootStep

\* Whether it succeeds or fails at any step, an upgrade that was never cut off
\* leaves apt snapshots and quasselcore as they had been, save the one that could
\* not be put back, and the holds, unless another process got in its way.
THEOREM UpgradePutsBack == Spec => []PutBackAtEnd
<1>1. Init => UndoInv
  BY UpgradeAssumption DEF Init, UndoInv, Nothing
<1>2. Typed /\ UndoInv /\ [Next]_vars => UndoInv'
  BY UndoKept
<1>3. Typed /\ UndoInv => PutBackAtEnd
  BY DEF UndoInv, PutBackAtEnd, Typed, FlagsOK, FilesOK
<1> QED
  BY AlwaysTyped, <1>1, <1>2, <1>3, PTL DEF Spec

-----------------------------------------------------------------------------
(* What becomes of sources.list.                                           *)

\* Past full-upgrade, what the package lists offered an upgrade without failure
\* is installed.
Installed ==
    \/ pc["upgrade"] \in {"autoremove", "finish"}
    \/ pc["upgrade"] \in {"unprompt", "unmark", "unflag", "restore", "resnap"} /\ ~failed

\* As long as the file is not changed behind an upgrade that will commit it: it
\* names the release after that of sources.list, apt works with what sources.list
\* names, and so the file is one release ahead once apt has finished.
FollowInv ==
    /\ sources <= base + 1
    /\ temp # 0 => temp <= (IF named THEN sources ELSE base) + 1
    /\ pc["upgrade"] = "full" /\ temp # 0 => lists = Offered
    /\ Installed \/ done = "runs" => temp = 0 \/ temp <= base + 1

SourcesInv == rewritten \/ FollowInv

files == <<base, sources, named, lists, temp, rewritten>>

FilesNat == base \in Nat /\ sources \in Nat /\ temp \in Nat /\ lists \in Nat

\* A step that leaves the files alone and takes no upgrade to full-upgrade or
\* past it.
LEMMA SourcesStill ==
    ASSUME SourcesInv,
           UNCHANGED files,
           pc'["upgrade"] = "full" => pc["upgrade"] = "full",
           (Installed \/ done = "runs")' => Installed \/ done = "runs"
    PROVE  SourcesInv'
BY DEF SourcesInv, FollowInv, files, Offered

LEMMA Further ==
    ASSUME NEW m \in Nat, NEW k \in Nat, m < k
    PROVE  \A n \in Nat : n <= m + 1 => n <= k + 1
OBVIOUS

LEMMA SourcesKept == ASSUME Typed, SourcesInv, [Next]_vars PROVE SourcesInv'
<1> USE DEF Typed, ControlOK, FlagsOK, Procs, Goes, others, procs, history,
            system, holds, files
<1>0. FilesNat
  BY UpgradeAssumption DEF FilesOK, Releases, FilesNat
\* Steps of the hold.
<1>1. ASSUME NEW p \in Procs, HoldStep(p) PROVE SourcesInv'
  <2>1. UNCHANGED files /\ UNCHANGED done
    BY <1>1, ZenonT(60) DEF HoldStep, LookForHold, TouchFlag, Mark, Unmark, Unflag
  <2>2. pc[p] \in {"look", "flag", "mark", "unmark", "unflag"}
    BY <1>1 DEF HoldStep, LookForHold, TouchFlag, Mark, Unmark, Unflag
  <2>3. failed => failed'
    BY <1>1 DEF HoldStep, LookForHold, TouchFlag, Mark, Unmark, Unflag
  <2>4. CASE p = "upgrade"
    <3>1. /\ pc'["upgrade"] \in {"flag", "mark", "prompts", "unmark", "unflag", "restore"}
          /\ pc'["upgrade"] \in {"unmark", "unflag", "restore"} =>
               failed' \/ pc["upgrade"] \in {"unmark", "unflag"}
      BY <1>1, <2>4 DEF HoldStep, LookForHold, TouchFlag, Mark, Unmark, Unflag,
                        Inside, After
    <3>2. Installed' => Installed
      BY <2>2, <2>3, <2>4, <3>1 DEF Installed
    <3> QED
      BY <2>1, <3>1, <3>2, SourcesStill
  <2>5. CASE p # "upgrade"
    <3>1. pc'["upgrade"] = pc["upgrade"]
      BY <1>1, <2>5 DEF HoldStep, LookForHold, TouchFlag, Mark, Unmark, Unflag
    <3>2. Installed' => Installed
      BY <2>3, <3>1 DEF Installed
    <3> QED
      BY <2>1, <3>1, <3>2, SourcesStill
  <2> QED
    BY <2>4, <2>5
\* Steps of the upgrade.
<1>2. CASE SnapshotsOff \/ QuasselOff \/ HoldPrompts \/ AptBegins
  <2>1. UNCHANGED files /\ UNCHANGED done
    BY <1>2 DEF SnapshotsOff, QuasselOff, HoldPrompts, AptBegins
  <2>2. \/ pc'["upgrade"] \in {"away", "stop", "look", "update"}
        \/ pc'["upgrade"] = pc["upgrade"] /\ failed' = failed
        \/ pc'["upgrade"] = "unprompt" /\ failed'
    BY <1>2 DEF SnapshotsOff, QuasselOff, HoldPrompts, AptBegins, Ends
  <2>3. Installed' => Installed
    BY <2>2 DEF Installed
  <2> QED
    BY <2>1, <2>2, <2>3, SourcesStill
<1>3. CASE BaseChanges
  <2>1. /\ base < base'
        /\ UNCHANGED <<pc, sources, named, lists, temp, rewritten, done, failed>>
    BY <1>3 DEF BaseChanges
  <2>2. base' \in Nat
    BY <1>0, <1>3, UpgradeAssumption DEF BaseChanges, Offered, FilesNat
  <2> QED
    <3>0. base \in Nat /\ base' \in Nat /\ base < base'
      BY <1>0, <2>1, <2>2 DEF FilesNat
    <3>1. \A n \in Nat : n <= base + 1 => n <= base' + 1
      BY <3>0, Further
    <3>2. SUFFICES ASSUME FollowInv PROVE FollowInv'
      BY <2>1 DEF SourcesInv
    <3>3. sources' <= base' + 1 /\ (temp' # 0 => temp' <= (IF named' THEN sources' ELSE base') + 1)
      BY <1>0, <2>1, <3>1, <3>2 DEF FollowInv, FilesNat
    <3>4. (Installed \/ done = "runs")' => temp' = 0 \/ temp' <= base' + 1
      BY <1>0, <2>1, <3>1, <3>2 DEF FollowInv, FilesNat, Installed
    <3>5. pc'["upgrade"] = "full" /\ temp' # 0 => lists' = Offered'
      BY <2>1, <3>2 DEF FollowInv, Offered
    <3> QED
      BY <3>3, <3>4, <3>5 DEF FollowInv
<1>4. CASE AptEnds
  <2>1. UNCHANGED <<base, sources, named, temp, rewritten, done>>
    BY <1>4, ZenonT(60) DEF AptEnds
  <2>2. CASE pc["upgrade"] = "update" /\ pc'["upgrade"] = "full" /\ lists' = Offered
    BY <2>1, <2>2 DEF SourcesInv, FollowInv, Installed, Offered
  <2>3. CASE /\ pc["upgrade"] = "full" /\ UNCHANGED lists
             /\ pc'["upgrade"] = "autoremove" /\ (lists = Offered => base >= lists)
    BY <1>0, <2>1, <2>3 DEF SourcesInv, FollowInv, Installed, Offered, FilesNat
  <2>4. CASE /\ pc["upgrade"] = "autoremove" /\ pc'["upgrade"] = "unprompt"
             /\ UNCHANGED lists
    BY <2>1, <2>4, SourcesStill DEF Installed
  <2>5. CASE pc'["upgrade"] = "unprompt" /\ failed' /\ UNCHANGED lists
    BY <2>1, <2>5, SourcesStill DEF Installed
  <2> QED
    BY <1>4, <2>2, <2>3, <2>4, <2>5 DEF AptEnds
<1>5. CASE UnholdPrompts \/ QuasselBack \/ SnapshotsBack
  <2>1. UNCHANGED files /\ UNCHANGED done
    BY <1>5 DEF UnholdPrompts, QuasselBack, SnapshotsBack
  <2>2. /\ pc["upgrade"] \in {"unprompt", "restore", "resnap"}
        /\ \/ pc'["upgrade"] = "away"
           \/ pc'["upgrade"] \in {"unmark", "resnap"} /\ (failed => failed')
           \/ pc'["upgrade"] = "finish" /\ ~failed
    BY <1>5 DEF UnholdPrompts, QuasselBack, SnapshotsBack, Ends
  <2>3. Installed' => Installed
    BY <2>2 DEF Installed
  <2> QED
    BY <2>1, <2>2, <2>3, SourcesStill
<1>6. CASE TriggerOnComplete
  <2>1. /\ UNCHANGED files
        /\ pc["upgrade"] = "finish" /\ pc'["upgrade"] = "away"
    BY <1>6 DEF TriggerOnComplete, Ends
  <2>2. Installed
    BY <2>1 DEF Installed
  <2> QED
    BY <2>1, <2>2, SourcesStill
<1>7. CASE OnComplete
  <2>1. /\ done = "runs" /\ done' # "runs"
        /\ UNCHANGED <<pc, base, lists, rewritten, failed>>
    BY <1>7 DEF OnComplete
  <2>2. CASE temp # 0 /\ sources' = temp /\ temp' = 0
    BY <1>0, <2>1, <2>2 DEF SourcesInv, FollowInv, FilesNat, Installed
  <2>3. CASE UNCHANGED <<sources, named, temp>>
    BY <2>1, <2>3, SourcesStill DEF Installed
  <2> QED
    BY <1>7, <2>2, <2>3 DEF OnComplete
\* The new file names the release after the current one.
<1>8. CASE UpdateSources
  <2>1. /\ UNCHANGED <<base, sources, named, lists, done, failed>>
        /\ pc'["upgrade"] = pc["upgrade"]
    BY <1>8 DEF UpdateSources
  <2>2. CASE UNCHANGED <<temp, rewritten>>
    BY <2>1, <2>2, SourcesStill DEF Installed
  <2>3. CASE /\ temp' = Current + 1
             /\ rewritten' = (rewritten \/ (ToCommit /\ temp' # temp))
    <3>1. CASE rewritten'
      BY <3>1 DEF SourcesInv
    <3>2. CASE ~rewritten'
      <4>1. FollowInv /\ (ToCommit => temp' = temp)
        BY <2>3, <3>2 DEF SourcesInv
      <4>2. (Installed \/ done = "runs")' \/ pc'["upgrade"] = "full" => ToCommit
        BY <2>1 DEF Installed, ToCommit
      <4>3. temp' <= (IF named' THEN sources' ELSE base') + 1
        BY <1>0, <2>1, <2>3 DEF Current, FilesNat
      <4>4. FollowInv'
        BY <2>1, <4>1, <4>2, <4>3 DEF FollowInv, Installed, Offered
      <4> QED
        BY <4>4 DEF SourcesInv
    <3> QED
      BY <3>1, <3>2
  <2> QED
    BY <1>8, <2>2, <2>3 DEF UpdateSources
<1>9. CASE Launch
  <2>1. UNCHANGED files /\ UNCHANGED <<done, failed>>
    BY <1>9 DEF Launch
  <2>2. pc'["upgrade"] = pc["upgrade"] \/ pc'["upgrade"] = "begin"
    BY <1>9 DEF Launch
  <2>3. Installed' => Installed
    BY <2>1, <2>2 DEF Installed
  <2> QED
    BY <2>1, <2>2, <2>3, SourcesStill
\* The rest.
<1>10. CASE WebBegins \/ WebInstalls \/ Repair \/ UnitEnds \/ Unable \/ UNCHANGED vars
            \/ DailyCheck \/ Confirmed \/ ManualRun \/ ReleaseHeld
  <2>1. UNCHANGED files /\ UNCHANGED <<done, failed>>
    BY <1>10 DEF WebBegins, WebInstalls, Repair, UnitEnds, Unable, vars, DailyCheck,
         Confirmed, ManualRun, RootBegins, ReleaseHeld
  <2>2. pc'["upgrade"] = pc["upgrade"]
    BY <1>10 DEF WebBegins, WebInstalls, Repair, UnitEnds, Unable, vars, DailyCheck,
         Confirmed, ManualRun, RootBegins, ReleaseHeld, After
  <2>3. Installed' => Installed
    BY <2>1, <2>2 DEF Installed
  <2> QED
    BY <2>1, <2>2, <2>3, SourcesStill
<1>11. CASE Crash
  <2>1. UNCHANGED files /\ (done' = "runs" => done = "runs") /\ pc'["upgrade"] = "away"
    BY <1>11 DEF Crash, MachineStops, DaemonStops
  <2> QED
    BY <2>1, SourcesStill DEF Installed
<1>12. CASE HoldStep("upgrade") \/ HoldStep("web") \/ Unmark("root") \/ Unflag("root")
  BY <1>1, <1>12 DEF HoldStep
<1> QED
  BY <1>2, <1>3, <1>4, <1>5, <1>6, <1>7, <1>8, <1>9, <1>10, <1>11, <1>12
  DEF Next, UpgradeStep, WebStep, RootStep

\* However many upgrades fail, crash or are continued, on_complete commits at
\* most the release after the one that is installed, unless a second start
\* changes the file that an upgrade under way or just ended will commit.
THEOREM CommitsOneAhead == Spec => []OneBehind
<1>1. Init => SourcesInv
  BY DEF Init, SourcesInv, FollowInv, Installed, Procs
<1>2. Typed /\ SourcesInv /\ [Next]_vars => SourcesInv'
  BY SourcesKept
<1>3. SourcesInv => OneBehind
  BY DEF SourcesInv, FollowInv, OneBehind
<1> QED
  BY AlwaysTyped, <1>1, <1>2, <1>3, PTL DEF Spec

=============================================================================
