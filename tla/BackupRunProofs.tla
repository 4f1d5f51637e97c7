---------------------------- MODULE BackupRunProofs ----------------------------
(***************************************************************************)
(* Proofs about BackupRun, for any apps, units, runs and other threads.    *)
(***************************************************************************)
EXTENDS BackupRun, Integers, TLAPS

-----------------------------------------------------------------------------
(* Units.                                                                  *)

UnitsOK ==
    /\ enabled \in [Units -> BOOLEAN] /\ running \in [Units -> BOOLEAN]
    /\ wanted \in [Units -> BOOLEAN] /\ balked \cap Web = {}

\* A unit that was enabled and does not run, though no systemctl failed to
\* bring it where it is.
Down(u) == wanted[u] /\ ~running[u] /\ u \notin balked

\* Only StopUnit brings a unit down; enabling and disabling do not.
NoneGoesDown == \A u \in Units : Down(u)' => Down(u)

LEMMA EnableUnits ==
    ASSUME UnitsOK, NEW u, NEW who, EnableUnit(u, who) \/ DisableUnit(u)
    PROVE  UnitsOK' /\ NoneGoesDown
<1>1. UnitsOK'
  <2>1. running' \in [Units -> BOOLEAN] /\ enabled' \in [Units -> BOOLEAN]
    <3>1. CASE u \in Units
      BY <3>1 DEF EnableUnit, DisableUnit, Bring, SetEnabled, UnitsOK
    <3>2. CASE u \notin Units
      <4>1. \A f \in [Units -> BOOLEAN] : \A v : [f EXCEPT ![u] = v] = f
        BY <3>2
      <4>2. \E v, e : running' = [running EXCEPT ![u] = v]
                    /\ enabled' = [enabled EXCEPT ![u] = e]
        BY DEF EnableUnit, DisableUnit, Bring, SetEnabled
      <4>3. PICK v, e : running' = [running EXCEPT ![u] = v]
                    /\ enabled' = [enabled EXCEPT ![u] = e]
        BY <4>2
      <4>4. running' = running /\ enabled' = enabled
        BY <4>1, <4>3 DEF UnitsOK
      <4> QED
        BY <4>4 DEF UnitsOK
    <3> QED
      BY <3>1, <3>2
  <2>2. \E w \in BOOLEAN : wanted' = [wanted EXCEPT ![u] = w]
    BY DEF EnableUnit, DisableUnit
  <2>3. balked' \cap Web = {}
    BY DEF EnableUnit, DisableUnit, Succeeds, Balks, UnitsOK
  <2> QED
    BY <2>1, <2>2, <2>3 DEF UnitsOK
<1>2. u \in Units => ~Down(u)'
  BY DEF EnableUnit, DisableUnit, Bring, Succeeds, Balks, UnitsOK, Down
<1>3. ASSUME NEW v \in Units \ {u} PROVE Down(v)' => Down(v)
  BY DEF EnableUnit, DisableUnit, Bring, Succeeds, Balks, UnitsOK, Down
<1> QED
  BY <1>1, <1>2, <1>3 DEF NoneGoesDown

\* Steps of a thread leave the runs alone and bring no unit down.
LEMMA TaskStepUnits ==
    ASSUME UnitsOK, NEW t, TaskStep(t) PROVE UnitsOK' /\ NoneGoesDown
<1>1. (\E u : EnableUnit(u, t) \/ DisableUnit(u)) \/ UNCHANGED unitVars
  BY DEF TaskStep, EnableComponent, DisableComponent, DisableShared,
         EnsureEnable, EnsureExit, BreakOff, CallRaises
<1>2. CASE UNCHANGED unitVars
  BY <1>2 DEF unitVars, UnitsOK, NoneGoesDown, Down
<1> QED
  BY <1>1, <1>2, EnableUnits

LEMMA StartUnits ==
    ASSUME UnitsOK, NEW u, NEW who, StartUnit(u, who)
    PROVE  UnitsOK' /\ NoneGoesDown /\ (u \in Units => ~Down(u)')
<1>1. UnitsOK'
  BY DEF StartUnit, Bring, SetEnabled, Succeeds, Balks, UnitsOK
<1>2. u \in Units => ~Down(u)'
  BY DEF StartUnit, Bring, Succeeds, Balks, UnitsOK, Down
<1>3. ASSUME NEW v \in Units \ {u} PROVE Down(v)' => Down(v)
  BY DEF StartUnit, Bring, Succeeds, Balks, UnitsOK, Down
<1> QED
  BY <1>1, <1>2, <1>3 DEF NoneGoesDown

LEMMA StopUnits ==
    ASSUME UnitsOK, NEW u, StopUnit(u)
    PROVE  UnitsOK' /\ \A v \in Units \ {u} : Down(v)' => Down(v)
<1>1. UnitsOK'
  BY DEF StopUnit, Bring, SetEnabled, Succeeds, Balks, UnitsOK
<1>2. ASSUME NEW v \in Units \ {u} PROVE Down(v)' => Down(v)
  BY DEF StopUnit, Bring, Succeeds, Balks, UnitsOK, Down
<1> QED
  BY <1>1, <1>2

-----------------------------------------------------------------------------
(* Runs.                                                                   *)

Flags(r) == [DOMAIN Handlers[r] -> BOOLEAN]

\* What the loops have been through: before the end of the stopping loop the
\* handlers that are still to come have found nothing, and in the starting loop
\* the ones that are done owe nothing.
PlaceOK(r, at, idx, was) ==
    /\ at \in {"stop", "stopping"} => idx \in DOMAIN Handlers[r]
    /\ at \in {"idle", "install", "over"} => \A j \in DOMAIN Handlers[r] : ~was[j]
    /\ at = "stop" => \A j \in DOMAIN Handlers[r] : j <= idx => ~was[j]
    /\ at \in {"stopping", "start"} =>
         \A j \in DOMAIN Handlers[r] : j < idx => ~was[j]

RunOK(r) ==
    /\ run[r] \in [at : Stages, idx : Nat, was : Flags(r)]
    /\ PlaceOK(r, run[r].at, run[r].idx, run[r].was)

RunsOK == DOMAIN run = Runs /\ \A r \in Runs : RunOK(r)

\* One run goes on, the others are where they were.
Moves(r, at, idx, was) ==
    /\ DOMAIN run' = Runs
    /\ run'[r] \in [at : {at}, idx : {idx}, was : {was}]
    /\ \A q \in Runs \ {r} : run'[q] = run[q]

LEMMA MovesOK ==
    ASSUME RunsOK, NEW r \in Runs, NEW at \in Stages, NEW idx \in Nat,
           NEW was \in Flags(r), Moves(r, at, idx, was), PlaceOK(r, at, idx, was)
    PROVE  RunsOK'
<1>1. run'[r].at = at /\ run'[r].idx = idx /\ run'[r].was = was
  BY DEF Moves
<1>2. RunOK(r)'
  BY <1>1 DEF Moves, RunOK, PlaceOK, Flags
<1>3. \A q \in Runs \ {r} : RunOK(q)'
  BY DEF Moves, RunsOK, RunOK, PlaceOK, Flags
<1> QED
  BY <1>2, <1>3 DEF Moves, RunsOK

LEMMA GotoMoves ==
    ASSUME RunsOK, NEW r \in Runs, NEW at, NEW idx, Goto(r, at, idx)
    PROVE  Moves(r, at, idx, run[r].was)
<1> DEFINE old == run[r]
<1>1. old \in [at : Stages, idx : Nat, was : Flags(r)]
  BY DEF RunsOK, RunOK
<1>2. run' = [run EXCEPT ![r] = [old EXCEPT !.at = at, !.idx = idx]]
  BY DEF Goto, RunsOK
<1>3. [old EXCEPT !.at = at, !.idx = idx] \in [at : {at}, idx : {idx}, was : {old.was}]
  <2> HIDE DEF old
  <2> QED
    BY <1>1
<1> QED
  BY <1>2, <1>3 DEF Moves, RunsOK

LEMMA HandlersRange ==
    ASSUME NEW r \in Runs
    PROVE  /\ Len(Handlers[r]) \in Nat
           /\ DOMAIN Handlers[r] = 1..Len(Handlers[r])
           /\ \A i \in DOMAIN Handlers[r] :
                Handlers[r][i] \in Units \ {HookUnit[a] : a \in Apps}
<1>1. Handlers[r] \in Seq((Units \ Shared) \ {HookUnit[a] : a \in Apps})
  BY HandlersAssumption
<1> QED
  BY <1>1

LEMMA RunFields ==
    ASSUME RunsOK, NEW r \in Runs
    PROVE  /\ run[r].at \in Stages /\ run[r].idx \in Nat /\ run[r].was \in Flags(r)
           /\ PlaceOK(r, run[r].at, run[r].idx, run[r].was)
BY DEF RunsOK, RunOK

LEMMA StopFromOK ==
    ASSUME RunsOK, NEW r \in Runs, NEW i \in 0..Len(Handlers[r]), StopFrom(r, i),
           \A j \in DOMAIN Handlers[r] : j <= i => ~run[r].was[j]
    PROVE  /\ RunsOK'
           /\ \E at \in {"stop", "pre"}, idx \in Nat : Moves(r, at, idx, run[r].was)
<1>1. CASE i = 0
  <2>1. Moves(r, "pre", 1, run[r].was)
    BY <1>1, GotoMoves DEF StopFrom
  <2>2. PlaceOK(r, "pre", 1, run[r].was)
    BY DEF PlaceOK
  <2> QED
    BY <2>1, <2>2, MovesOK, RunFields DEF Stages
<1>2. CASE i # 0
  <2>1. Moves(r, "stop", i, run[r].was)
    BY <1>2, GotoMoves DEF StopFrom
  <2>2. i \in Nat /\ i \in DOMAIN Handlers[r]
    BY <1>2, HandlersRange
  <2>3. PlaceOK(r, "stop", i, run[r].was)
    BY <2>2 DEF PlaceOK
  <2> QED
    BY <2>1, <2>2, <2>3, MovesOK, RunFields DEF Stages
<1> QED
  BY <1>1, <1>2

LEMMA HookFromOK ==
    ASSUME RunsOK, NEW r \in Runs, NEW at \in {"pre", "post"}, NEW i \in Nat,
           HookFrom(r, at, i)
    PROVE  /\ RunsOK'
           /\ \E a \in {"pre", "post", "copy", "start"}, idx \in Nat :
                Moves(r, a, idx, run[r].was)
<1>1. ASSUME NEW a \in {"pre", "post", "copy", "start"}, NEW idx \in Nat,
             Goto(r, a, idx), a = "start" => idx = 1
      PROVE  RunsOK' /\ Moves(r, a, idx, run[r].was)
  <2>1. Moves(r, a, idx, run[r].was)
    BY <1>1, GotoMoves
  <2>2. PlaceOK(r, a, idx, run[r].was)
    BY <1>1, HandlersRange DEF PlaceOK
  <2> QED
    BY <2>1, <2>2, MovesOK, RunFields DEF Stages
<1>2. Goto(r, at, i) \/ Goto(r, "copy", 0) \/ Goto(r, "start", 1)
  BY DEF HookFrom
<1> QED
  BY <1>1, <1>2

\* A run ends.
LEMMA EndsMoves ==
    ASSUME RunsOK, NEW r \in Runs, run' = [run EXCEPT ![r] = Ends(r)]
    PROVE  RunsOK' /\ Moves(r, "over", 0, NothingRan(r))
<1> DEFINE old == run[r]
           new == [old EXCEPT !.at = "over", !.idx = 0, !.was = NothingRan(r)]
<1>1. NothingRan(r) \in Flags(r)
  BY DEF NothingRan, Flags
<1>2. new \in [at : {"over"}, idx : {0}, was : {NothingRan(r)}]
  <2>1. old \in [at : Stages, idx : Nat, was : Flags(r)]
    BY DEF RunsOK, RunOK
  <2> HIDE DEF old
  <2> QED
    BY <2>1
<1>3. Moves(r, "over", 0, NothingRan(r))
  BY <1>2 DEF Moves, Ends, RunsOK
<1>4. PlaceOK(r, "over", 0, NothingRan(r))
  BY DEF PlaceOK, NothingRan
<1> QED
  BY <1>1, <1>3, <1>4, MovesOK DEF Stages

-----------------------------------------------------------------------------
(* What is owed and what is locked.                                        *)

\* A run at this place, with these handlers, will start the unit.
Owing(r, at, was, u) ==
    /\ at \in Stages \ {"idle", "install", "over"}
    /\ \E i \in DOMAIN Handlers[r] : Handlers[r][i] = u /\ was[i]

LEMMA OwesAfter ==
    ASSUME NEW r \in Runs, NEW at, NEW idx, NEW was, Moves(r, at, idx, was)
    PROVE  /\ \A u : Owes(r, u)' <=> Owing(r, at, was, u)
           /\ \A q \in Runs \ {r} : \A u : Owes(q, u)' <=> Owes(q, u)
BY DEF Moves, Owes, Owing

\* When nothing goes down that is not owed, and nobody who owes a unit forgets
\* it unless it runs or is noted as lost, no service is lost.
LEMMA NotLost ==
    ASSUME NoServiceLost, lost \subseteq lost', NEW r \in Runs,
           \A q \in Runs \ {r} : \A u : Owes(q, u) => Owes(q, u)',
           \A u \in Units : Down(u)' => Down(u) \/ Owes(r, u)',
           \A u \in Units : Owes(r, u) => Owes(r, u)' \/ ~Down(u)' \/ u \in lost'
    PROVE  NoServiceLost'
BY DEF NoServiceLost, Down

\* A run that is under way keeps its apps locked, the others keep theirs.
LEMMA StillLocked ==
    ASSUME RunsOK, LocksReleased, NEW r \in Runs, NEW at \in Stages,
           NEW idx, NEW was, Moves(r, at, idx, was),
           stuck \subseteq stuck',
           \/ UNCHANGED locked
           \/ SetLocked(r, TRUE) /\ at \notin {"idle", "install", "over"},
           \/ at \notin {"idle", "install", "over"}
           \/ AppsOf(r) \subseteq stuck'
           \/ run[r].at \in {"idle", "install", "over"}
    PROVE  LocksReleased'
<1>1. /\ run'[r].at = at
      /\ \A q \in Runs \ {r} : run'[q].at = run[q].at
  BY DEF Moves
<1> SUFFICES ASSUME NEW a \in Apps, locked'[a]
             PROVE  \/ a \in stuck'
                    \/ \E q \in Runs : /\ a \in AppsOf(q)
                                       /\ run'[q].at \notin {"idle", "install", "over"}
  BY DEF LocksReleased, AppsOf
<1>2. CASE at \notin {"idle", "install", "over"} /\ a \in AppsOf(r)
  BY <1>1, <1>2
<1>3. CASE ~(at \notin {"idle", "install", "over"} /\ a \in AppsOf(r))
  <2>1. locked[a]
    BY <1>3 DEF SetLocked
  <2>2. CASE a \in stuck
    BY <2>2
  <2>3. CASE \E q \in Runs : a \in AppsOf(q) /\ run[q].at \notin {"idle", "install", "over"}
    BY <1>1, <1>3, <2>3
  <2> QED
    BY <2>1, <2>2, <2>3 DEF LocksReleased
<1> QED
  BY <1>2, <1>3

Inv == UnitsOK /\ RunsOK /\ NoServiceLost /\ LocksReleased

\* A step of a run that brings nothing down and leaves its handlers alone.
LEMMA PlainStep ==
    ASSUME Inv, NEW r \in Runs, UnitsOK', NoneGoesDown, RunsOK',
           NEW at \in Stages \ {"idle", "install", "over"}, NEW idx,
           Moves(r, at, idx, run[r].was),
           UNCHANGED <<lost, stuck>>,
           UNCHANGED locked \/ SetLocked(r, TRUE)
    PROVE  Inv'
<1>1. LocksReleased'
  BY StillLocked DEF Inv
<1>2. \A u : Owes(r, u) => Owes(r, u)'
  BY OwesAfter DEF Owing, Owes
<1>3. \A q \in Runs \ {r} : \A u : Owes(q, u) => Owes(q, u)'
  BY OwesAfter
<1>4. NoServiceLost'
  BY <1>2, <1>3, NotLost DEF Inv, NoneGoesDown
<1> QED
  BY <1>1, <1>4 DEF Inv

-----------------------------------------------------------------------------
(* The steps of a run.                                                     *)

LEMMA NoUnits ==
    ASSUME UnitsOK, UNCHANGED unitVars PROVE UnitsOK' /\ NoneGoesDown
BY DEF unitVars, UnitsOK, NoneGoesDown, Down

\* A run enters the stopping loop with nothing noted.
LEMMA LocksAndStops ==
    ASSUME Inv, NEW r \in Runs, run[r].at \in {"idle", "install"},
           StopFrom(r, Len(Handlers[r])), SetLocked(r, TRUE),
           UNCHANGED <<unitVars, lost, stuck>>
    PROVE  Inv'
<1>1. \A j \in DOMAIN Handlers[r] : ~run[r].was[j]
  BY RunFields DEF Inv, PlaceOK
<1>2. Len(Handlers[r]) \in 0..Len(Handlers[r])
  BY HandlersRange
<1>3. PICK at \in {"stop", "pre"}, idx \in Nat :
        RunsOK' /\ Moves(r, at, idx, run[r].was)
  BY <1>1, <1>2, StopFromOK DEF Inv
<1> QED
  BY <1>3, NoUnits, PlainStep DEF Inv, Stages

\* A run that has locked nothing yet.
LEMMA NothingYet ==
    ASSUME Inv, NEW r \in Runs, run[r].at \in {"idle", "install"},
           NEW at \in {"install", "over"}, Goto(r, at, 0),
           UNCHANGED <<unitVars, locked, lost, stuck>>
    PROVE  Inv'
<1>1. Moves(r, at, 0, run[r].was)
  BY GotoMoves DEF Inv
<1>2. PlaceOK(r, at, 0, run[r].was)
  BY RunFields DEF Inv, PlaceOK
<1>3. RunsOK'
  BY <1>1, <1>2, MovesOK, RunFields DEF Inv, Stages
<1>4. LocksReleased'
  BY <1>1, StillLocked DEF Inv, Stages
<1>5. NoServiceLost'
  <2>1. \A u : ~Owes(r, u)
    BY DEF Owes
  <2>2. \A q \in Runs \ {r} : \A u : Owes(q, u) => Owes(q, u)'
    BY <1>1, OwesAfter
  <2> QED
    BY <2>1, <2>2, NoUnits, NotLost DEF Inv, NoneGoesDown
<1> QED
  BY <1>3, <1>4, <1>5, NoUnits DEF Inv

LEMMA BeginOK == ASSUME Inv, NEW r \in Runs, Begin(r) \/ Install(r) PROVE Inv'
<1>1. CASE Begin(r)
  BY <1>1, LocksAndStops, NothingYet DEF Begin, daemonVars, unitVars
<1>2. CASE Install(r)
  BY <1>2, LocksAndStops, NothingYet
  DEF Install, daemonVars, unitVars, CallRaises, historyVars
<1> QED
  BY <1>1, <1>2

LEMMA StopLookOK == ASSUME Inv, NEW r \in Runs, StopLook(r) PROVE Inv'
<1> DEFINE i == run[r].idx
           old == run[r]
           v == running[Handlers[r][i]]
           was == [run[r].was EXCEPT ![i] = v]
<1>1. i \in DOMAIN Handlers[r] /\ i \in Nat /\ run[r].was \in Flags(r)
  BY RunFields DEF Inv, PlaceOK, StopLook
<1>2. v \in BOOLEAN
  BY <1>1, HandlersRange DEF Inv, UnitsOK
<1>3. was \in Flags(r)
  BY <1>1, <1>2 DEF Flags
<1>4. run' = [run EXCEPT ![r] = [old EXCEPT !.at = "stopping", !.was = was]]
  BY DEF StopLook, Inv, RunsOK
<1>5. [old EXCEPT !.at = "stopping", !.was = was]
        \in [at : {"stopping"}, idx : {i}, was : {was}]
  <2>1. old \in [at : Stages, idx : Nat, was : Flags(r)] /\ i = old.idx
    BY DEF Inv, RunsOK, RunOK
  <2> HIDE DEF old, was, i
  <2> QED
    BY <2>1
<1>6. Moves(r, "stopping", i, was)
  BY <1>4, <1>5 DEF Moves, Inv, RunsOK
<1>7. \A j \in DOMAIN Handlers[r] : j <= i => ~run[r].was[j]
  BY RunFields DEF Inv, PlaceOK, StopLook
<1>8. PlaceOK(r, "stopping", i, was)
  BY <1>1, <1>7, HandlersRange DEF PlaceOK, Flags
<1>9. RunsOK'
  BY <1>1, <1>3, <1>6, <1>8, MovesOK DEF Inv, Stages
<1>10. UnitsOK' /\ NoneGoesDown
  BY NoUnits DEF StopLook, daemonVars, unitVars, Inv
<1>11. LocksReleased'
  BY <1>6, StillLocked DEF Inv, Stages, StopLook, historyVars
<1>12. \A u : Owes(r, u) => Owes(r, u)'
  <2>1. \A j \in DOMAIN Handlers[r] : run[r].was[j] => was[j]
    BY <1>1, <1>7, HandlersRange DEF Flags
  <2>2. \A u : Owes(r, u)' <=> Owing(r, "stopping", was, u)
    BY <1>6, OwesAfter
  <2> HIDE DEF was
  <2> QED
    BY <2>1, <2>2 DEF Owes, Owing, Stages
<1>13. \A q \in Runs \ {r} : \A u : Owes(q, u) => Owes(q, u)'
  BY <1>6, OwesAfter
<1>14. NoServiceLost'
  BY <1>10, <1>12, <1>13, NotLost DEF Inv, NoneGoesDown, StopLook, historyVars
<1> QED
  BY <1>9, <1>10, <1>11, <1>14 DEF Inv

LEMMA StopCallOK == ASSUME Inv, NEW r \in Runs, StopCall(r) PROVE Inv'
<1> DEFINE i == run[r].idx
           u == Handlers[r][i]
<1>1. /\ run[r].at = "stopping" /\ i \in DOMAIN Handlers[r]
      /\ UNCHANGED <<locked, lost, stuck, tasks>>
  BY RunFields DEF Inv, PlaceOK, StopCall, historyVars
<1>2. i - 1 \in 0..Len(Handlers[r])
      /\ \A j \in DOMAIN Handlers[r] : j <= i - 1 => ~run[r].was[j]
  BY <1>1, RunFields, HandlersRange DEF Inv, PlaceOK
<1>3. StopFrom(r, i - 1)
  BY DEF StopCall
<1>4. PICK at \in {"stop", "pre"}, idx \in Nat :
        RunsOK' /\ Moves(r, at, idx, run[r].was)
  BY <1>2, <1>3, StopFromOK DEF Inv
<1>5. \A w : Owes(r, w) => Owes(r, w)'
  BY <1>4, OwesAfter DEF Owes, Owing, Stages
<1>6. \A q \in Runs \ {r} : \A w : Owes(q, w) => Owes(q, w)'
  BY <1>4, OwesAfter
<1>7. UnitsOK' /\ \A w \in Units : Down(w)' => Down(w) \/ Owes(r, w)'
  <2>1. CASE run[r].was[i] /\ StopUnit(u)
    <3>1. Owes(r, u)
      BY <1>1, <2>1 DEF Owes, Stages
    <3> QED
      BY <1>5, <2>1, <3>1, StopUnits DEF Inv
  <2>2. CASE UNCHANGED unitVars
    BY <2>2, NoUnits DEF Inv, NoneGoesDown
  <2> QED
    BY <2>1, <2>2 DEF StopCall
<1>8. NoServiceLost'
  BY <1>1, <1>5, <1>6, <1>7, NotLost DEF Inv
<1>9. LocksReleased'
  BY <1>1, <1>4, StillLocked DEF Inv, Stages
<1> QED
  BY <1>4, <1>7, <1>8, <1>9 DEF Inv

\* A run that cannot stop or start a service notes what it owes as lost.
LEMMA RaisesOK == ASSUME Inv, NEW r \in Runs, StopRaises(r) \/ StartRaises(r) PROVE Inv'
<1>1. /\ run' = [run EXCEPT ![r] = Ends(r)]
      /\ lost' = lost \cup {u \in Units : Owes(r, u)}
      /\ stuck' = stuck \cup AppsOf(r)
      /\ UNCHANGED locked
      /\ UNCHANGED unitVars
  BY DEF StopRaises, StartRaises, GivesUp, CallRaises
<1>2. RunsOK' /\ Moves(r, "over", 0, NothingRan(r))
  BY <1>1, EndsMoves DEF Inv
<1>3. UnitsOK' /\ NoneGoesDown
  BY <1>1, NoUnits DEF Inv
<1>4. LocksReleased'
  BY <1>1, <1>2, StillLocked DEF Inv, Stages
<1>5. \A q \in Runs \ {r} : \A u : Owes(q, u) => Owes(q, u)'
  BY <1>2, OwesAfter
<1>6. NoServiceLost'
  BY <1>1, <1>3, <1>5, NotLost DEF Inv, NoneGoesDown
<1> QED
  BY <1>2, <1>3, <1>4, <1>6 DEF Inv

LEMMA HookOK == ASSUME Inv, NEW r \in Runs, Hook(r) \/ HookReturns(r) PROVE Inv'
<1> DEFINE i == run[r].idx
<1>0. i \in Nat
  BY RunFields DEF Inv
<1>1. UNCHANGED unitVars /\ UNCHANGED <<locked, lost, stuck>>
  BY DEF Hook, HookReturns, EnsureEnter, EnsureEnterMissing, daemonVars, unitVars,
         historyVars
<1>2. UnitsOK' /\ NoneGoesDown
  BY <1>1, NoUnits DEF Inv
<1>3. \/ \E at \in {"pre", "post"}, j \in Nat : HookFrom(r, at, j)
      \/ \E at \in {"prehook", "posthook"} : Goto(r, at, i)
  BY <1>0 DEF Hook, HookReturns
<1>4. CASE \E at \in {"pre", "post"}, j \in Nat : HookFrom(r, at, j)
  <2>1. PICK a \in {"pre", "post", "copy", "start"}, idx \in Nat :
          RunsOK' /\ Moves(r, a, idx, run[r].was)
    BY <1>4, HookFromOK DEF Inv
  <2> QED
    BY <1>1, <1>2, <2>1, PlainStep DEF Stages
<1>5. CASE \E at \in {"prehook", "posthook"} : Goto(r, at, i)
  <2>1. PICK at \in {"prehook", "posthook"} : Goto(r, at, i)
    BY <1>5
  <2>2. Moves(r, at, i, run[r].was)
    BY <2>1, GotoMoves DEF Inv
  <2>3. PlaceOK(r, at, i, run[r].was)
    BY DEF PlaceOK
  <2>4. RunsOK'
    BY <1>0, <2>2, <2>3, MovesOK, RunFields DEF Inv, Stages
  <2> QED
    BY <1>1, <1>2, <2>2, <2>4, PlainStep DEF Stages
<1> QED
  BY <1>3, <1>4, <1>5

LEMMA CopyOK == ASSUME Inv, NEW r \in Runs, Copy(r) PROVE Inv'
<1>1. UNCHANGED unitVars /\ UNCHANGED <<locked, lost, stuck>>
  BY DEF Copy, CallRaises, daemonVars, unitVars, historyVars
<1>2. UnitsOK' /\ NoneGoesDown
  BY <1>1, NoUnits DEF Inv
<1>3. PICK at \in {"post", "start"} : Goto(r, at, 1)
  BY DEF Copy
<1>4. Moves(r, at, 1, run[r].was)
  BY <1>3, GotoMoves DEF Inv
<1>5. PlaceOK(r, at, 1, run[r].was)
  BY HandlersRange DEF PlaceOK
<1>6. RunsOK'
  BY <1>4, <1>5, MovesOK, RunFields DEF Inv, Stages
<1> QED
  BY <1>1, <1>2, <1>4, <1>6, PlainStep DEF Stages

LEMMA StartCallOK == ASSUME Inv, NEW r \in Runs, StartCall(r) PROVE Inv'
<1> DEFINE i == run[r].idx
           old == run[r]
           u == Handlers[r][i]
           was == [run[r].was EXCEPT ![i] = FALSE]
<1>1. /\ run[r].at = "start" /\ i \in DOMAIN Handlers[r] /\ i \in Nat
      /\ run[r].was \in Flags(r)
      /\ UNCHANGED <<locked, lost, stuck>>
  BY RunFields DEF Inv, StartCall, historyVars
<1>2. was \in Flags(r)
  BY <1>1 DEF Flags
<1>3. run' = [run EXCEPT ![r] = [old EXCEPT !.idx = i + 1, !.was = was]]
  BY DEF StartCall, Inv, RunsOK
<1>4. [old EXCEPT !.idx = i + 1, !.was = was]
        \in [at : {"start"}, idx : {i + 1}, was : {was}]
  <2>1. old \in [at : Stages, idx : Nat, was : Flags(r)] /\ old.at = "start"
    BY <1>1 DEF Inv, RunsOK, RunOK
  <2> HIDE DEF old, was, i
  <2> QED
    BY <2>1
<1>5. Moves(r, "start", i + 1, was)
  BY <1>3, <1>4 DEF Moves, Inv, RunsOK
<1>6. \A j \in DOMAIN Handlers[r] : j < i => ~run[r].was[j]
  BY <1>1, RunFields DEF Inv, PlaceOK
<1>7. PlaceOK(r, "start", i + 1, was)
  BY <1>1, <1>6, HandlersRange DEF PlaceOK, Flags
<1>8. RunsOK'
  <2>1. i + 1 \in Nat /\ "start" \in Stages
    BY <1>1 DEF Stages
  <2>2. RunsOK
    BY DEF Inv
  <2> HIDE DEF i, was
  <2> QED
    BY <1>2, <1>5, <1>7, <2>1, <2>2, MovesOK
<1>9. UnitsOK' /\ NoneGoesDown
  BY NoUnits, StartUnits DEF StartCall, Inv
<1>10. LocksReleased'
  BY <1>1, <1>5, StillLocked DEF Inv, Stages
<1>11. \A v \in Units : Owes(r, v) => Owes(r, v)' \/ ~Down(v)'
  <2> SUFFICES ASSUME NEW v \in Units, Owes(r, v) PROVE Owes(r, v)' \/ ~Down(v)'
    OBVIOUS
  <2>1. PICK j \in DOMAIN Handlers[r] : Handlers[r][j] = v /\ run[r].was[j]
    BY DEF Owes
  <2>2. CASE j = i
    <3>1. StartUnit(v, r)
      BY <2>1, <2>2 DEF StartCall
    <3> QED
      BY <3>1, StartUnits DEF Inv
  <2>3. CASE j # i
    <3>1. was[j]
      BY <1>1, <2>1, <2>3 DEF Flags
    <3>2. Owes(r, v)' <=> Owing(r, "start", was, v)
      BY <1>5, OwesAfter
    <3> HIDE DEF was
    <3> QED
      BY <2>1, <3>1, <3>2 DEF Owing, Stages
  <2> QED
    BY <2>2, <2>3
<1>12. \A q \in Runs \ {r} : \A v : Owes(q, v) => Owes(q, v)'
  BY <1>5, OwesAfter
<1>13. NoServiceLost'
  BY <1>1, <1>9, <1>11, <1>12, NotLost DEF Inv, NoneGoesDown
<1> QED
  BY <1>8, <1>9, <1>10, <1>13 DEF Inv

LEMMA UnlockOK == ASSUME Inv, NEW r \in Runs, Unlock(r) PROVE Inv'
<1>1. /\ run[r].at = "start" /\ run[r].idx > Len(Handlers[r])
      /\ run' = [run EXCEPT ![r] = Ends(r)]
      /\ SetLocked(r, FALSE)
      /\ stuck' = stuck \ AppsOf(r)
      /\ UNCHANGED unitVars /\ UNCHANGED lost
  BY DEF Unlock, daemonVars, unitVars
<1>2. RunsOK' /\ Moves(r, "over", 0, NothingRan(r))
  BY <1>1, EndsMoves DEF Inv
<1>3. UnitsOK' /\ NoneGoesDown
  BY <1>1, NoUnits DEF Inv
<1>4. \A u : ~Owes(r, u)
  <2>1. \A j \in DOMAIN Handlers[r] : ~run[r].was[j]
    BY <1>1, RunFields, HandlersRange DEF Inv, PlaceOK
  <2> QED
    BY <2>1 DEF Owes
<1>5. \A q \in Runs \ {r} : \A u : Owes(q, u) => Owes(q, u)'
  BY <1>2, OwesAfter
<1>6. NoServiceLost'
  BY <1>1, <1>3, <1>4, <1>5, NotLost DEF Inv, NoneGoesDown
<1>7. LocksReleased'
  <2> SUFFICES ASSUME NEW a \in Apps, locked'[a]
               PROVE  \/ a \in stuck'
                      \/ \E q \in Runs : /\ a \in AppsOf(q)
                                         /\ run'[q].at \notin {"idle", "install", "over"}
    BY DEF LocksReleased, AppsOf
  <2>1. a \notin AppsOf(r) /\ locked[a]
    BY <1>1 DEF SetLocked
  <2>2. CASE a \in stuck
    BY <1>1, <2>1, <2>2
  <2>3. CASE \E q \in Runs : a \in AppsOf(q) /\ run[q].at \notin {"idle", "install", "over"}
    BY <1>2, <2>1, <2>3 DEF Moves
  <2> QED
    BY <2>1, <2>2, <2>3 DEF Inv, LocksReleased
<1> QED
  BY <1>2, <1>3, <1>6, <1>7 DEF Inv

\* What other threads and the hooks do to units.
LEMMA OthersOK ==
    ASSUME Inv, UnitsOK', NoneGoesDown, UNCHANGED <<run, locked, lost, stuck>>
    PROVE  Inv'
<1>1. RunsOK'
  BY DEF Inv, RunsOK, RunOK, PlaceOK, Flags
<1>2. NoServiceLost'
  BY DEF Inv, NoServiceLost, NoneGoesDown, Down, Owes
<1>3. LocksReleased'
  BY DEF Inv, LocksReleased, AppsOf
<1> QED
  BY <1>1, <1>2, <1>3 DEF Inv

LEMMA OtherThreadsOK ==
    ASSUME Inv,
           \/ \E r \in Runs : HookStep(r)
           \/ \E t \in Threads \ Runs : UserBegins(t) \/ UserStep(t)
    PROVE  Inv'
<1>1. UNCHANGED <<run, locked, lost, stuck>>
  BY DEF HookStep, UserBegins, UserStep, historyVars
<1>2. UNCHANGED unitVars \/ \E t : TaskStep(t)
  BY DEF HookStep, UserBegins, UserStep, PressButton, EnsureEnter,
         EnsureEnterMissing, unitVars
<1> QED
  BY <1>1, <1>2, OthersOK, NoUnits, TaskStepUnits DEF Inv

LEMMA CrashOK == ASSUME Inv, Crash PROVE Inv'
<1> DEFINE Over == {"idle", "over"}
<1>1. /\ UNCHANGED unitVars
      /\ lost' = lost \cup {u \in Units : \E r \in Runs : Owes(r, u)}
      /\ run' = [r \in Runs |-> IF run[r].at = "idle" THEN run[r] ELSE Ends(r)]
      /\ locked' = [a \in Apps |-> FALSE]
  BY DEF Crash
<1>2. UnitsOK' /\ NoneGoesDown
  BY <1>1, NoUnits DEF Inv
<1>3. LocksReleased'
  BY <1>1 DEF LocksReleased
<1>4. NoServiceLost'
  BY <1>1, <1>2 DEF Inv, NoServiceLost, NoneGoesDown, Down
<1>5. ASSUME NEW r \in Runs PROVE RunOK(r)'
  <2>1. CASE run[r].at = "idle"
    <3>1. run'[r] = run[r]
      BY <1>1, <2>1
    <3> QED
      BY <3>1 DEF Inv, RunsOK, RunOK, PlaceOK, Flags
  <2>2. CASE run[r].at # "idle"
    <3> DEFINE old == run[r]
               new == [old EXCEPT !.at = "over", !.idx = 0, !.was = NothingRan(r)]
    <3>1. new \in [at : {"over"}, idx : {0}, was : {NothingRan(r)}]
      <4>1. old \in [at : Stages, idx : Nat, was : Flags(r)]
        BY DEF Inv, RunsOK, RunOK
      <4> HIDE DEF old
      <4> QED
        BY <4>1
    <3>2. run'[r] = new
      BY <1>1, <2>2 DEF Ends
    <3>3. run'[r].at = "over" /\ run'[r].idx = 0 /\ run'[r].was = NothingRan(r)
      <4> HIDE DEF new
      <4> QED
        BY <3>1, <3>2
    <3>4. run'[r] \in [at : Stages, idx : Nat, was : Flags(r)]
      <4>1. NothingRan(r) \in Flags(r)
        BY DEF NothingRan, Flags
      <4> HIDE DEF new
      <4> QED
        BY <3>1, <3>2, <4>1 DEF Stages
    <3> QED
      BY <3>3, <3>4 DEF RunOK, PlaceOK, NothingRan, Flags
  <2> QED
    BY <2>1, <2>2
<1>6. RunsOK'
  BY <1>1, <1>5 DEF RunsOK
<1> QED
  BY <1>2, <1>3, <1>4, <1>6 DEF Inv

LEMMA InitInv == Init => Inv
<1> SUFFICES ASSUME Init PROVE Inv
  OBVIOUS
<1>1. UnitsOK /\ running = enabled /\ wanted = enabled
  BY DEF Init, DaemonsInit, UnitsOK
<1>2. \A r \in Runs : run[r] = [at |-> "idle", idx |-> 0, was |-> NothingRan(r)]
  BY DEF Init
<1>3. RunsOK
  <2>1. \A r \in Runs : NothingRan(r) \in Flags(r)
    BY DEF NothingRan, Flags
  <2>2. DOMAIN run = Runs
    BY DEF Init
  <2> QED
    BY <1>2, <2>1, <2>2 DEF RunsOK, RunOK, PlaceOK, NothingRan, Stages
<1>4. NoServiceLost
  BY <1>1 DEF NoServiceLost
<1>5. LocksReleased
  BY DEF Init, LocksReleased
<1> QED
  BY <1>1, <1>3, <1>4, <1>5 DEF Inv

LEMMA AlwaysInv == Spec => []Inv
<1>1. Inv /\ [Next]_vars => Inv'
  <2> SUFFICES ASSUME Inv, [Next]_vars PROVE Inv'
    OBVIOUS
  <2>1. CASE UNCHANGED vars
    BY <2>1, NoUnits, OthersOK DEF vars, daemonVars, unitVars, Inv
  <2>2. CASE Next
    BY <2>2, BeginOK, StopLookOK, StopCallOK, RaisesOK, HookOK, CopyOK,
       StartCallOK, UnlockOK, OtherThreadsOK, CrashOK DEF Next, RunStep
  <2> QED
    BY <2>1, <2>2
<1> QED
  BY InitInv, <1>1, PTL DEF Spec

\* No service is lost: a unit that was last enabled and is off will be started
\* by a run that is under way, whatever runs overlap, hooks or handlers fail and
\* users do, unless a call of the run raises, FreedomBox restarts in between or
\* a systemctl that failed has left the unit as it is.
THEOREM NothingLost == Spec => []NoServiceLost
<1>1. Inv => NoServiceLost
  BY DEF Inv
<1> QED
  BY AlwaysInv, <1>1, PTL

\* App.locked is set on behalf of a run that is under way, or of one whose call
\* to stop or start a service raised.
THEOREM NothingStaysLocked == Spec => []LocksReleased
<1>1. Inv => LocksReleased
  BY DEF Inv
<1> QED
  BY AlwaysInv, <1>1, PTL

-----------------------------------------------------------------------------
(* Files are copied while services are stopped.                            *)

StartersOK == startedBy \in [Units -> Threads \cup {NoOne}]

\* The unit is stopped, or another thread started it, or systemctl failed.
Quiet(r, u) == (running[u] /\ u \notin balked) => startedBy[u] \notin {NoOne, r}

\* A run is past the j-th handler in its stopping loop.
Past(at, idx, was, j) ==
    \/ at \in {"pre", "prehook", "copy"}
    \/ at \in {"stop", "stopping"} /\ j > idx
    \/ at = "stopping" /\ j = idx /\ ~was[j]

QuietSince(r) ==
    \A j \in DOMAIN Handlers[r] :
        Past(run[r].at, run[r].idx, run[r].was, j) => Quiet(r, Handlers[r][j])

\* Tasks of a run are those of its hooks, which borrow units of no manifest.
HookTasks ==
    [at : {"idle", "borrow", "using"}, app : {NoUnit},
     unit : {HookUnit[a] : a \in Apps} \cup {NoUnit}, idx : {0}, found : BOOLEAN]

TasksOK == DOMAIN task = Threads /\ \A r \in Runs : task[r] \in HookTasks

LEMMA ThreadsAreSomeone == NoOne \notin Threads /\ Runs \subseteq Threads
BY AppDaemonsAssumption, BackupRunAssumption

\* What other threads do to units does not make them run on behalf of nobody.
LEMMA QuietKept ==
    ASSUME UnitsOK, StartersOK, NEW r \in Runs, NEW v, NEW t \in Threads,
           \/ StartUnit(v, t) \/ EnableUnit(v, t)
           \/ StopUnit(v) \/ DisableUnit(v) \/ UNCHANGED unitVars
    PROVE  /\ StartersOK'
           /\ \A u \in Units : Quiet(r, u) /\ (t # r \/ u # v) => Quiet(r, u)'
           /\ StopUnit(v) => (v \in Units => Quiet(r, v)')
<1> USE ThreadsAreSomeone DEF UnitsOK, StartersOK
<1>1. StartersOK'
  BY DEF StartUnit, EnableUnit, StopUnit, DisableUnit, Bring, unitVars
<1>2. ASSUME NEW u \in Units \ {v}, Quiet(r, u) PROVE Quiet(r, u)'
  BY <1>2 DEF StartUnit, EnableUnit, StopUnit, DisableUnit, Bring, Succeeds, Balks,
              Quiet, unitVars
<1>3. ASSUME v \in Units, Quiet(r, v), t # r PROVE Quiet(r, v)'
  <2>1. CASE StartUnit(v, t)
    BY <1>3, <2>1 DEF StartUnit, Bring, Succeeds, Balks, Quiet
  <2>2. CASE EnableUnit(v, t)
    BY <1>3, <2>2 DEF EnableUnit, Bring, Succeeds, Balks, Quiet
  <2>3. CASE StopUnit(v) \/ DisableUnit(v)
    BY <1>3, <2>3 DEF StopUnit, DisableUnit, Bring, Succeeds, Balks, Quiet
  <2>4. CASE UNCHANGED unitVars
    BY <1>3, <2>4 DEF unitVars, Quiet
  <2> QED
    BY <2>1, <2>2, <2>3, <2>4
<1>4. ASSUME v \in Units, StopUnit(v) PROVE Quiet(r, v)'
  BY <1>4 DEF StopUnit, Bring, Succeeds, Balks, Quiet
<1> QED
  BY <1>1, <1>2, <1>3, <1>4

\* A unit is only disturbed by one who starts it.
LEMMA QuietUnlessStarted ==
    ASSUME UnitsOK, StartersOK, NEW v, StopUnit(v) \/ UNCHANGED unitVars,
           NEW r \in Runs, NEW u \in Units, Quiet(r, u)
    PROVE  Quiet(r, u)'
<1>1. CASE StopUnit(v)
  <2>1. CASE u = v
    BY <1>1, <2>1 DEF UnitsOK, StopUnit, Bring, Succeeds, Balks, Quiet
  <2>2. CASE u # v
    <3>1. /\ running'[u] = running[u] /\ startedBy'[u] = startedBy[u]
          /\ u \in balked => u \in balked'
      BY <1>1, <2>2 DEF UnitsOK, StartersOK, StopUnit, Bring, Succeeds, Balks
    <3> QED
      BY <3>1 DEF Quiet
  <2> QED
    BY <2>1, <2>2
<1>2. CASE UNCHANGED unitVars
  BY <1>2 DEF Quiet, unitVars
<1> QED
  BY <1>1, <1>2

LEMMA IdleTask == Idle \in HookTasks /\ Idle.unit = NoUnit
BY DEF Idle, HookTasks

LEMMA BorrowTask ==
    ASSUME NEW a \in Apps, NEW found \in BOOLEAN
    PROVE  [Idle EXCEPT !.at = "borrow", !.unit = HookUnit[a], !.found = found]
             \in HookTasks
<1>1. HookUnit[a] \in {HookUnit[b] : b \in Apps} \cup {NoUnit}
  OBVIOUS
<1> DEFINE old == Idle
<1>2. old \in HookTasks
  BY IdleTask
<1> HIDE DEF old
<1>3. [old EXCEPT !.at = "borrow", !.unit = HookUnit[a], !.found = found] \in HookTasks
  BY <1>1, <1>2 DEF HookTasks
<1> QED
  BY <1>3 DEF old

\* A thread changes its own task only.
LEMMA TaskStepTasks ==
    ASSUME TasksOK, NEW t \in Threads, TaskStep(t)
    PROVE  TasksOK' /\ \A o \in Threads \ {t} : task'[o] = task[o]
<1>1. \E tk : task' = [task EXCEPT ![t] = tk]
  <2>2. CASE EnableComponent(t)
    BY <2>2 DEF EnableComponent, Leave, Move, BreakOff
  <2>3. CASE DisableComponent(t)
    BY <2>3 DEF DisableComponent, DisableNext, Leave, Move, BreakOff
  <2>4. CASE DisableShared(t)
    BY <2>4 DEF DisableShared, DisableNext, Leave, Move, BreakOff
  <2>5. CASE EnsureEnable(t) \/ EnsureExit(t)
    BY <2>5 DEF EnsureEnable, EnsureExit, Leave, Move, BreakOff
  <2> QED
    BY <2>2, <2>3, <2>4, <2>5 DEF TaskStep
<1>2. DOMAIN task' = Threads /\ \A o \in Threads \ {t} : task'[o] = task[o]
  BY <1>1 DEF TasksOK
<1>3. CASE t \in Runs
  <2>1. task[t] \in HookTasks
    BY <1>3 DEF TasksOK
  <2>2. EnsureEnable(t) \/ EnsureExit(t)
    <3>1. task[t].at \in {"idle", "borrow", "using"}
      BY <2>1 DEF HookTasks
    <3> QED
      BY <3>1 DEF TaskStep, EnableComponent, DisableComponent, DisableShared
  <2>3. \/ task' = [task EXCEPT ![t] = Idle]
        \/ task' = [task EXCEPT ![t] = [task[t] EXCEPT !.at = "using"]]
    BY <2>2 DEF EnsureEnable, EnsureExit, Leave, Move, BreakOff
  <2> DEFINE old == task[t]
             using == [old EXCEPT !.at = "using"]
  <2>4. using \in HookTasks
    <3> HIDE DEF old
    <3> QED
      BY <2>1 DEF HookTasks, old
  <2>5. task'[t] = Idle \/ task'[t] = using
    BY <2>3 DEF TasksOK
  <2>6. task'[t] \in HookTasks
    <3> HIDE DEF using
    <3> QED
      BY <2>4, <2>5, IdleTask
  <2> QED
    BY <1>2, <2>6, ThreadsAreSomeone DEF TasksOK
<1>4. CASE t \notin Runs
  BY <1>2, <1>4, ThreadsAreSomeone DEF TasksOK
<1> QED
  BY <1>2, <1>3, <1>4

\* No step of a thread makes a unit of a manifest run on behalf of the run that
\* stopped it.
LEMMA TaskStepQuiet ==
    ASSUME UnitsOK, StartersOK, TasksOK, NEW t \in Threads, TaskStep(t), NEW r \in Runs
    PROVE  /\ StartersOK'
           /\ \A u \in Units \ {HookUnit[a] : a \in Apps} : Quiet(r, u) => Quiet(r, u)'
<1>1. CASE t # r
  <2>1. \E v : EnableUnit(v, t) \/ DisableUnit(v) \/ UNCHANGED unitVars
    BY DEF TaskStep, EnableComponent, DisableComponent, DisableShared,
           EnsureEnable, EnsureExit, BreakOff, CallRaises
  <2> QED
    BY <1>1, <2>1, QuietKept
<1>2. CASE t = r
  <2>1. task[r] \in HookTasks
    BY DEF TasksOK
  <2>2. task[r].at \in {"idle", "borrow", "using"}
        /\ task[r].unit \in {HookUnit[a] : a \in Apps} \cup {NoUnit}
    BY <2>1 DEF HookTasks
  <2>3. EnsureEnable(r) \/ EnsureExit(r)
    BY <1>2, <2>2 DEF TaskStep, EnableComponent, DisableComponent, DisableShared
  <2>4. \/ EnableUnit(task[r].unit, r) \/ DisableUnit(task[r].unit)
        \/ UNCHANGED unitVars
    BY <2>3 DEF EnsureEnable, EnsureExit, BreakOff, CallRaises
  <2>5. \A u \in Units \ {HookUnit[a] : a \in Apps} : u # task[r].unit
    BY <2>2, AppDaemonsAssumption
  <2>6. /\ StartersOK'
        /\ \A u \in Units : Quiet(r, u) /\ u # task[r].unit => Quiet(r, u)'
    BY <2>4, QuietKept, ThreadsAreSomeone
  <2> QED
    BY <2>5, <2>6
<1> QED
  BY <1>1, <1>2

QuietInv == StartersOK /\ TasksOK /\ \A r \in Runs : QuietSince(r)

LEMMA Manifest ==
    ASSUME NEW r \in Runs, NEW j \in DOMAIN Handlers[r]
    PROVE  Handlers[r][j] \in Units \ {HookUnit[a] : a \in Apps}
BY HandlersRange

\* For a run that does not move it is enough that units stay quiet.
LEMMA QuietStays ==
    ASSUME NEW r \in Runs, QuietSince(r), run'[r] = run[r],
           \A u \in Units \ {HookUnit[a] : a \in Apps} : Quiet(r, u) => Quiet(r, u)'
    PROVE  QuietSince(r)'
BY Manifest DEF QuietSince

\* For one that moves, that what it newly passes is quiet.
LEMMA QuietMoves ==
    ASSUME NEW r \in Runs, QuietSince(r), NEW at, NEW idx, NEW was,
           Moves(r, at, idx, was),
           \A u \in Units \ {HookUnit[a] : a \in Apps} : Quiet(r, u) => Quiet(r, u)',
           \A j \in DOMAIN Handlers[r] :
             Past(at, idx, was, j) =>
                \/ Past(run[r].at, run[r].idx, run[r].was, j)
                \/ Quiet(r, Handlers[r][j])'
    PROVE  QuietSince(r)'
<1>1. run'[r].at = at /\ run'[r].idx = idx /\ run'[r].was = was
  BY DEF Moves
<1> QED
  BY <1>1, Manifest DEF QuietSince

\* One run takes a step that changes units only as the loops do.
LEMMA QuietRuns ==
    ASSUME Inv, QuietInv, NEW r \in Runs, NEW at, NEW idx, NEW was,
           Moves(r, at, idx, was), NEW v,
           (StartUnit(v, r) /\ at = "start") \/ StopUnit(v) \/ UNCHANGED unitVars,
           UNCHANGED task,
           \A j \in DOMAIN Handlers[r] :
             Past(at, idx, was, j) =>
                \/ Past(run[r].at, run[r].idx, run[r].was, j)
                \/ Quiet(r, Handlers[r][j])'
    PROVE  QuietInv'
<1>1. StartersOK'
  BY QuietKept, ThreadsAreSomeone DEF Inv, QuietInv
<1>2. TasksOK'
  BY DEF QuietInv, TasksOK
<1>3. ASSUME NEW q \in Runs \ {r} PROVE QuietSince(q)'
  <2>1. run'[q] = run[q]
    BY DEF Moves
  <2>2. \A u \in Units : Quiet(q, u) => Quiet(q, u)'
    BY QuietKept, ThreadsAreSomeone DEF Inv, QuietInv
  <2> QED
    BY <2>1, <2>2, QuietStays DEF QuietInv
<1>4. QuietSince(r)'
  <2>1. CASE at = "start"
    <3>1. run'[r].at = "start"
      BY <2>1 DEF Moves
    <3> QED
      BY <3>1 DEF QuietSince, Past
  <2>2. CASE at # "start"
    <3>1. UnitsOK /\ StartersOK /\ (StopUnit(v) \/ UNCHANGED unitVars)
      BY <2>2 DEF Inv, QuietInv
    <3>2. ASSUME NEW u \in Units, Quiet(r, u) PROVE Quiet(r, u)'
      BY <3>1, <3>2, QuietUnlessStarted
    <3> QED
      BY <3>2, QuietMoves DEF QuietInv
  <2> QED
    BY <2>1, <2>2
<1> QED
  BY <1>1, <1>2, <1>3, <1>4 DEF QuietInv

LEMMA QuietStopFrom ==
    ASSUME Inv, QuietInv, NEW r \in Runs, NEW i \in 0..Len(Handlers[r]),
           StopFrom(r, i), NEW v, StopUnit(v) \/ UNCHANGED unitVars, UNCHANGED task,
           \A j \in DOMAIN Handlers[r] :
             j > i => \/ Past(run[r].at, run[r].idx, run[r].was, j)
                      \/ Quiet(r, Handlers[r][j])'
    PROVE  QuietInv'
<1>1. CASE i = 0
  <2>1. Moves(r, "pre", 1, run[r].was)
    BY <1>1, GotoMoves DEF StopFrom, Inv
  <2>2. \A j \in DOMAIN Handlers[r] : j > i
    BY <1>1, HandlersRange
  <2> QED
    BY <2>1, <2>2, QuietRuns
<1>2. CASE i # 0
  <2>1. Moves(r, "stop", i, run[r].was)
    BY <1>2, GotoMoves DEF StopFrom, Inv
  <2>2. \A j : Past("stop", i, run[r].was, j) => j > i
    BY DEF Past
  <2> QED
    BY <2>1, <2>2, QuietRuns
<1> QED
  BY <1>1, <1>2

LEMMA QuietBegin ==
    ASSUME Inv, QuietInv, NEW r \in Runs, Begin(r) \/ Install(r) PROVE QuietInv'
<1>1. UNCHANGED unitVars /\ UNCHANGED task
  BY DEF Begin, Install, daemonVars, unitVars, CallRaises
<1>2. StopFrom(r, Len(Handlers[r])) \/ \E at \in {"install", "over"} : Goto(r, at, 0)
  BY DEF Begin, Install
<1>3. CASE StopFrom(r, Len(Handlers[r]))
  <2>1. /\ Len(Handlers[r]) \in 0..Len(Handlers[r])
        /\ \A j \in DOMAIN Handlers[r] : ~(j > Len(Handlers[r]))
    BY HandlersRange
  <2> QED
    BY <1>1, <1>3, <2>1, QuietStopFrom
<1>4. CASE \E at \in {"install", "over"} : Goto(r, at, 0)
  <2>1. PICK at \in {"install", "over"} : Moves(r, at, 0, run[r].was)
    BY <1>4, GotoMoves DEF Inv
  <2> QED
    BY <1>1, <2>1, QuietRuns DEF Past
<1> QED
  BY <1>2, <1>3, <1>4

LEMMA QuietStopLook ==
    ASSUME Inv, QuietInv, NEW r \in Runs, StopLook(r) PROVE QuietInv'
<1> DEFINE i == run[r].idx
           old == run[r]
           v == running[Handlers[r][i]]
           was == [run[r].was EXCEPT ![i] = v]
<1>1. /\ run[r].at = "stop" /\ i \in DOMAIN Handlers[r]
      /\ run[r].was \in Flags(r)
      /\ UNCHANGED unitVars /\ UNCHANGED task
  BY RunFields DEF Inv, PlaceOK, StopLook, daemonVars, unitVars
<1>2. [old EXCEPT !.at = "stopping", !.was = was]
        \in [at : {"stopping"}, idx : {i}, was : {was}]
  <2>1. old \in [at : Stages, idx : Nat, was : Flags(r)] /\ i = old.idx
    BY DEF Inv, RunsOK, RunOK
  <2> HIDE DEF old, was, i
  <2> QED
    BY <2>1
<1>3. run' = [run EXCEPT ![r] = [old EXCEPT !.at = "stopping", !.was = was]]
  BY DEF StopLook, Inv, RunsOK
<1>4. Moves(r, "stopping", i, was)
  BY <1>2, <1>3 DEF Moves, Inv, RunsOK
<1>5. was[i] = v
  BY <1>1 DEF Flags
<1>6. \A j \in DOMAIN Handlers[r] : Past("stopping", i, was, j) =>
        \/ Past(run[r].at, run[r].idx, run[r].was, j)
        \/ Quiet(r, Handlers[r][j])'
  <2> SUFFICES ASSUME NEW j \in DOMAIN Handlers[r], j > i \/ (j = i /\ ~v)
               PROVE  \/ Past(run[r].at, run[r].idx, run[r].was, j)
                      \/ Quiet(r, Handlers[r][j])'
    BY <1>5 DEF Past
  <2>1. CASE j > i
    BY <1>1, <2>1 DEF Past
  <2>2. CASE j = i /\ ~v
    BY <1>1, <2>2 DEF Quiet, unitVars
  <2> QED
    BY <2>1, <2>2
<1> HIDE DEF was
<1> QED
  BY <1>1, <1>4, <1>6, QuietRuns

LEMMA QuietStopCall ==
    ASSUME Inv, QuietInv, NEW r \in Runs, StopCall(r) PROVE QuietInv'
<1>1. run[r].at = "stopping" /\ run[r].idx \in DOMAIN Handlers[r] /\ UNCHANGED task
  BY RunFields DEF Inv, PlaceOK, StopCall
<1>2. PICK i \in DOMAIN Handlers[r] : i = run[r].idx
  BY <1>1
<1> DEFINE u == Handlers[r][i]
<1>3. i - 1 \in 0..Len(Handlers[r]) /\ StopFrom(r, i - 1)
  BY <1>2, HandlersRange DEF StopCall
<1>4. IF run[r].was[i] THEN StopUnit(u) ELSE UNCHANGED unitVars
  BY <1>2 DEF StopCall
<1>5. StopUnit(u) \/ UNCHANGED unitVars
  BY <1>4
<1>6. run[r].was[i] => Quiet(r, u)'
  BY <1>4, Manifest, QuietKept, ThreadsAreSomeone DEF Inv, QuietInv
<1>7. \A j \in DOMAIN Handlers[r] :
        j > i - 1 => \/ Past(run[r].at, run[r].idx, run[r].was, j)
                     \/ Quiet(r, Handlers[r][j])'
  <2> SUFFICES ASSUME NEW j \in DOMAIN Handlers[r], j > i - 1
               PROVE  \/ Past(run[r].at, run[r].idx, run[r].was, j)
                      \/ Quiet(r, Handlers[r][j])'
    OBVIOUS
  <2>1. j = i \/ j > i
    BY HandlersRange
  <2>2. CASE j = i
    BY <1>1, <1>2, <1>6, <2>2 DEF Past
  <2>3. CASE j > i
    BY <1>1, <1>2, <2>3 DEF Past
  <2> QED
    BY <2>1, <2>2, <2>3
<1> QED
  BY <1>1, <1>3, <1>5, <1>7, QuietStopFrom

LEMMA QuietEnds ==
    ASSUME Inv, QuietInv, NEW r \in Runs, run' = [run EXCEPT ![r] = Ends(r)],
           UNCHANGED unitVars, UNCHANGED task
    PROVE  QuietInv'
<1>1. Moves(r, "over", 0, NothingRan(r))
  BY EndsMoves DEF Inv
<1> QED
  BY <1>1, QuietRuns DEF Past

\* The hooks, the handler and the starting loop.
LEMMA QuietGoto ==
    ASSUME Inv, QuietInv, NEW r \in Runs, NEW at, NEW idx, Goto(r, at, idx),
           UNCHANGED unitVars, UNCHANGED task,
           at \in {"post", "posthook", "start"}
             \/ (at \in {"pre", "prehook", "copy"} /\ run[r].at \in {"pre", "prehook"})
    PROVE  QuietInv'
<1>1. Moves(r, at, idx, run[r].was)
  BY GotoMoves DEF Inv
<1> QED
  BY <1>1, QuietRuns DEF Past

LEMMA QuietHook ==
    ASSUME Inv, QuietInv, NEW r \in Runs, Hook(r) \/ HookReturns(r) PROVE QuietInv'
<1>1. ASSUME NEW at \in {"pre", "post"}, NEW i, HookFrom(r, at, i),
             at = "pre" => run[r].at \in {"pre", "prehook"},
             UNCHANGED unitVars, UNCHANGED task
      PROVE  QuietInv'
  BY <1>1, QuietGoto DEF HookFrom
<1>2. CASE HookReturns(r)
  <2>1. UNCHANGED unitVars /\ UNCHANGED task
    BY <1>2 DEF HookReturns, daemonVars, unitVars
  <2>2. CASE run[r].at = "prehook"
    <3>1. HookFrom(r, "pre", run[r].idx + 1)
      BY <1>2, <2>2 DEF HookReturns
    <3> QED
      BY <1>1, <2>1, <2>2, <3>1
  <2>3. CASE run[r].at = "posthook"
    <3>1. HookFrom(r, "post", run[r].idx + 1)
      BY <1>2, <2>3 DEF HookReturns
    <3> QED
      BY <1>1, <2>1, <3>1
  <2> QED
    BY <1>2, <2>2, <2>3 DEF HookReturns
<1>3. ASSUME Hook(r), UNCHANGED daemonVars, NEW j, HookFrom(r, run[r].at, j)
      PROVE  QuietInv'
  BY <1>1, <1>3 DEF Hook, daemonVars, unitVars
<1>4. ASSUME Hook(r), ~\E j : HookFrom(r, run[r].at, j) /\ UNCHANGED daemonVars
      PROVE  QuietInv'
  <2> DEFINE at == run[r].at
             i == run[r].idx
             to == IF at = "pre" THEN "prehook" ELSE "posthook"
  <2>1. /\ at \in {"pre", "post"}
        /\ i \in DOMAIN RunApps[r]
        /\ Borrows(r, at, RunApps[r][i])
        /\ \/ EnsureEnter(r, HookUnit[RunApps[r][i]])
           \/ EnsureEnterMissing(r, HookUnit[RunApps[r][i]])
        /\ Goto(r, to, i)
    BY <1>4 DEF Hook
  <2>2. PICK a \in Apps : /\ HookUnit[a] \in Units
                          /\ EnsureEnter(r, HookUnit[a]) \/ EnsureEnterMissing(r, HookUnit[a])
    <3>1. RunApps[r] \in Seq(Apps)
      BY BackupRunAssumption
    <3>2. RunApps[r][i] \in Apps
      BY <2>1, <3>1
    <3> QED
      BY <2>1, <3>2, BackupRunAssumption DEF Borrows
  <2>3. UNCHANGED unitVars
    BY <2>2 DEF EnsureEnter, EnsureEnterMissing
  <2>4. Moves(r, to, i, run[r].was)
    BY <2>1, GotoMoves DEF Inv
  <2>5. TasksOK'
    <3>1. running[HookUnit[a]] \in BOOLEAN
      BY <2>2 DEF Inv, UnitsOK
    <3> DEFINE tk(f) == [Idle EXCEPT !.at = "borrow", !.unit = HookUnit[a], !.found = f]
    <3>2. \A f \in BOOLEAN : tk(f) \in HookTasks
      BY BorrowTask
    <3>3. \E f \in BOOLEAN : task' = [task EXCEPT ![r] = tk(f)]
      BY <2>2, <3>1 DEF EnsureEnter, EnsureEnterMissing, Take
    <3> HIDE DEF tk
    <3> QED
      BY <3>2, <3>3 DEF QuietInv, TasksOK
  <2>6. \A q \in Runs : QuietSince(q)'
    <3>1. \A q \in Runs : \A u : Quiet(q, u) => Quiet(q, u)'
      BY <2>3 DEF Quiet, unitVars
    <3>2. QuietSince(r)'
      BY <2>1, <2>4, <3>1, QuietMoves DEF QuietInv, Past
    <3>3. ASSUME NEW q \in Runs \ {r} PROVE QuietSince(q)'
      BY <2>4, <3>1, QuietStays DEF QuietInv, Moves
    <3> QED
      BY <3>2, <3>3
  <2> QED
    BY <2>3, <2>5, <2>6 DEF QuietInv, StartersOK, unitVars
<1> QED
  BY <1>2, <1>3, <1>4

LEMMA QuietStartCall ==
    ASSUME Inv, QuietInv, NEW r \in Runs, StartCall(r) PROVE QuietInv'
<1> DEFINE i == run[r].idx
           was == [run[r].was EXCEPT ![i] = FALSE]
<1>1. Moves(r, "start", i + 1, was)
  <2> DEFINE old == run[r]
  <2>1. [old EXCEPT !.idx = i + 1, !.was = was]
          \in [at : {"start"}, idx : {i + 1}, was : {was}]
    <3>1. old \in [at : Stages, idx : Nat, was : Flags(r)] /\ old.at = "start"
      BY DEF Inv, RunsOK, RunOK, StartCall
    <3> HIDE DEF old, was, i
    <3> QED
      BY <3>1
  <2>2. run' = [run EXCEPT ![r] = [old EXCEPT !.idx = i + 1, !.was = was]]
    BY DEF StartCall, Inv, RunsOK
  <2> QED
    BY <2>1, <2>2 DEF Moves, Inv, RunsOK
<1>2. (\E v : StartUnit(v, r)) \/ UNCHANGED unitVars
  BY DEF StartCall
<1>3. UNCHANGED task
  BY DEF StartCall
<1> HIDE DEF was
<1>4. \A j : ~Past("start", i + 1, was, j)
  BY DEF Past
<1> QED
  BY <1>1, <1>2, <1>3, <1>4, QuietRuns

LEMMA QuietThreads ==
    ASSUME Inv, QuietInv, NEW t \in Threads,
           \/ t \in Runs /\ HookStep(t)
           \/ t \notin Runs /\ (UserBegins(t) \/ UserStep(t))
    PROVE  QuietInv'
<1>1. UNCHANGED run
  BY DEF HookStep, UserBegins, UserStep
<1>2. CASE TaskStep(t)
  <2>1. \A r \in Runs :
          \A u \in Units \ {HookUnit[a] : a \in Apps} : Quiet(r, u) => Quiet(r, u)'
    BY <1>2, TaskStepQuiet DEF Inv, QuietInv
  <2>2. StartersOK'
    <3>1. (\E v : EnableUnit(v, t) \/ DisableUnit(v)) \/ UNCHANGED unitVars
      BY <1>2 DEF TaskStep, EnableComponent, DisableComponent, DisableShared,
                  EnsureEnable, EnsureExit, BreakOff, CallRaises
    <3> QED
      BY <3>1, ThreadsAreSomeone
      DEF QuietInv, StartersOK, EnableUnit, DisableUnit, Bring, unitVars
  <2>3. TasksOK'
    BY <1>2, TaskStepTasks DEF QuietInv
  <2>4. \A r \in Runs : QuietSince(r)'
    BY <1>1, <2>1, QuietStays DEF QuietInv
  <2> QED
    BY <2>2, <2>3, <2>4 DEF QuietInv
<1>3. CASE t \notin Runs /\ UserBegins(t)
  <2>1. UNCHANGED unitVars
    BY <1>3 DEF UserBegins, PressButton, EnsureEnter, EnsureEnterMissing
  <2>2. TasksOK'
    <3>1. \E tk : task' = [task EXCEPT ![t] = tk]
      BY <1>3 DEF UserBegins, PressButton, EnsureEnter, EnsureEnterMissing, Take
    <3> QED
      BY <1>3, <3>1 DEF QuietInv, TasksOK
  <2>3. \A r \in Runs : QuietSince(r)'
    BY <1>1, <2>1, QuietStays DEF QuietInv, Quiet, unitVars
  <2> QED
    BY <2>1, <2>2, <2>3 DEF QuietInv, StartersOK, unitVars
<1> QED
  BY <1>2, <1>3 DEF HookStep, UserStep

LEMMA QuietCrash == ASSUME Inv, QuietInv, Crash PROVE QuietInv'
<1>1. /\ UNCHANGED unitVars
      /\ task' = [t \in Threads |-> Idle]
      /\ run' = [r \in Runs |-> IF run[r].at = "idle" THEN run[r] ELSE Ends(r)]
  BY DEF Crash
<1>2. TasksOK'
  BY <1>1, IdleTask, ThreadsAreSomeone DEF TasksOK
<1>3. ASSUME NEW r \in Runs PROVE QuietSince(r)'
  <2>1. CASE run[r].at = "idle"
    BY <1>1, <2>1 DEF QuietSince, Past
  <2>2. CASE run[r].at # "idle"
    <3> DEFINE old == run[r]
               new == [old EXCEPT !.at = "over", !.idx = 0, !.was = NothingRan(r)]
    <3>1. new \in [at : {"over"}, idx : {0}, was : {NothingRan(r)}]
      <4>1. old \in [at : Stages, idx : Nat, was : Flags(r)]
        BY DEF Inv, RunsOK, RunOK
      <4> HIDE DEF old
      <4> QED
        BY <4>1
    <3>2. run'[r] = new
      BY <1>1, <2>2 DEF Ends
    <3>3. run'[r].at = "over"
      <4> HIDE DEF new
      <4> QED
        BY <3>1, <3>2
    <3> QED
      BY <3>3 DEF QuietSince, Past
  <2> QED
    BY <2>1, <2>2
<1> QED
  BY <1>1, <1>2, <1>3 DEF QuietInv, StartersOK, unitVars

LEMMA QuietNext == Inv /\ QuietInv /\ [Next]_vars => QuietInv'
<1> SUFFICES ASSUME Inv, QuietInv, [Next]_vars PROVE QuietInv'
  OBVIOUS
<1>1. CASE UNCHANGED vars
  BY <1>1 DEF vars, daemonVars, unitVars, QuietInv, StartersOK, TasksOK, QuietSince,
              Quiet, Past
<1>2. ASSUME NEW r \in Runs, StopRaises(r) \/ StartRaises(r) \/ Unlock(r)
      PROVE  QuietInv'
  BY <1>2, QuietEnds
  DEF StopRaises, StartRaises, Unlock, GivesUp, CallRaises, daemonVars, unitVars
<1>3. ASSUME NEW r \in Runs, Copy(r) PROVE QuietInv'
  BY <1>3, QuietGoto DEF Copy, CallRaises, daemonVars, unitVars
<1>4. CASE Next
  BY <1>2, <1>3, <1>4, QuietBegin, QuietStopLook, QuietStopCall, QuietHook,
     QuietStartCall, QuietThreads, QuietCrash, ThreadsAreSomeone DEF Next, RunStep
<1> QED
  BY <1>1, <1>4

LEMMA AlwaysQuiet == Spec => []QuietInv
<1>1. Init => QuietInv
  <2> SUFFICES ASSUME Init PROVE QuietInv
    OBVIOUS
  <2>1. StartersOK /\ TasksOK
    BY IdleTask, ThreadsAreSomeone DEF Init, DaemonsInit, StartersOK, TasksOK
  <2>2. \A r \in Runs : run[r].at = "idle"
    BY DEF Init
  <2> QED
    BY <2>1, <2>2 DEF QuietInv, QuietSince, Past
<1> QED
  BY AlwaysInv, QuietNext, <1>1, PTL DEF Spec

\* Files are copied while the services that write them are stopped: a service
\* that runs all the same was started by another thread since, or systemctl
\* failed to stop it.
THEOREM CopiesAreQuiet == Spec => []QuietCopy
<1>1. QuietInv => QuietCopy
  BY DEF QuietInv, QuietSince, Past, Quiet, QuietCopy, Range
<1> QED
  BY AlwaysQuiet, <1>1, PTL

-----------------------------------------------------------------------------
(* Types.                                                                  *)

Tasks ==
    [at : Places, app : Apps \cup {NoUnit}, unit : Units \cup {NoUnit},
     idx : Int, found : BOOLEAN]

ThreadsOK ==
    /\ task \in [Threads -> Tasks]
    /\ raced \subseteq Units
    /\ partial \subseteq Apps
    /\ failures \in 0..MaxFailures

RestOK ==
    /\ locked \in [Apps -> BOOLEAN]
    /\ lost \subseteq Units
    /\ stuck \subseteq Apps
    /\ tasks \in 0..MaxTasks

LEMMA IdleType == Idle \in Tasks
BY DEF Idle, Tasks, Places

LEMMA BeginsType ==
    ASSUME NEW at \in Places, NEW a \in Apps \cup {NoUnit},
           NEW u \in Units \cup {NoUnit}, NEW i \in Int, NEW f \in BOOLEAN
    PROVE  /\ [Idle EXCEPT !.at = at, !.app = a, !.idx = i] \in Tasks
           /\ [Idle EXCEPT !.at = at, !.unit = u, !.found = f] \in Tasks
<1> DEFINE old == Idle
<1>1. old \in Tasks
  BY IdleType
<1> HIDE DEF old
<1>2. [old EXCEPT !.at = at, !.app = a, !.idx = i] \in Tasks
  BY <1>1 DEF Tasks
<1>3. [old EXCEPT !.at = at, !.unit = u, !.found = f] \in Tasks
  BY <1>1 DEF Tasks
<1> QED
  BY <1>2, <1>3 DEF old

LEMMA GoesOnType ==
    ASSUME NEW tk \in Tasks, NEW at \in Places
    PROVE  /\ [tk EXCEPT !.at = at] \in Tasks
           /\ [tk EXCEPT !.idx = @ + 1] \in Tasks
           /\ [tk EXCEPT !.at = at, !.idx = @ - 1] \in Tasks
<1>1. tk.idx + 1 \in Int /\ tk.idx - 1 \in Int
  BY DEF Tasks
<1>2. [tk EXCEPT !.at = at] \in Tasks
  BY DEF Tasks
<1>3. [tk EXCEPT !.idx = @ + 1] \in Tasks
  BY <1>1 DEF Tasks
<1>4. [tk EXCEPT !.at = at, !.idx = @ - 1] \in Tasks
  BY <1>1 DEF Tasks
<1> QED
  BY <1>2, <1>3, <1>4

LEMMA TakesType ==
    ASSUME ThreadsOK, NEW t \in Threads, NEW tk \in Tasks,
           Take(t, tk) \/ Move(t, tk)
    PROVE  /\ task' \in [Threads -> Tasks]
           /\ raced' \subseteq Units /\ partial' \subseteq Apps
<1>1. task' = [task EXCEPT ![t] = tk]
  BY DEF Take, Move
<1>2. task' \in [Threads -> Tasks]
  BY <1>1 DEF ThreadsOK
<1>3. \A k : Touches(k) \subseteq Units
  BY DEF Touches
<1>4. raced' \subseteq Units
  BY <1>3 DEF ThreadsOK, Take, Move
<1>5. partial' \subseteq Apps
  BY DEF ThreadsOK, Take, Move
<1> QED
  BY <1>2, <1>4, <1>5

\* What the calls of a step do to the count of failures.
Fails == UNCHANGED failures \/ (failures < MaxFailures /\ failures' = failures + 1)

LEMMA RaisesType == ASSUME ThreadsOK, Fails PROVE failures' \in 0..MaxFailures
BY AppDaemonsAssumption DEF ThreadsOK, Fails

LEMMA UnitsFail ==
    ASSUME NEW u, NEW who,
           \/ StartUnit(u, who) \/ StopUnit(u) \/ EnableUnit(u, who)
           \/ DisableUnit(u) \/ CallRaises
    PROVE  Fails
BY DEF StartUnit, StopUnit, EnableUnit, DisableUnit, CallRaises, Succeeds, Balks, Fails

LEMMA TaskStepType ==
    ASSUME ThreadsOK, NEW t \in Threads, TaskStep(t) PROVE ThreadsOK'
<1> DEFINE tk == task[t]
<1>0. tk \in Tasks
  BY DEF ThreadsOK
<1>1. Fails
  <2>1. UNCHANGED failures \/ CallRaises \/ \E u : EnableUnit(u, t) \/ DisableUnit(u)
    BY DEF TaskStep, EnableComponent, DisableComponent, DisableShared,
           EnsureEnable, EnsureExit, BreakOff
  <2> QED
    BY <2>1, UnitsFail DEF Fails
<1>2. \E new \in Tasks : Move(t, new)
  <2>1. /\ [tk EXCEPT !.at = "last"] \in Tasks /\ [tk EXCEPT !.at = "using"] \in Tasks
        /\ [tk EXCEPT !.idx = @ + 1] \in Tasks
        /\ [tk EXCEPT !.at = "disable", !.idx = @ - 1] \in Tasks
    <3> HIDE DEF tk
    <3>1. "last" \in Places /\ "using" \in Places /\ "disable" \in Places
      BY DEF Places
    <3>2. [tk EXCEPT !.at = "last"] \in Tasks
      BY <1>0, GoesOnType, <3>1, Zenon
    <3>3. [tk EXCEPT !.at = "using"] \in Tasks
      BY <1>0, GoesOnType, <3>1, Zenon
    <3>4. [tk EXCEPT !.idx = @ + 1] \in Tasks
      BY <1>0, GoesOnType, <3>1, Zenon
    <3>5. [tk EXCEPT !.at = "disable", !.idx = @ - 1] \in Tasks
      BY <1>0, GoesOnType, <3>1, Zenon
    <3> QED
      BY <3>2, <3>3, <3>4, <3>5
  <2>0. Leave(t) \/ BreakOff(t) => \E new \in Tasks : Move(t, new)
    BY IdleType, Zenon DEF Leave, BreakOff
  <2>2. DisableNext(t, tk) => \E new \in Tasks : Move(t, new)
    BY <1>0, <2>0, <2>1, Zenon DEF DisableNext
  <2>3. CASE EnableComponent(t)
    BY <1>0, <2>0, <2>1, <2>3, Zenon DEF EnableComponent
  <2>4. CASE DisableComponent(t)
    BY <1>0, <2>0, <2>1, <2>2, <2>4, Zenon DEF DisableComponent
  <2>5. CASE DisableShared(t)
    BY <1>0, <2>0, <2>2, <2>5, Zenon DEF DisableShared
  <2>6. CASE EnsureEnable(t) \/ EnsureExit(t)
    BY <1>0, <2>0, <2>1, <2>6, Zenon DEF EnsureEnable, EnsureExit
  <2> QED
    BY <2>3, <2>4, <2>5, <2>6, Zenon DEF TaskStep
<1> QED
  BY <1>1, <1>2, TakesType, RaisesType DEF ThreadsOK

\* A thread that is idle begins a task.
LEMMA EnterType ==
    ASSUME UnitsOK, ThreadsOK, NEW t \in Threads, NEW a \in Apps,
           \/ PressButton(t, a)
           \/ /\ HookUnit[a] # NoUnit
              /\ EnsureEnter(t, HookUnit[a]) \/ EnsureEnterMissing(t, HookUnit[a])
    PROVE  ThreadsOK'
<1>1. \E tk \in Tasks : Take(t, tk)
  <2>0. /\ "enable" \in Places /\ "disable" \in Places /\ "borrow" \in Places
        /\ a \in Apps \cup {NoUnit} /\ 1 \in Int
    BY DEF Places
  <2>1. CASE PressButton(t, a)
    <3>1. Len(Components[a]) \in Int
      BY AppDaemonsAssumption
    <3>2. [Idle EXCEPT !.at = "disable", !.app = a, !.idx = Len(Components[a])] \in Tasks
      BY <2>0, <3>1, BeginsType, Zenon
    <3>3. [Idle EXCEPT !.at = "enable", !.app = a, !.idx = 1] \in Tasks
      BY <2>0, BeginsType, Zenon
    <3>4. Take(t, [Idle EXCEPT !.at = "disable", !.app = a, !.idx = Len(Components[a])])
          \/ Take(t, [Idle EXCEPT !.at = "enable", !.app = a, !.idx = 1])
      BY <2>1, Zenon DEF PressButton
    <3> QED
      BY <3>2, <3>3, <3>4, Zenon
  <2>2. CASE /\ HookUnit[a] # NoUnit
             /\ EnsureEnter(t, HookUnit[a]) \/ EnsureEnterMissing(t, HookUnit[a])
    <3>1. HookUnit[a] \in Units \cup {NoUnit} /\ HookUnit[a] \in Units
      BY <2>2, BackupRunAssumption
    <3>2. running[HookUnit[a]] \in BOOLEAN
      BY <3>1 DEF UnitsOK
    <3>3. /\ [Idle EXCEPT !.at = "borrow", !.unit = HookUnit[a],
                          !.found = running[HookUnit[a]]] \in Tasks
          /\ [Idle EXCEPT !.at = "borrow", !.unit = HookUnit[a], !.found = TRUE] \in Tasks
      BY <2>0, <3>1, <3>2, BeginsType, Zenon
    <3> QED
      BY <2>2, <3>3, Zenon DEF EnsureEnter, EnsureEnterMissing
  <2> QED
    BY <2>1, <2>2
<1>2. UNCHANGED failures
  BY DEF PressButton, EnsureEnter, EnsureEnterMissing
<1> QED
  BY <1>1, <1>2, TakesType DEF ThreadsOK

LEMMA AppsOfType == ASSUME NEW r \in Runs PROVE AppsOf(r) \subseteq Apps
<1>1. RunApps[r] \in Seq(Apps)
  BY BackupRunAssumption
<1> QED
  BY <1>1 DEF AppsOf

\* What a step of a run does, but for units and its own place.
LEMMA RunStepType ==
    ASSUME Inv, ThreadsOK, RestOK, NEW r \in Runs, Begin(r) \/ RunStep(r)
    PROVE  ThreadsOK' /\ RestOK'
<1> USE ThreadsAreSomeone
<1>1. CASE Begin(r)
  <2>1. ThreadsOK'
    BY <1>1 DEF Begin, daemonVars, ThreadsOK
  <2>2. locked' \in [Apps -> BOOLEAN] /\ UNCHANGED <<lost, stuck>>
    BY <1>1 DEF Begin, SetLocked, RestOK
  <2>3. tasks' \in 0..MaxTasks
    BY <1>1, BackupRunAssumption DEF Begin, RestOK
  <2> QED
    BY <2>1, <2>2, <2>3 DEF RestOK
<1>2. CASE Hook(r)
  <2>1. UNCHANGED daemonVars
        \/ \E a \in Apps : /\ HookUnit[a] # NoUnit
                           /\ \/ EnsureEnter(r, HookUnit[a])
                              \/ EnsureEnterMissing(r, HookUnit[a])
    <3>1. RunApps[r] \in Seq(Apps)
      BY BackupRunAssumption
    <3>2. \A i \in DOMAIN RunApps[r] : RunApps[r][i] \in Apps
      BY <3>1
    <3> QED
      BY <1>2, <3>2 DEF Hook, Borrows
  <2>2. ThreadsOK'
    BY <2>1, EnterType DEF Inv, daemonVars, ThreadsOK
  <2> QED
    BY <1>2, <2>2 DEF Hook, historyVars, RestOK
<1>3. CASE HookStep(r)
  BY <1>3, TaskStepType DEF HookStep, historyVars, RestOK
<1>4. ASSUME UNCHANGED <<task, raced, partial, tasks>>,
             Fails,
             locked' \in [Apps -> BOOLEAN], lost' \subseteq Units, stuck' \subseteq Apps
      PROVE  ThreadsOK' /\ RestOK'
  BY <1>4, RaisesType DEF ThreadsOK, RestOK
<1>5. CASE Install(r)
  <2>1. locked' \in [Apps -> BOOLEAN]
    BY <1>5 DEF Install, SetLocked, RestOK
  <2> QED
    BY <1>4, <1>5, <2>1 DEF Install, CallRaises, Fails, daemonVars, historyVars, RestOK
<1>6. CASE StopLook(r) \/ HookReturns(r)
  BY <1>4, <1>6 DEF StopLook, HookReturns, Fails, daemonVars, historyVars, RestOK
<1>7. CASE StopCall(r) \/ StartCall(r)
  <2>1. Fails
    BY <1>7, UnitsFail DEF StopCall, StartCall, Fails
  <2> QED
    BY <1>4, <1>7, <2>1 DEF StopCall, StartCall, historyVars, RestOK
<1>8. CASE Copy(r)
  BY <1>4, <1>8 DEF Copy, CallRaises, Fails, daemonVars, historyVars, RestOK
<1>9. CASE StopRaises(r) \/ StartRaises(r)
  BY <1>4, <1>9, AppsOfType
  DEF StopRaises, StartRaises, GivesUp, CallRaises, Fails, RestOK
<1>10. CASE Unlock(r)
  <2>1. locked' \in [Apps -> BOOLEAN]
    BY <1>10 DEF Unlock, SetLocked, RestOK
  <2> QED
    BY <1>4, <1>10, <2>1 DEF Unlock, Fails, daemonVars, RestOK
<1> QED
  BY <1>1, <1>2, <1>3, <1>5, <1>6, <1>7, <1>8, <1>9, <1>10 DEF RunStep

LEMMA TypesKept ==
    Inv /\ ThreadsOK /\ RestOK /\ [Next]_vars => ThreadsOK' /\ RestOK'
<1> SUFFICES ASSUME Inv, ThreadsOK, RestOK, [Next]_vars
             PROVE  ThreadsOK' /\ RestOK'
  OBVIOUS
<1>1. CASE UNCHANGED vars
  BY <1>1 DEF vars, daemonVars, ThreadsOK, RestOK
<1>2. ASSUME NEW t \in Threads \ Runs, UserBegins(t) PROVE ThreadsOK' /\ RestOK'
  <2>1. ThreadsOK'
    BY <1>2, EnterType DEF UserBegins, Inv
  <2>2. tasks' \in 0..MaxTasks
    BY <1>2, BackupRunAssumption DEF UserBegins, RestOK
  <2> QED
    BY <1>2, <2>1, <2>2 DEF UserBegins, RestOK
<1>3. ASSUME NEW t \in Threads \ Runs, UserStep(t) PROVE ThreadsOK' /\ RestOK'
  BY <1>3, TaskStepType DEF UserStep, historyVars, RestOK
<1>4. CASE Crash
  <2>1. failures' \in 0..MaxFailures
    BY <1>4, AppDaemonsAssumption DEF Crash, ThreadsOK
  <2>2. task' \in [Threads -> Tasks]
    BY <1>4, IdleType DEF Crash
  <2>3. raced' \subseteq Units /\ partial' \subseteq Apps
    BY <1>4 DEF Crash, ThreadsOK
  <2>4. RestOK'
    BY <1>4 DEF Crash, RestOK
  <2> QED
    BY <2>1, <2>2, <2>3, <2>4 DEF ThreadsOK
<1> QED
  BY <1>1, <1>2, <1>3, <1>4, RunStepType DEF Next

LEMMA AlwaysTyped == Spec => [](ThreadsOK /\ RestOK)
<1>1. Init => ThreadsOK /\ RestOK
  BY IdleType, AppDaemonsAssumption, BackupRunAssumption
  DEF Init, DaemonsInit, ThreadsOK, RestOK
<1> QED
  BY AlwaysInv, TypesKept, <1>1, PTL DEF Spec

\* Values stay what they should be; a loop over handlers stays within them.
THEOREM TypeCorrect == Spec => []TypeOK
<1>1. Inv /\ QuietInv /\ ThreadsOK /\ RestOK => TypeOK
  <2> SUFFICES ASSUME Inv, QuietInv, ThreadsOK, RestOK PROVE TypeOK
    OBVIOUS
  <2>1. \A t \in Threads :
          /\ task[t].at \in Places
          /\ task[t].app \in Apps \cup {NoUnit}
          /\ task[t].unit \in Units \cup {NoUnit}
    <3>1. \A t \in Threads : task[t] \in Tasks
      BY DEF ThreadsOK
    <3> QED
      BY <3>1 DEF Tasks
  <2>2. \A r \in Runs :
          /\ run[r].at \in Stages
          /\ run[r].was \in [DOMAIN Handlers[r] -> BOOLEAN]
          /\ run[r].at \in {"stop", "stopping"} => run[r].idx \in DOMAIN Handlers[r]
    BY RunFields DEF Inv, PlaceOK, Flags
  <2> QED
    BY <2>1, <2>2, Zenon
    DEF TypeOK, Inv, QuietInv, UnitsOK, StartersOK, ThreadsOK, RestOK
<1> QED
  BY AlwaysInv, AlwaysQuiet, AlwaysTyped, <1>1, PTL

===============================================================================
