-------------------------- MODULE SharedDaemonProofs --------------------------
(***************************************************************************)
(* Proofs about SharedDaemon (plinth/daemon.py) in BackupRun: a daemon     *)
(* that several apps use is on for each of them, for any apps and units,   *)
(* backups, restores, threads that enable and disable apps, and hooks.     *)
(***************************************************************************)
EXTENDS BackupRunProofs

\* Apps that use shared daemons have other units besides, which are their own;
\* a backup manifest does not list their web configurations; hooks borrow
\* shared daemons.
OwnUnits ==
    /\ NoUnit \notin Apps
    /\ \A a \in Apps : HookUnit[a] \in Shared \cup {NoUnit}
    /\ \A a \in Apps : UnitsOf(a) \cap Shared # {} =>
          /\ UnitsOf(a) \ Shared # {}
          /\ \A b \in Apps \ {a} : UnitsOf(a) \cap UnitsOf(b) \subseteq Shared
          /\ \A r \in Runs : \A i \in DOMAIN Handlers[r] :
                Handlers[r][i] \notin UnitsOf(a) \cap Web

-----------------------------------------------------------------------------
(* The invariant.                                                          *)

Changing == {"enable", "disable", "last"}
Borrowing == {"borrow", "using"}

\* A failed systemctl may have brought about only one of the two.
On(s) == enabled[s] /\ running[s]

\* What a task refers to.
ShapeOK(tk) ==
    /\ tk.at = "idle" => tk.app = NoUnit
    /\ tk.at \in Changing => tk.app \in Apps
    /\ tk.at = "last" => /\ tk.idx \in DOMAIN Components[tk.app]
                         /\ Components[tk.app][tk.idx] \in Shared
    /\ tk.at \in Borrowing => tk.app = NoUnit /\ tk.unit \in Shared

\* Two threads that work on a unit have raced for it.
Exclusive == \A t, o \in Threads :
    t # o => Touches(task[t]) \cap Touches(task[o]) \subseteq raced

\* The loop that enables has brought s up when it is past it, if no systemctl
\* has failed.
EnabledSoFar(tk, s) ==
    tk.at = "enable" /\ tk.app \notin partial =>
        \A j \in DOMAIN Components[tk.app] :
            j < tk.idx /\ Components[tk.app][j] = s => On(s)

\* The loop that disables leaves the app's own units off, likewise.
DisabledSoFar(tk) ==
    tk.at \in {"disable", "last"} /\ tk.app \notin partial =>
        \A j \in DOMAIN Components[tk.app] :
            j > tk.idx /\ Components[tk.app][j] \notin Shared
                => ~enabled[Components[tk.app][j]]

\* The last app to use s is the last one until s is disabled.
StillLast(tk, s) ==
    tk.at = "last" /\ Components[tk.app][tk.idx] = s =>
        \A b \in Apps \ {tk.app} : s \in UnitsOf(b) => ~IsEnabled(b)

\* What was found off was needed by nobody, and is until it is put back.
StillUnused(tk, s) ==
    tk.at \in Borrowing /\ ~tk.found =>
        \A b \in Apps : s \in UnitsOf(b) => ~IsEnabled(b) \/ b \in partial

WorkOK(tk, s) ==
    s \in Touches(tk) =>
        /\ EnabledSoFar(tk, s)
        /\ DisabledSoFar(tk)
        /\ StillLast(tk, s)
        /\ StillUnused(tk, s)

Kept(a, s) ==
    IsEnabled(a) /\ a \notin partial /\ (\A t \in Threads : task[t].app # a)
        => On(s)

SharedOK(s) ==
    /\ \A t \in Threads : WorkOK(task[t], s)
    /\ \A a \in Apps : s \in UnitsOf(a) => Kept(a, s)

SharedInv ==
    /\ \A t \in Threads : ShapeOK(task[t])
    /\ Exclusive
    /\ \A s \in Shared \ raced : SharedOK(s)

Typed == UnitsOK /\ ThreadsOK

-----------------------------------------------------------------------------
(* Facts about tasks and units.                                            *)

LEMMA Parts ==
    ASSUME NEW a \in Apps
    PROVE  /\ \A j \in DOMAIN Components[a] :
                Components[a][j] \in UnitsOf(a) /\ j \in Nat
           /\ \A u \in UnitsOf(a) : \E j \in DOMAIN Components[a] : u = Components[a][j]
           /\ UnitsOf(a) \subseteq Units
           /\ DOMAIN Components[a] = 1..Len(Components[a])
           /\ Len(Components[a]) \in Nat
<1>1. Components[a] \in Seq(Units)
  BY AppDaemonsAssumption
<1> QED
  BY <1>1 DEF UnitsOf

LEMMA SharedUnits == Shared \subseteq Units /\ Shared \cap Web = {} /\ NoUnit \notin Shared
BY AppDaemonsAssumption

LEMMA IdleTouches == Touches(Idle) = {} /\ ShapeOK(Idle)
BY DEF Touches, Idle, ShapeOK, Changing, Borrowing

\* What a task that changes an app, or borrows a unit, touches.
LEMMA TouchesWhat ==
    ASSUME NEW tk, ShapeOK(tk)
    PROVE  /\ tk.at \in Changing => Touches(tk) = UnitsOf(tk.app)
           /\ tk.at \in Borrowing => Touches(tk) = {tk.unit}
<1>1. CASE tk.at \in Changing
  BY <1>1, Parts DEF ShapeOK, Touches, Changing, Borrowing
<1>2. CASE tk.at \in Borrowing
  BY <1>2, SharedUnits DEF ShapeOK, Touches, Changing, Borrowing
<1> QED
  BY <1>1, <1>2 DEF Changing, Borrowing

\* An app is on or off with its own units.
LEMMA SameEnabled ==
    ASSUME NEW b \in Apps, \A u \in UnitsOf(b) \ Shared : enabled'[u] = enabled[u]
    PROVE  IsEnabled(b)' <=> IsEnabled(b)
BY DEF IsEnabled, UnitsOf

-----------------------------------------------------------------------------
(* A step of one thread, seen by the others.                               *)

\* What the step of a thread that works on touched units may change.
Local(t) ==
    /\ \A u \in Units \ Touches(task[t]) :
          enabled'[u] = enabled[u] /\ running'[u] = running[u]
    /\ \A b \in Apps : b # task[t].app => (b \in partial' <=> b \in partial)

\* Nothing changes for s and the app b that uses it.
Same(b, s) ==
    /\ \A u \in (UnitsOf(b) \ Shared) \cup {s} : enabled'[u] = enabled[u]
    /\ running'[s] = running[s]
    /\ b \in partial' <=> b \in partial

LEMMA PlaceOf ==
    ASSUME ThreadsOK, NEW t \in Threads
    PROVE  task[t] \in Tasks /\ task[t].at \in {"idle"} \cup Changing \cup Borrowing
<1>1. task[t] \in Tasks
  BY DEF ThreadsOK
<1> QED
  BY <1>1 DEF Tasks, Places, Changing, Borrowing

LEMMA Elsewhere ==
    ASSUME OwnUnits, Typed, SharedInv, NEW t \in Threads, Local(t),
           NEW s \in Shared, s \notin Touches(task[t]),
           NEW b \in Apps, s \in UnitsOf(b)
    PROVE  task[t].app # b /\ Same(b, s)
<1>1. /\ ShapeOK(task[t])
      /\ task[t].at \in {"idle"} \cup Changing \cup Borrowing
  BY PlaceOf DEF Typed, SharedInv
<1>2. task[t].app # b
  BY <1>1, TouchesWhat DEF OwnUnits, ShapeOK
<1>3. ASSUME NEW u \in UnitsOf(b) \ Shared PROVE enabled'[u] = enabled[u]
  <2>1. u \in Units
    BY Parts
  <2>2. SUFFICES ASSUME u \in Touches(task[t]) PROVE FALSE
    BY <2>1 DEF Local
  <2>3. CASE task[t].at \in Changing
    BY <1>1, <1>2, <2>2, <2>3, TouchesWhat DEF OwnUnits, ShapeOK
  <2>4. CASE task[t].at \in Borrowing
    BY <1>1, <2>2, <2>4, TouchesWhat DEF ShapeOK
  <2>5. CASE task[t].at = "idle"
    BY <2>2, <2>5 DEF Touches
  <2> QED
    BY <1>1, <2>3, <2>4, <2>5
<1>4. enabled'[s] = enabled[s] /\ running'[s] = running[s]
  BY SharedUnits DEF Local
<1> QED
  BY <1>2, <1>3, <1>4 DEF Local, Same

\* What the units and apps of s are like decides whether work on s is well.
LEMMA WorkKept ==
    ASSUME NEW tk, ShapeOK(tk), NEW s, WorkOK(tk, s),
           \A b \in Apps : s \in UnitsOf(b) => Same(b, s)
    PROVE  WorkOK(tk, s)'
<1> SUFFICES ASSUME s \in Touches(tk)
             PROVE  (/\ EnabledSoFar(tk, s) /\ DisabledSoFar(tk)
                     /\ StillLast(tk, s) /\ StillUnused(tk, s))'
  BY DEF WorkOK, Touches, UnitsOf
<1>1. \A b \in Apps : s \in UnitsOf(b) => (IsEnabled(b)' <=> IsEnabled(b))
  BY SameEnabled DEF Same
<1>2. tk.at \in Changing => tk.app \in Apps /\ s \in UnitsOf(tk.app)
  BY TouchesWhat DEF ShapeOK
<1>3. EnabledSoFar(tk, s)'
  BY <1>2 DEF WorkOK, EnabledSoFar, Same, Changing, On
<1>4. DisabledSoFar(tk)'
  <2> SUFFICES ASSUME tk.at \in {"disable", "last"}, tk.app \notin partial',
                      NEW j \in DOMAIN Components[tk.app],
                      j > tk.idx, Components[tk.app][j] \notin Shared
               PROVE  ~enabled'[Components[tk.app][j]]
    BY DEF DisabledSoFar
  <2>1. tk.app \in Apps /\ Same(tk.app, s)
    BY <1>2 DEF Changing
  <2>2. Components[tk.app][j] \in UnitsOf(tk.app) \ Shared
    BY <2>1, Parts
  <2>3. tk.app \notin partial
    BY <2>1 DEF Same
  <2> QED
    BY <2>1, <2>2, <2>3 DEF WorkOK, DisabledSoFar, Same
<1>5. StillLast(tk, s)'
  <2> SUFFICES ASSUME tk.at = "last", Components[tk.app][tk.idx] = s,
                      NEW b \in Apps \ {tk.app}, s \in UnitsOf(b)
               PROVE  ~IsEnabled(b)'
    BY DEF StillLast, UnitsOf
  <2> QED
    BY <1>1 DEF WorkOK, StillLast
<1>6. StillUnused(tk, s)'
  <2> SUFFICES ASSUME tk.at \in Borrowing, ~tk.found, NEW b \in Apps, s \in UnitsOf(b)
               PROVE  ~IsEnabled(b)' \/ b \in partial'
    BY DEF StillUnused, UnitsOf
  <2> QED
    BY <1>1 DEF WorkOK, StillUnused, Same
<1> QED
  BY <1>3, <1>4, <1>5, <1>6

\* A thread goes on with its task, or leaves it: what must be shown is that
\* the units it touches are all right.
LEMMA GoesOn ==
    ASSUME OwnUnits, Typed, SharedInv, NEW t \in Threads, NEW new,
           task' = [task EXCEPT ![t] = new], ShapeOK(new),
           Touches(new) \subseteq Touches(task[t]),
           UNCHANGED raced, Local(t),
           \A s \in (Shared \ raced) \cap Touches(task[t]) :
              /\ WorkOK(new, s)'
              /\ \A a \in Apps : s \in UnitsOf(a) => Kept(a, s)'
    PROVE  SharedInv'
<1>1. \A o \in Threads : task'[o] = IF o = t THEN new ELSE task[o]
  BY DEF Typed, ThreadsOK
<1>2. \A o \in Threads : ShapeOK(task'[o])
  BY <1>1 DEF SharedInv
<1>3. Exclusive'
  BY <1>1 DEF SharedInv, Exclusive, Touches, UnitsOf
<1>4. ASSUME NEW s \in Shared \ raced, s \notin Touches(task[t]) PROVE SharedOK(s)'
  <2>1. \A b \in Apps : s \in UnitsOf(b) => task[t].app # b /\ Same(b, s)
    BY <1>4, Elsewhere
  <2>2. \A o \in Threads : ShapeOK(task[o]) /\ WorkOK(task[o], s)
    BY DEF SharedInv, SharedOK
  <2>3. ASSUME NEW o \in Threads \ {t} PROVE WorkOK(task[o], s)'
    <3>1. PICK tk : tk = task[o]
      OBVIOUS
    <3>2. ShapeOK(tk) /\ WorkOK(tk, s) /\ tk = task'[o]
      BY <1>1, <2>2, <3>1
    <3> QED
      BY <2>1, <3>2, WorkKept
  <2>4. WorkOK(task[t], s)'
    <3>1. s \notin Touches(new) /\ task'[t] = new
      BY <1>1, <1>4
    <3> QED
      BY <3>1 DEF WorkOK, Touches, UnitsOf
  <2>5. ASSUME NEW a \in Apps, s \in UnitsOf(a) PROVE Kept(a, s)'
    <3> SUFFICES ASSUME IsEnabled(a)', a \notin partial',
                        \A o \in Threads : task'[o].app # a
                 PROVE  On(s)'
      BY DEF Kept
    <3>1. task[t].app # a /\ Same(a, s)
      BY <2>1, <2>5
    <3>2. IsEnabled(a) /\ a \notin partial
      BY <3>1, SameEnabled DEF Same
    <3>3. \A o \in Threads : task[o].app # a
      BY <1>1, <3>1
    <3>4. Kept(a, s)
      BY <2>5 DEF SharedInv, SharedOK
    <3> QED
      BY <3>1, <3>2, <3>3, <3>4 DEF Kept, Same, On
  <2> QED
    BY <2>3, <2>4, <2>5 DEF SharedOK, UnitsOf
<1>5. ASSUME NEW s \in Shared \ raced, s \in Touches(task[t]) PROVE SharedOK(s)'
  <2>1. ASSUME NEW o \in Threads \ {t} PROVE WorkOK(task[o], s)'
    <3>1. s \notin Touches(task[o]) /\ task'[o] = task[o]
      BY <1>1, <1>5 DEF SharedInv, Exclusive
    <3> QED
      BY <3>1 DEF WorkOK, Touches, UnitsOf
  <2>2. WorkOK(task[t], s)'
    BY <1>1, <1>5
  <2>3. \A a \in Apps : s \in UnitsOf(a) => Kept(a, s)'
    BY <1>5
  <2> QED
    BY <2>1, <2>2, <2>3 DEF SharedOK, UnitsOf
<1> QED
  BY <1>2, <1>3, <1>4, <1>5 DEF SharedInv, ShapeOK

\* A thread begins a task; other threads that touch its units have raced.
LEMMA Begins ==
    ASSUME OwnUnits, Typed, SharedInv, NEW t \in Threads, NEW new, Take(t, new),
           ShapeOK(new), new.at \in Changing \cup Borrowing,
           UNCHANGED unitVars, task[t].at = "idle",
           \A s \in (Shared \ raced') \cap Touches(new) : WorkOK(new, s)'
    PROVE  SharedInv'
<1>1. \A o \in Threads : task'[o] = IF o = t THEN new ELSE task[o]
  BY DEF Typed, ThreadsOK, Take
<1>2. \A o \in Threads : ShapeOK(task'[o])
  BY <1>1 DEF SharedInv
<1>3. /\ raced \subseteq raced' /\ partial' = partial \ {new.app}
      /\ \A o \in Threads \ {t} : Touches(new) \cap Touches(task[o]) \subseteq raced'
  BY DEF Take
<1>4. Exclusive'
  BY <1>1, <1>3 DEF SharedInv, Exclusive, Touches, UnitsOf
<1>6. \A b, s : b # new.app => Same(b, s)
  BY <1>3 DEF Same, unitVars
<1>7. ASSUME NEW s \in Shared \ raced' PROVE SharedOK(s)'
  <2>1. s \in Shared \ raced
    BY <1>3
  <2>2. ASSUME NEW o \in Threads, s \in Touches(task'[o]) PROVE WorkOK(task[o], s)'
    <3>1. PICK tk : tk = task'[o]
      OBVIOUS
    <3>2. CASE o = t
      BY <1>1, <2>2, <3>2
    <3>3. CASE o # t
      <4>1. ShapeOK(tk) /\ WorkOK(tk, s)
        BY <1>1, <1>2, <2>1, <3>1, <3>3 DEF SharedInv, SharedOK
      <4>2. s \notin Touches(new)
        BY <1>1, <1>3, <2>2, <3>3
      <4>3. ASSUME NEW b \in Apps, s \in UnitsOf(b) PROVE b # new.app
        BY <4>2, <4>3, TouchesWhat DEF ShapeOK, OwnUnits
      <4> QED
        BY <1>6, <3>1, <4>1, <4>3, WorkKept
    <3> QED
      BY <3>2, <3>3
  <2>3. ASSUME NEW a \in Apps, s \in UnitsOf(a) PROVE Kept(a, s)'
    <3> SUFFICES ASSUME \A o \in Threads : task'[o].app # a PROVE Kept(a, s)'
      BY DEF Kept
    <3>1. Kept(a, s) /\ Same(a, s)
      BY <1>1, <1>6, <2>1, <2>3 DEF SharedInv, SharedOK
    <3>2. task[t].app # a
      BY DEF SharedInv, ShapeOK, OwnUnits
    <3>3. \A o \in Threads : task[o].app # a
      BY <1>1, <3>2
    <3> QED
      BY <1>1, <1>3, <3>1, <3>3 DEF Kept, On, unitVars, IsEnabled, UnitsOf
  <2>4. ASSUME NEW o \in Threads PROVE WorkOK(task[o], s)'
    BY <2>2 DEF WorkOK, Touches, UnitsOf
  <2> QED
    BY <2>3, <2>4 DEF SharedOK, UnitsOf
<1> QED
  BY <1>2, <1>4, <1>7 DEF SharedInv, ShapeOK

\* A step that leaves tasks, shared daemons and the apps that use them alone.
LEMMA Aside ==
    ASSUME Typed, SharedInv, UNCHANGED <<task, raced, partial>>,
           \A b \in Apps : \A s \in Shared : s \in UnitsOf(b) => Same(b, s)
    PROVE  SharedInv'
<1>1. \A t \in Threads : ShapeOK(task'[t])
  BY DEF SharedInv
<1>2. Exclusive'
  BY DEF SharedInv, Exclusive, Touches, UnitsOf
<1>3. ASSUME NEW s \in Shared \ raced PROVE SharedOK(s)'
  <2>1. ASSUME NEW o \in Threads PROVE WorkOK(task[o], s)'
    <3>1. PICK tk : tk = task[o]
      OBVIOUS
    <3>2. ShapeOK(tk) /\ WorkOK(tk, s) /\ tk = task'[o]
      BY <3>1 DEF SharedInv, SharedOK
    <3> QED
      BY <3>2, WorkKept
  <2>2. ASSUME NEW a \in Apps, s \in UnitsOf(a) PROVE Kept(a, s)'
    <3>1. Kept(a, s) /\ Same(a, s)
      BY <2>2 DEF SharedInv, SharedOK
    <3>2. IsEnabled(a)' <=> IsEnabled(a)
      BY <3>1, SameEnabled DEF Same
    <3> QED
      BY <3>1, <3>2 DEF Kept, Same, On
  <2> QED
    BY <2>1, <2>2 DEF SharedOK, UnitsOf
<1> QED
  BY <1>1, <1>2, <1>3 DEF SharedInv, ShapeOK

-----------------------------------------------------------------------------
(* Threads begin tasks.                                                    *)

LEMMA PressKeeps ==
    ASSUME OwnUnits, Typed, SharedInv, NEW t \in Threads, NEW a \in Apps,
           PressButton(t, a)
    PROVE  SharedInv'
<1>1. ASSUME NEW new, Take(t, new), new.app = a,
             \/ new.at = "enable" /\ new.idx = 1
             \/ new.at = "disable" /\ new.idx = Len(Components[a])
      PROVE  SharedInv'
  <2>1. ShapeOK(new)
    BY <1>1 DEF ShapeOK, Changing, Borrowing
  <2>2. ASSUME NEW s PROVE WorkOK(new, s)'
    BY <1>1, Parts
    DEF WorkOK, EnabledSoFar, DisabledSoFar, StillLast, StillUnused, Borrowing
  <2>3. UNCHANGED unitVars /\ task[t].at = "idle"
    BY DEF PressButton
  <2> QED
    BY <1>1, <2>1, <2>2, <2>3, Begins DEF Changing
<1> DEFINE off == [Idle EXCEPT !.at = "disable", !.app = a, !.idx = Len(Components[a])]
           on == [Idle EXCEPT !.at = "enable", !.app = a, !.idx = 1]
<1>2. /\ off.at = "disable" /\ off.app = a /\ off.idx = Len(Components[a])
      /\ on.at = "enable" /\ on.app = a /\ on.idx = 1
  BY DEF Idle
<1>3. Take(t, off) \/ Take(t, on)
  BY Zenon DEF PressButton
<1> HIDE DEF off, on
<1> QED
  BY <1>1, <1>2, <1>3

LEMMA EnterKeeps ==
    ASSUME OwnUnits, Typed, SharedInv, NEW t \in Threads, NEW u \in Shared,
           EnsureEnter(t, u) \/ EnsureEnterMissing(t, u)
    PROVE  SharedInv'
<1>1. PICK borrow :
        /\ borrow.at = "borrow" /\ borrow.unit = u /\ borrow.app = NoUnit
        /\ borrow.found \/ ~running[u]
        /\ Take(t, borrow)
  <2> DEFINE enter(found) ==
        [Idle EXCEPT !.at = "borrow", !.unit = u, !.found = found]
  <2>1. \A found : /\ enter(found).at = "borrow" /\ enter(found).unit = u
                   /\ enter(found).app = NoUnit /\ enter(found).found = found
    BY DEF Idle
  <2>2. Take(t, enter(running[u])) \/ Take(t, enter(TRUE))
    BY Zenon DEF EnsureEnter, EnsureEnterMissing
  <2> HIDE DEF enter
  <2>3. CASE Take(t, enter(running[u]))
    <3>1. enter(running[u]).found \/ ~running[u]
      BY <2>1, Zenon
    <3> QED
      BY <2>1, <2>3, <3>1, Zenon
  <2>4. CASE Take(t, enter(TRUE))
    <3>1. enter(TRUE).found
      BY <2>1, Zenon
    <3> QED
      BY <2>1, <2>4, <3>1, Zenon
  <2> QED
    BY <2>2, <2>3, <2>4
<1>2. task[t].at = "idle" /\ UNCHANGED unitVars
  BY DEF EnsureEnter, EnsureEnterMissing
<1>3. ShapeOK(borrow)
  BY <1>1 DEF ShapeOK, Changing, Borrowing
<1>4. Touches(borrow) = {u}
  BY <1>1, <1>3, TouchesWhat DEF Borrowing
<1>5. u \notin raced' => StillUnused(borrow, u)'
  <2> SUFFICES ASSUME u \notin raced', ~running[u], NEW b \in Apps, u \in UnitsOf(b),
                      b \notin partial'
               PROVE  ~IsEnabled(b)'
    BY <1>1 DEF StillUnused, UnitsOf
  <2>1. u \in Shared \ raced /\ \A o \in Threads \ {t} : u \notin Touches(task[o])
    BY <1>1, <1>4 DEF Take
  <2>2. ASSUME NEW o \in Threads PROVE task[o].app # b
    <3>1. ShapeOK(task[o]) /\ task[o].at \in {"idle"} \cup Changing \cup Borrowing
      BY PlaceOf DEF SharedInv, Typed
    <3>2. CASE o = t
      BY <1>2, <3>1, <3>2 DEF ShapeOK, OwnUnits
    <3>3. CASE o # t
      BY <2>1, <3>1, <3>3, TouchesWhat DEF ShapeOK, OwnUnits
    <3> QED
      BY <3>2, <3>3
  <2>3. b \notin partial
    BY <1>1 DEF Take, OwnUnits
  <2>4. Kept(b, u)
    BY <2>1 DEF SharedInv, SharedOK
  <2>5. ~IsEnabled(b)
    BY <2>2, <2>3, <2>4 DEF Kept, On
  <2> QED
    BY <1>2, <2>5 DEF IsEnabled, UnitsOf, unitVars
<1>6. ASSUME NEW s \in (Shared \ raced') \cap Touches(borrow) PROVE WorkOK(borrow, s)'
  BY <1>1, <1>4, <1>5, <1>6
  DEF WorkOK, EnabledSoFar, DisabledSoFar, StillLast
<1> QED
  BY <1>1, <1>2, <1>3, <1>6, Begins DEF Borrowing

-----------------------------------------------------------------------------
(* Threads go on with their tasks.                                         *)

\* A step that has failed leaves the app of its task partial.
LEMMA FailsPartial ==
    ASSUME Typed, NEW t \in Threads, NEW new, Move(t, new),
           Fails, failures' # failures, task[t].app \in Apps
    PROVE  task[t].app \in partial'
BY DEF Move

\* What becomes of task and of partial.
LEMMA Outcome ==
    ASSUME NEW t \in Threads, NEW new, Move(t, new)
    PROVE  /\ task' = [task EXCEPT ![t] = new] /\ UNCHANGED raced
           /\ \A b \in Apps : b # task[t].app => (b \in partial' <=> b \in partial)
           /\ partial \subseteq partial'
BY DEF Move

\* The app the task is about is accounted for by the thread or as partial,
\* unless the task is complete.  Others are as safe as they were while s is on
\* or they are off.
LEMMA KeptByOthers ==
    ASSUME OwnUnits, Typed, SharedInv, NEW t \in Threads, NEW new, Move(t, new),
           NEW s \in Shared \ raced, NEW b \in Apps, s \in UnitsOf(b),
           task[t].app # b,
           \A u \in UnitsOf(b) \ Shared : enabled'[u] = enabled[u],
           On(s) => On(s)' \/ ~IsEnabled(b) \/ b \in partial
    PROVE  Kept(b, s)'
<1> SUFFICES ASSUME IsEnabled(b)', b \notin partial', \A o \in Threads : task'[o].app # b
             PROVE  On(s)'
  BY DEF Kept
<1>1. IsEnabled(b) /\ b \notin partial
  BY SameEnabled, Outcome
<1>2. \A o \in Threads : task[o].app # b
  BY Outcome DEF Typed, ThreadsOK
<1>3. Kept(b, s)
  BY DEF SharedInv, SharedOK
<1> QED
  BY <1>1, <1>2, <1>3 DEF Kept

\* The app of a task that has not ended well.
LEMMA KeptByTask ==
    ASSUME Typed, NEW t \in Threads, NEW new, Move(t, new),
           NEW a \in Apps, task[t].app = a, new.app = a \/ a \in partial', NEW s
    PROVE  Kept(a, s)'
<1>1. task'[t] = new
  BY Outcome DEF Typed, ThreadsOK
<1>2. CASE new.app = a
  BY <1>1, <1>2 DEF Kept
<1>3. CASE a \in partial'
  BY <1>3 DEF Kept
<1> QED
  BY <1>2, <1>3

\* A step of a loop over the components of a.
LEMMA LoopStep ==
    ASSUME OwnUnits, Typed, SharedInv, NEW t \in Threads, NEW new, Move(t, new),
           NEW a \in Apps, task[t].app = a, task[t].at \in Changing,
           ShapeOK(new), new = Idle \/ (new.at \in Changing /\ new.app = a),
           \A v \in Units \ UnitsOf(a) :
              enabled'[v] = enabled[v] /\ running'[v] = running[v],
           \A s \in Shared \ raced : s \in UnitsOf(a) =>
              /\ WorkOK(new, s)'
              /\ new = Idle => Kept(a, s)'
              /\ \A b \in Apps \ {a} : s \in UnitsOf(b) =>
                    (On(s) => On(s)' \/ ~IsEnabled(b))
    PROVE  SharedInv'
<1>1. Touches(task[t]) = UnitsOf(a)
  BY TouchesWhat DEF SharedInv
<1>2. Touches(new) \subseteq UnitsOf(a)
  BY TouchesWhat, IdleTouches
<1>3. Local(t)
  BY <1>1, Outcome DEF Local
<1>4. ASSUME NEW s \in (Shared \ raced) \cap UnitsOf(a), NEW b \in Apps, s \in UnitsOf(b)
      PROVE  Kept(b, s)'
  <2>1. CASE b = a
    <3>1. CASE new = Idle
      BY <1>4, <2>1, <3>1
    <3>2. CASE new # Idle
      BY <2>1, <3>2, KeptByTask
    <3> QED
      BY <3>1, <3>2
  <2>2. CASE b # a
    <3>1. \A v \in UnitsOf(b) \ Shared : enabled'[v] = enabled[v]
      BY <1>4, <2>2, Parts DEF OwnUnits
    <3> QED
      BY <1>4, <2>2, <3>1, KeptByOthers
  <2> QED
    BY <2>1, <2>2
<1>5. task' = [task EXCEPT ![t] = new] /\ UNCHANGED raced
  BY Outcome
<1>6. \A s \in (Shared \ raced) \cap Touches(task[t]) :
        WorkOK(new, s)' /\ \A b \in Apps : s \in UnitsOf(b) => Kept(b, s)'
  BY <1>1, <1>4 DEF UnitsOf
<1> QED
  BY <1>1, <1>2, <1>3, <1>5, <1>6, GoesOn

\* An exception ends the loop.
LEMMA LoopBreaks ==
    ASSUME OwnUnits, Typed, SharedInv, NEW t \in Threads,
           task[t].at \in Changing, BreakOff(t)
    PROVE  SharedInv'
<1>1. /\ task[t].app \in Apps /\ UNCHANGED unitVars
      /\ Fails /\ failures' # failures
  BY AppDaemonsAssumption
  DEF SharedInv, ShapeOK, BreakOff, CallRaises, Fails, Typed, ThreadsOK
<1>2. PICK a \in Apps : a = task[t].app
  BY <1>1
<1>3. PICK new : new = Idle
  OBVIOUS
<1>4. Move(t, new) /\ ShapeOK(new)
  BY <1>3, IdleTouches DEF BreakOff
<1>5. ASSUME NEW s PROVE WorkOK(new, s)'
  BY <1>3, IdleTouches DEF WorkOK, Touches, UnitsOf, Idle
<1>6. a \in partial'
  BY <1>1, <1>2, <1>4, FailsPartial
<1>7. enabled' = enabled /\ running' = running
  BY <1>1 DEF unitVars
<1>8. \A s \in Shared \ raced : s \in UnitsOf(a) =>
        /\ WorkOK(new, s)'
        /\ new = Idle => Kept(a, s)'
        /\ \A b \in Apps \ {a} : s \in UnitsOf(b) =>
              (On(s) => On(s)' \/ ~IsEnabled(b))
  BY <1>5, <1>6, <1>7 DEF On, Kept
<1>9. \A v \in Units \ UnitsOf(a) :
        enabled'[v] = enabled[v] /\ running'[v] = running[v]
  BY <1>7
<1> QED
  BY <1>2, <1>3, <1>4, <1>8, <1>9, LoopStep

\* What a call to enable or disable a unit brings about, if systemctl succeeds
\* or fails.
LEMMA Calls ==
    ASSUME Typed, NEW u \in Units, NEW who
    PROVE  /\ EnableUnit(u, who) \/ DisableUnit(u) =>
                /\ Fails
                /\ \A v \in Units \ {u} :
                      enabled'[v] = enabled[v] /\ running'[v] = running[v]
           /\ EnableUnit(u, who) => On(u)' \/ (failures' # failures /\ (On(u) => On(u)'))
           /\ DisableUnit(u) => ~enabled'[u] \/ failures' # failures
<1> USE DEF Typed, UnitsOK, Bring, SetEnabled
<1>1. Balks(u) => failures' # failures
  BY AppDaemonsAssumption DEF Balks, ThreadsOK
<1>2. EnableUnit(u, who) \/ DisableUnit(u) => Fails
  BY UnitsFail
<1>3. ASSUME EnableUnit(u, who) \/ DisableUnit(u), NEW v \in Units \ {u}
      PROVE  enabled'[v] = enabled[v] /\ running'[v] = running[v]
  BY <1>3 DEF EnableUnit, DisableUnit
<1>4. EnableUnit(u, who) => On(u)' \/ (failures' # failures /\ (On(u) => On(u)'))
  BY <1>1 DEF EnableUnit, On
<1>5. DisableUnit(u) => ~enabled'[u] \/ failures' # failures
  BY <1>1 DEF DisableUnit
<1> QED
  BY <1>2, <1>3, <1>4, <1>5

LEMMA EnableKeeps ==
    ASSUME OwnUnits, Typed, SharedInv, NEW t \in Threads, EnableComponent(t)
    PROVE  SharedInv'
<1>1. PICK tk : tk = task[t]
  OBVIOUS
<1>2. PICK a \in Apps : a = tk.app
  BY <1>1 DEF SharedInv, ShapeOK, EnableComponent, Changing
<1>3. PICK i \in Nat : i = tk.idx /\ i \in DOMAIN Components[a]
  BY <1>1, <1>2, Parts DEF EnableComponent
<1>4. PICK u \in Units : u = Components[a][i] /\ u \in UnitsOf(a)
  BY <1>3, Parts
<1>5. tk \in Tasks /\ tk.at = "enable" /\ tk.at \in Changing
  BY <1>1, PlaceOf DEF EnableComponent, Typed, Changing
<1>6. CASE BreakOff(t)
  BY <1>1, <1>5, <1>6, LoopBreaks
<1>7. CASE /\ EnableUnit(u, t)
           /\ IF i = Len(Components[a]) THEN Leave(t)
              ELSE Move(t, [tk EXCEPT !.idx = i + 1])
  <2>1. PICK next : next = [tk EXCEPT !.idx = i + 1]
    OBVIOUS
  <2>2. next.at = "enable" /\ next.app = a /\ next.idx = i + 1
    BY <1>2, <1>5, <2>1 DEF Tasks
  <2>3. PICK new : /\ IF i = Len(Components[a]) THEN new = Idle ELSE new = next
                   /\ Move(t, new)
    BY <1>7, <2>1 DEF Leave
  <2>4. Move(t, new) /\ ShapeOK(new)
        /\ (new = Idle \/ (new.at \in Changing /\ new.app = a))
    <3>1. CASE new = Idle
      BY <2>3, <3>1, IdleTouches
    <3>2. CASE new = next
      BY <2>2, <2>3, <3>2 DEF ShapeOK, Changing, Borrowing
    <3> QED
      BY <2>3, <3>1, <3>2
  <2>5. /\ \A v \in Units \ {u} : enabled'[v] = enabled[v] /\ running'[v] = running[v]
        /\ On(u) => On(u)'
        /\ On(u)' \/ a \in partial'
    BY <1>1, <1>2, <1>7, <2>3, Calls, FailsPartial
  <2>6. \A s \in Units : On(s) => On(s)'
    BY <2>5 DEF On
  <2>7. ASSUME NEW s \in Shared \ raced, s \in UnitsOf(a), a \notin partial',
               NEW j \in DOMAIN Components[a], Components[a][j] = s, j < i + 1
        PROVE  On(s)'
    <3>1. WorkOK(tk, s) /\ s \in Touches(tk)
      BY <1>1, <1>2, <1>5, <2>7, TouchesWhat DEF SharedInv, SharedOK
    <3>6. a \notin partial
      BY <2>3, <2>7, Outcome
    <3>2. j < i => On(s)
      BY <1>2, <1>3, <1>5, <2>7, <3>1, <3>6 DEF WorkOK, EnabledSoFar
    <3>3. j = i => s = u
      BY <1>4, <2>7
    <3>4. j \in Nat /\ s \in Units
      BY Parts, SharedUnits
    <3>5. j < i \/ j = i
      BY <1>3, <2>7, <3>4
    <3> QED
      BY <2>5, <2>6, <2>7, <3>2, <3>3, <3>4, <3>5
  <2>8. ASSUME NEW s \in Shared \ raced, s \in UnitsOf(a) PROVE WorkOK(new, s)'
    <3>1. CASE new = Idle
      BY <3>1, IdleTouches DEF WorkOK, Touches, UnitsOf, Idle
    <3>2. CASE new = next
      BY <2>2, <2>7, <2>8, <3>2
      DEF WorkOK, EnabledSoFar, DisabledSoFar, StillLast, StillUnused, Borrowing
    <3> QED
      BY <2>3, <3>1, <3>2
  <2>9. ASSUME NEW s \in Shared \ raced, s \in UnitsOf(a), new = Idle PROVE Kept(a, s)'
    <3> SUFFICES ASSUME a \notin partial' PROVE On(s)'
      BY DEF Kept
    <3>1. i = Len(Components[a])
      BY <2>2, <2>3, <2>9 DEF Idle
    <3>2. PICK j \in DOMAIN Components[a] : s = Components[a][j]
      BY <2>9, Parts
    <3>3. j < i + 1
      BY <3>1, <3>2, Parts
    <3> QED
      BY <2>7, <2>9, <3>2, <3>3
  <2>10. \A s \in Shared : On(s) => On(s)'
    BY <2>6, SharedUnits
  <2>11. \A v \in Units \ UnitsOf(a) :
           enabled'[v] = enabled[v] /\ running'[v] = running[v]
    BY <1>4, <2>5
  <2> QED
    BY <1>1, <1>2, <1>5, <2>4, <2>8, <2>9, <2>10, <2>11, LoopStep
<1> QED
  BY <1>1, <1>2, <1>3, <1>4, <1>6, <1>7 DEF EnableComponent

\* The loop that disables goes on, after the units in gone were disabled.
LEMMA DisableGoesOn ==
    ASSUME OwnUnits, Typed, SharedInv, NEW t \in Threads, NEW tk, tk = task[t],
           NEW a \in Apps, tk.app = a, tk.at \in {"disable", "last"},
           NEW i \in Nat, i = tk.idx, i \in DOMAIN Components[a],
           NEW u, u = Components[a][i], NEW gone \in SUBSET {u},
           \A v \in Units \ gone : enabled'[v] = enabled[v] /\ running'[v] = running[v],
           u \notin Shared => ~enabled'[u] \/ a \in partial',
           u \in gone /\ u \in Shared \ raced =>
              \A b \in Apps \ {a} : u \in UnitsOf(b) => ~IsEnabled(b),
           DisableNext(t, tk)
    PROVE  SharedInv'
<1>1. tk \in Tasks /\ tk.at \in Changing
  BY PlaceOf DEF Typed, Changing
<1>2. PICK next : next = [tk EXCEPT !.at = "disable", !.idx = i - 1]
  OBVIOUS
<1>3. next.at = "disable" /\ next.app = a /\ next.idx = i - 1
  BY <1>1, <1>2 DEF Tasks
<1>4. PICK new : (IF i = 1 THEN new = Idle ELSE new = next) /\ Move(t, new)
  BY <1>2 DEF DisableNext, Leave
<1>5. Move(t, new) /\ ShapeOK(new)
      /\ (new = Idle \/ (new.at \in Changing /\ new.app = a))
  <2>1. CASE new = Idle
    BY <1>4, <2>1, IdleTouches
  <2>2. CASE new = next
    BY <1>3, <1>4, <2>2 DEF ShapeOK, Changing, Borrowing
  <2> QED
    BY <1>4, <2>1, <2>2
<1>6. u \in UnitsOf(a) /\ u \in Units
  BY Parts
<1>7. ASSUME NEW s \in Shared \ raced, s \in UnitsOf(a), a \notin partial',
             NEW j \in DOMAIN Components[a], j > i - 1, Components[a][j] \notin Shared
      PROVE  ~enabled'[Components[a][j]]
  <2>1. DisabledSoFar(tk)
    BY <1>1, <1>7, TouchesWhat DEF SharedInv, SharedOK, WorkOK
  <2>6. a \notin partial
    BY <1>4, <1>7, Outcome
  <2>2. j > i => ~enabled'[Components[a][j]]
    <3> SUFFICES ASSUME j > i PROVE ~enabled'[Components[a][j]]
      OBVIOUS
    <3>1. ~enabled[Components[a][j]]
      BY <1>7, <2>1, <2>6 DEF DisabledSoFar
    <3>2. Components[a][j] \in Units
      BY Parts
    <3>3. CASE Components[a][j] \in gone
      BY <1>7, <3>3
    <3> QED
      BY <3>1, <3>2, <3>3
  <2>3. j = i => ~enabled'[Components[a][j]]
    BY <1>7
  <2>4. j \in Nat /\ Components[a][j] \in Units
    BY Parts
  <2>5. j > i \/ j = i
    BY <1>7, <2>4
  <2> QED
    BY <2>2, <2>3, <2>4, <2>5
<1>8. ASSUME NEW s \in Shared \ raced, s \in UnitsOf(a) PROVE WorkOK(new, s)'
  <2>1. CASE new = Idle
    BY <2>1, IdleTouches DEF WorkOK, Touches, UnitsOf, Idle
  <2>2. CASE new = next
    BY <1>3, <1>7, <1>8, <2>2
    DEF WorkOK, EnabledSoFar, DisabledSoFar, StillLast, StillUnused, Borrowing
  <2> QED
    BY <1>4, <2>1, <2>2
<1>9. ASSUME NEW s \in Shared \ raced, s \in UnitsOf(a), new = Idle PROVE Kept(a, s)'
  <2> SUFFICES ASSUME a \notin partial' PROVE Kept(a, s)'
    BY DEF Kept
  <2>1. i = 1
    BY <1>3, <1>4, <1>9 DEF Idle
  <2>2. PICK w : w \in UnitsOf(a) \ Shared
    BY <1>9 DEF OwnUnits
  <2>3. PICK j \in DOMAIN Components[a] : w = Components[a][j]
    BY <2>2, Parts
  <2>4. j > i - 1
    BY <2>1, <2>3, Parts
  <2>5. ~enabled'[w]
    BY <1>7, <1>9, <2>2, <2>3, <2>4
  <2> QED
    BY <2>2, <2>5 DEF Kept, IsEnabled, UnitsOf
<1>10. ASSUME NEW s \in Shared \ raced, NEW b \in Apps \ {a}, s \in UnitsOf(b), On(s)
       PROVE  On(s)' \/ ~IsEnabled(b)
  <2>1. CASE s \in gone
    <3>1. s = u
      BY <2>1
    <3> QED
      BY <1>10, <2>1, <3>1
  <2>2. CASE s \notin gone
    BY <1>10, <2>2, SharedUnits DEF On
  <2> QED
    BY <2>1, <2>2
<1>11. \A v \in Units \ UnitsOf(a) :
         enabled'[v] = enabled[v] /\ running'[v] = running[v]
  BY <1>6
<1>12. \A s \in Shared \ raced : s \in UnitsOf(a) =>
          /\ WorkOK(new, s)'
          /\ new = Idle => Kept(a, s)'
          /\ \A b \in Apps \ {a} : s \in UnitsOf(b) =>
                (On(s) => On(s)' \/ ~IsEnabled(b))
  BY <1>8, <1>9, <1>10
<1> QED
  BY <1>1, <1>5, <1>11, <1>12, LoopStep

\* A call to disable the unit of the component; the loop goes on.
LEMMA Disables ==
    ASSUME Typed, NEW t \in Threads, NEW a \in Apps, task[t].app = a,
           NEW u \in Units, DisableUnit(u), NEW new, Move(t, new)
    PROVE  /\ \A v \in Units \ {u} : enabled'[v] = enabled[v] /\ running'[v] = running[v]
           /\ ~enabled'[u] \/ a \in partial'
BY Calls, FailsPartial

LEMMA DisableKeeps ==
    ASSUME OwnUnits, Typed, SharedInv, NEW t \in Threads,
           DisableComponent(t) \/ DisableShared(t)
    PROVE  SharedInv'
<1>1. PICK tk : tk = task[t]
  OBVIOUS
<1>2. PICK a \in Apps : a = tk.app
  BY <1>1 DEF SharedInv, ShapeOK, DisableComponent, DisableShared, Changing
<1>3. /\ tk \in Tasks /\ tk.at \in {"disable", "last"} /\ tk.at \in Changing
      /\ tk.idx \in DOMAIN Components[a]
  BY <1>1, <1>2, PlaceOf
  DEF DisableComponent, DisableShared, Typed, Changing, SharedInv, ShapeOK
<1>4. PICK i \in Nat : i = tk.idx /\ i \in DOMAIN Components[a]
  BY <1>3, Parts
<1>5. PICK u \in Units : u = Components[a][i] /\ u \in UnitsOf(a)
  BY <1>4, Parts
<1>6. CASE BreakOff(t)
  BY <1>1, <1>3, <1>6, LoopBreaks
<1>13. ASSUME DisableUnit(u), DisableNext(t, tk)
       PROVE  /\ \A v \in Units \ {u} : enabled'[v] = enabled[v] /\ running'[v] = running[v]
              /\ ~enabled'[u] \/ a \in partial'
  <2>1. \E new : Move(t, new)
    BY <1>13 DEF DisableNext, Leave
  <2> QED
    BY <1>1, <1>2, <1>13, <2>1, Disables
<1>7. CASE tk.at = "disable" /\ u \notin Shared /\ DisableUnit(u) /\ DisableNext(t, tk)
  <2>1. PICK gone \in SUBSET {u} : gone = {u}
    OBVIOUS
  <2>2. /\ \A v \in Units \ gone : enabled'[v] = enabled[v] /\ running'[v] = running[v]
        /\ ~enabled'[u] \/ a \in partial'
    BY <1>7, <1>13, <2>1
  <2> QED
    BY <1>1, <1>2, <1>3, <1>4, <1>5, <1>7, <2>1, <2>2, DisableGoesOn
<1>8. CASE u \in Shared /\ UNCHANGED unitVars /\ DisableNext(t, tk)
  <2>1. PICK gone \in SUBSET {u} : \A v : v \notin gone
    <3>1. {} \in SUBSET {u} /\ \A v : v \notin {}
      OBVIOUS
    <3> QED
      BY <3>1, Zenon
  <2>2. \A v \in Units \ gone : enabled'[v] = enabled[v] /\ running'[v] = running[v]
    BY <1>8 DEF unitVars
  <2> QED
    BY <1>1, <1>2, <1>3, <1>4, <1>5, <1>8, <2>1, <2>2, DisableGoesOn
<1>9. CASE /\ tk.at = "last" /\ DisableUnit(u) /\ DisableNext(t, tk)
  <2>1. PICK gone \in SUBSET {u} : gone = {u}
    OBVIOUS
  <2>2. \A v \in Units \ gone : enabled'[v] = enabled[v] /\ running'[v] = running[v]
    BY <1>9, <1>13, <2>1
  <2>3. u \in Shared
    BY <1>1, <1>2, <1>4, <1>5, <1>9 DEF SharedInv, ShapeOK
  <2>4. u \notin raced => \A b \in Apps \ {a} : u \in UnitsOf(b) => ~IsEnabled(b)
    <3> SUFFICES ASSUME u \notin raced
                 PROVE  \A b \in Apps \ {a} : u \in UnitsOf(b) => ~IsEnabled(b)
      OBVIOUS
    <3>1. StillLast(tk, u)
      BY <1>1, <1>2, <1>3, <1>5, <2>3, TouchesWhat DEF SharedInv, SharedOK, WorkOK
    <3> QED
      BY <1>2, <1>4, <1>5, <1>9, <3>1 DEF StillLast
  <2> QED
    BY <1>1, <1>2, <1>3, <1>4, <1>5, <1>9, <2>1, <2>2, <2>3, <2>4, DisableGoesOn
<1>10. CASE /\ tk.at = "disable" /\ u \in Shared /\ UNCHANGED unitVars
            /\ ~OtherAppsEnabled(a, u) /\ Move(t, [tk EXCEPT !.at = "last"])
  <2>1. PICK new : new = [tk EXCEPT !.at = "last"]
    OBVIOUS
  <2>2. new.at = "last" /\ new.app = a /\ new.idx = i
    BY <1>2, <1>3, <1>4, <2>1 DEF Tasks
  <2>3. Move(t, new) /\ ShapeOK(new) /\ new.at \in Changing
    BY <1>4, <1>5, <1>10, <2>1, <2>2 DEF ShapeOK, Changing, Borrowing
  <2>4. enabled' = enabled /\ running' = running
    BY <1>10 DEF unitVars
  <2>5. ASSUME NEW s \in Shared \ raced, s \in UnitsOf(a) PROVE WorkOK(new, s)'
    <3>1. DisabledSoFar(tk)
      BY <1>1, <1>2, <1>3, <2>5, TouchesWhat DEF SharedInv, SharedOK, WorkOK
    <3>4. partial \subseteq partial'
      BY <2>3, Outcome
    <3>2. DisabledSoFar(new)'
      BY <1>2, <1>3, <1>4, <2>2, <2>4, <3>1, <3>4 DEF DisabledSoFar
    <3>3. StillLast(new, s)'
      BY <1>5, <1>10, <2>2, <2>4 DEF StillLast, OtherAppsEnabled, IsEnabled, UnitsOf
    <3> QED
      BY <2>2, <3>2, <3>3 DEF WorkOK, EnabledSoFar, StillUnused, Borrowing
  <2>6. new # Idle
    BY <2>2 DEF Idle
  <2>7. \A s \in Shared \ raced : s \in UnitsOf(a) =>
          /\ WorkOK(new, s)'
          /\ new = Idle => Kept(a, s)'
          /\ \A b \in Apps \ {a} : s \in UnitsOf(b) =>
                (On(s) => On(s)' \/ ~IsEnabled(b))
    BY <2>4, <2>5, <2>6 DEF On
  <2> QED
    BY <1>1, <1>2, <1>3, <2>2, <2>3, <2>4, <2>7, LoopStep
<1>11. CASE DisableComponent(t)
  BY <1>1, <1>2, <1>4, <1>5, <1>6, <1>7, <1>8, <1>10, <1>11, Zenon DEF DisableComponent
<1>12. CASE DisableShared(t)
  BY <1>1, <1>2, <1>4, <1>5, <1>6, <1>9, <1>12, Zenon DEF DisableShared
<1> QED
  BY <1>11, <1>12

\* A step of a thread that borrows u; new is what its task becomes.
LEMMA BorrowStep ==
    ASSUME OwnUnits, Typed, SharedInv, NEW t \in Threads, NEW tk, tk = task[t],
           NEW u \in Shared, tk.unit = u, tk.at \in Borrowing,
           NEW new, Move(t, new), ShapeOK(new),
           \/ new = Idle
           \/ new.at = "using" /\ new.unit = u /\ new.found = tk.found,
           \A v \in Units \ {u} : enabled'[v] = enabled[v] /\ running'[v] = running[v],
           On(u) => On(u)' \/ ~tk.found
    PROVE  SharedInv'
<1>1. tk.app = NoUnit /\ Touches(tk) = {u}
  BY TouchesWhat DEF SharedInv, ShapeOK
<1>2. Touches(new) \subseteq {u}
  BY TouchesWhat, IdleTouches DEF Borrowing
<1>3. Local(t)
  BY <1>1, Outcome, SharedUnits DEF Local
<1>4. task' = [task EXCEPT ![t] = new] /\ UNCHANGED raced
  BY Outcome
<1>5. \A b \in Apps : task[t].app # b
  BY <1>1 DEF OwnUnits
<1>6. ASSUME NEW b \in Apps
      PROVE  /\ \A v \in UnitsOf(b) \ Shared : enabled'[v] = enabled[v]
             /\ IsEnabled(b)' <=> IsEnabled(b)
             /\ b \in partial' <=> b \in partial
  <2>1. \A v \in UnitsOf(b) \ Shared : enabled'[v] = enabled[v]
    BY Parts
  <2> QED
    BY <1>5, <2>1, SameEnabled, Outcome
<1>7. u \notin raced => StillUnused(tk, u)
  BY <1>1 DEF SharedInv, SharedOK, WorkOK
<1>8. u \notin raced => WorkOK(new, u)'
  <2>1. CASE new = Idle
    BY <2>1, IdleTouches DEF WorkOK, Touches, UnitsOf, Idle
  <2>2. CASE new.at = "using" /\ new.found = tk.found
    <3>1. u \notin raced => StillUnused(new, u)'
      <4> SUFFICES ASSUME u \notin raced, ~tk.found, NEW b \in Apps, u \in UnitsOf(b)
                   PROVE  ~IsEnabled(b)' \/ b \in partial'
        BY <2>2 DEF StillUnused, UnitsOf
      <4> QED
        BY <1>6, <1>7 DEF StillUnused
    <3> QED
      BY <2>2, <3>1 DEF WorkOK, EnabledSoFar, DisabledSoFar, StillLast
  <2> QED
    BY <2>1, <2>2
<1>9. ASSUME u \notin raced, NEW b \in Apps, u \in UnitsOf(b) PROVE Kept(b, u)'
  <2>1. ~tk.found => ~IsEnabled(b) \/ b \in partial
    BY <1>7, <1>9 DEF StillUnused
  <2>2. On(u) => On(u)' \/ ~IsEnabled(b) \/ b \in partial
    BY <2>1
  <2> QED
    BY <1>5, <1>6, <1>9, <2>2, KeptByOthers
<1>10. \A s \in (Shared \ raced) \cap Touches(task[t]) :
         /\ WorkOK(new, s)'
         /\ \A b \in Apps : s \in UnitsOf(b) => Kept(b, s)'
  BY <1>1, <1>8, <1>9 DEF UnitsOf
<1> QED
  BY <1>1, <1>2, <1>3, <1>4, <1>10, GoesOn

LEMMA BorrowKeeps ==
    ASSUME OwnUnits, Typed, SharedInv, NEW t \in Threads,
           EnsureEnable(t) \/ EnsureExit(t)
    PROVE  SharedInv'
<1>1. PICK tk : tk = task[t]
  OBVIOUS
<1>2. tk \in Tasks /\ tk.at \in Borrowing
  BY <1>1, PlaceOf DEF EnsureEnable, EnsureExit, Typed, Borrowing
<1>3. PICK u \in Shared : tk.unit = u
  BY <1>1, <1>2 DEF SharedInv, ShapeOK
<1>4. u \in Units
  BY SharedUnits
<1>5. PICK using : using = [tk EXCEPT !.at = "using"]
  OBVIOUS
<1>6. /\ using.at = "using" /\ using.unit = u /\ using.found = tk.found
      /\ using.app = NoUnit
  BY <1>1, <1>2, <1>3, <1>5 DEF Tasks, SharedInv, ShapeOK
<1>7. PICK new : (new = Idle \/ new = using) /\ Move(t, new)
  BY <1>1, <1>5, Zenon DEF EnsureEnable, EnsureExit, Leave, BreakOff
<1>8. Move(t, new) /\ ShapeOK(new)
  <2>1. Move(t, new)
    BY <1>7
  <2>2. ShapeOK(Idle) /\ ShapeOK(using)
    BY <1>6, IdleTouches DEF ShapeOK, Changing, Borrowing
  <2> QED
    BY <1>7, <2>1, <2>2
<1>9. \/ UNCHANGED unitVars
      \/ EnableUnit(u, t)
      \/ DisableUnit(u) /\ ~tk.found
  BY <1>1, <1>3 DEF EnsureEnable, EnsureExit, BreakOff, CallRaises
<1>10. /\ \A v \in Units \ {u} : enabled'[v] = enabled[v] /\ running'[v] = running[v]
       /\ On(u) => On(u)' \/ ~tk.found
  <2>1. CASE UNCHANGED unitVars
    BY <2>1 DEF unitVars, On
  <2>2. CASE EnableUnit(u, t)
    BY <1>4, <2>2, Calls
  <2>3. CASE DisableUnit(u) /\ ~tk.found
    BY <1>4, <2>3, Calls
  <2> QED
    BY <1>9, <2>1, <2>2, <2>3
<1> QED
  BY <1>1, <1>2, <1>3, <1>6, <1>7, <1>8, <1>10, BorrowStep

LEMMA TaskKeeps ==
    ASSUME OwnUnits, Typed, SharedInv, NEW t \in Threads, TaskStep(t)
    PROVE  SharedInv'
BY EnableKeeps, DisableKeeps, BorrowKeeps DEF TaskStep

-----------------------------------------------------------------------------
(* Runs and the service.                                                   *)

LEMMA HandlersUnshared ==
    ASSUME NEW r \in Runs, NEW i \in DOMAIN Handlers[r]
    PROVE  Handlers[r][i] \in Units \ Shared
<1>1. Handlers[r] \in Seq((Units \ Shared) \ {HookUnit[a] : a \in Apps})
  BY HandlersAssumption
<1> QED
  BY <1>1

\* A run stops and starts what manifests name: no shared daemon, and no web
\* configuration of an app that uses one.
LEMMA HandlerAside ==
    ASSUME OwnUnits, Typed, SharedInv, NEW r \in Runs, NEW i \in DOMAIN Handlers[r],
           StartUnit(Handlers[r][i], r) \/ StopUnit(Handlers[r][i]),
           UNCHANGED <<task, raced, partial>>
    PROVE  SharedInv'
<1>1. PICK u : u = Handlers[r][i]
  OBVIOUS
<1>2. u \in Units \ Shared
  BY <1>1, HandlersUnshared
<1>3. \A v \in Units : v # u => running'[v] = running[v] /\ enabled'[v] = enabled[v]
  BY <1>1 DEF StartUnit, StopUnit, Bring, SetEnabled, Typed, UnitsOK
<1>4. u \notin Web => \A v \in Units : enabled'[v] = enabled[v]
  BY <1>1, <1>2 DEF StartUnit, StopUnit, SetEnabled, Typed, UnitsOK
<1>6. ASSUME NEW b \in Apps, NEW s \in Shared, s \in UnitsOf(b) PROVE Same(b, s)
  <2>1. u \notin UnitsOf(b) \cap Web
    BY <1>1, <1>6 DEF OwnUnits
  <2>2. \A v \in (UnitsOf(b) \ Shared) \cup {s} : enabled'[v] = enabled[v]
    BY <1>2, <1>3, <1>4, <2>1, Parts, SharedUnits
  <2>3. running'[s] = running[s]
    BY <1>2, <1>3, SharedUnits
  <2> QED
    BY <2>2, <2>3 DEF Same
<1> QED
  BY <1>6, Aside

LEMMA NothingAside ==
    ASSUME Typed, SharedInv, UNCHANGED unitVars, UNCHANGED <<task, raced, partial>>
    PROVE  SharedInv'
<1>1. \A b, s : Same(b, s)
  BY DEF unitVars, Same
<1> QED
  BY <1>1, Aside

LEMMA RunKeeps ==
    ASSUME OwnUnits, Inv, Typed, SharedInv, NEW r \in Runs, Begin(r) \/ RunStep(r)
    PROVE  SharedInv'
<1>1. CASE UNCHANGED unitVars /\ UNCHANGED <<task, raced, partial>>
  BY <1>1, NothingAside
<1>2. CASE StopCall(r)
  <2>1. run[r].idx \in DOMAIN Handlers[r]
    BY <1>2, RunFields DEF Inv, PlaceOK, StopCall
  <2> QED
    BY <1>1, <1>2, <2>1, HandlerAside DEF StopCall
<1>3. CASE StartCall(r)
  BY <1>1, <1>3, HandlerAside DEF StartCall
<1>4. CASE Hook(r)
  <2>1. RunApps[r] \in Seq(Apps)
    BY BackupRunAssumption
  <2>2. \A i \in DOMAIN RunApps[r] : RunApps[r][i] \in Apps
    BY <2>1
  <2>3. ASSUME NEW i \in DOMAIN RunApps[r], HookUnit[RunApps[r][i]] # NoUnit,
               \/ EnsureEnter(r, HookUnit[RunApps[r][i]])
               \/ EnsureEnterMissing(r, HookUnit[RunApps[r][i]])
        PROVE  SharedInv'
    BY <2>2, <2>3, EnterKeeps, ThreadsAreSomeone DEF OwnUnits
  <2> QED
    BY <1>1, <1>4, <2>3 DEF Hook, Borrows, daemonVars, unitVars
<1>5. CASE HookStep(r)
  BY <1>5, TaskKeeps, ThreadsAreSomeone DEF HookStep
<1>6. CASE Begin(r) \/ StopLook(r) \/ HookReturns(r) \/ Unlock(r)
  BY <1>1, <1>6 DEF Begin, StopLook, HookReturns, Unlock, daemonVars, unitVars
<1>7. CASE Install(r) \/ Copy(r)
  BY <1>1, <1>7 DEF Install, Copy, CallRaises, daemonVars, unitVars
<1>8. CASE StopRaises(r) \/ StartRaises(r)
  BY <1>1, <1>8 DEF StopRaises, StartRaises, CallRaises, GivesUp
<1> QED
  BY <1>2, <1>3, <1>4, <1>5, <1>6, <1>7, <1>8 DEF RunStep

\* A restart breaks off what threads do; their apps count as partial.
LEMMA CrashKeeps ==
    ASSUME OwnUnits, Typed, SharedInv, Crash PROVE SharedInv'
<1>1. /\ \A t \in Threads : task'[t] = Idle
      /\ UNCHANGED unitVars /\ UNCHANGED raced
      /\ partial' = partial \cup ({task[t].app : t \in Threads} \cap Apps)
  BY DEF Crash
<1>2. (\A t \in Threads : ShapeOK(task'[t])) /\ Exclusive'
  BY <1>1, IdleTouches DEF Exclusive, Touches, UnitsOf
<1>4. ASSUME NEW s \in Shared \ raced PROVE SharedOK(s)'
  <2>1. \A t \in Threads : WorkOK(task[t], s)'
    BY <1>1, IdleTouches DEF WorkOK, Touches, UnitsOf, Idle
  <2>2. ASSUME NEW a \in Apps, s \in UnitsOf(a) PROVE Kept(a, s)'
    <3>1. Kept(a, s)
      BY <2>2 DEF SharedInv, SharedOK
    <3> QED
      BY <1>1, <3>1 DEF Kept, On, unitVars, IsEnabled, UnitsOf
  <2> QED
    BY <2>1, <2>2 DEF SharedOK, UnitsOf
<1> QED
  BY <1>1, <1>2, <1>4 DEF SharedInv, ShapeOK

-----------------------------------------------------------------------------

LEMMA SharedStep ==
    OwnUnits /\ Inv /\ Typed /\ SharedInv /\ [Next]_vars => SharedInv'
<1> SUFFICES ASSUME OwnUnits, Inv, Typed, SharedInv, [Next]_vars PROVE SharedInv'
  OBVIOUS
<1>1. ASSUME NEW t \in Threads, UserBegins(t) PROVE SharedInv'
  BY <1>1, PressKeeps, EnterKeeps DEF UserBegins, OwnUnits
<1>2. ASSUME NEW t \in Threads, UserStep(t) PROVE SharedInv'
  BY <1>2, TaskKeeps DEF UserStep
<1>3. CASE UNCHANGED vars
  BY <1>3, NothingAside DEF vars, daemonVars, unitVars
<1> QED
  BY <1>1, <1>2, <1>3, RunKeeps, CrashKeeps DEF Next

LEMMA SharedAtStart == OwnUnits /\ Init => SharedInv
<1> SUFFICES ASSUME OwnUnits, Init PROVE SharedInv
  OBVIOUS
<1>1. /\ \A t \in Threads : task[t] = Idle
      /\ running = enabled
      /\ \A s \in Shared : enabled[s] <=> \E a \in Apps : s \in UnitsOf(a) /\ IsEnabled(a)
  BY DEF Init, DaemonsInit
<1>2. (\A t \in Threads : ShapeOK(task[t])) /\ Exclusive
  BY <1>1, IdleTouches DEF Exclusive
<1>4. \A s \in Shared : SharedOK(s)
  BY <1>1, IdleTouches DEF SharedOK, WorkOK, Kept, On
<1> QED
  BY <1>2, <1>4 DEF SharedInv

(* SharedDaemon.disable leaves the daemon on while an enabled app uses it,  *)
(* and ensure_running puts back only what it found: a shared daemon goes    *)
(* away from an app that is on only when threads have raced for it, or when *)
(* a call or a systemctl failed in the last change of the app.              *)
THEOREM SharedDaemonsKept ==
    ASSUME OwnUnits PROVE Spec => []SharedKept
<1>1. Init => SharedInv
  BY SharedAtStart
<1>2. Inv /\ ThreadsOK /\ SharedInv /\ [Next]_vars => SharedInv'
  BY SharedStep DEF Typed, Inv
<1>3. SharedInv => SharedKept
  BY DEF SharedInv, SharedOK, Kept, On, SharedKept
<1> QED
  BY <1>1, <1>2, <1>3, AlwaysInv, AlwaysTyped, PTL DEF Spec

=============================================================================
