------------------------ MODULE BackupScheduleProofs ------------------------
(***************************************************************************)
(* Proofs about BackupSchedule, for any calendar, schedule and number of   *)
(* threads.                                                                *)
(***************************************************************************)
EXTENDS BackupSchedule, WellFoundedInduction, FiniteSetTheorems, TLAPS

(* Max returns the largest member of a bounded set of natural numbers. *)
LEMMA MaxOfBounded ==
    ASSUME NEW n \in Nat, NEW S, S \subseteq 0..n, S # {}
    PROVE  /\ Max(S) \in S
           /\ \A x \in S : Max(S) >= x
<1> DEFINE T == {k \in Nat : \A x \in S : x <= k}
<1>1. T # {}
  OBVIOUS
<1>2. PICK k \in T : \A j \in T : ~ (<<j, k>> \in OpToRel(<, Nat))
  <2>1. T \subseteq Nat
    OBVIOUS
  <2> HIDE DEF T
  <2> QED
    BY <1>1, <2>1, WFMin, NatLessThanWellFounded
<1>3. \A j \in T : ~ (j < k)
  BY <1>2 DEF OpToRel
<1>4. k \in S
  <2> SUFFICES ASSUME k \notin S PROVE FALSE
    OBVIOUS
  <2>1. k > 0
    <3>1. PICK x \in S : x \in 0..n
      OBVIOUS
    <3> QED
      BY <3>1
  <2>2. \A x \in S : x <= k - 1
    OBVIOUS
  <2>3. k - 1 \in T
    BY <2>1, <2>2
  <2> QED
    BY <1>3, <2>3
<1>5. k \in S /\ \A x \in S : k >= x
  BY <1>4
<1> QED
  BY <1>5, Zenon DEF Max

-----------------------------------------------------------------------------
(* Types.                                                                  *)

Stages == {"idle", "create", "creating", "list", "delete"}
Thread == [at : Stages, periods : SUBSET Periods, todo : SUBSET Archive]

TimeOK ==
    /\ now \in 0..MaxTime
    /\ streak \in 0..2
    /\ failures \in 0..MaxFailures
    /\ back \in 0..MaxBack

StoreOK ==
    /\ archives \subseteq Archive
    /\ runner \in [Runners -> Thread]
    /\ borg = {} \/ \E x \in Archive : borg = {x}

TimerOK == timer \in BOOLEAN

Typed == TimeOK /\ TimerOK /\ StoreOK

LEMMA Bounds ==
    /\ Beginning \in 0..MaxTime /\ MaxTime \in Nat /\ Skips \subseteq Nat
    /\ MaxFailures \in Nat /\ MaxBack \in Nat
  BY BackupScheduleAssumption

LEMMA TypedInit == Init => Typed
<1> SUFFICES ASSUME Init PROVE Typed
  OBVIOUS
<1>1. TimeOK
  BY Bounds DEF Init, TimeOK
<1>2. StoreOK
  BY DEF Init, StoreOK, Unlocked, Rest, Thread, Stages
<1>3. TimerOK
  BY DEF Init, TimerOK
<1> QED
  BY <1>1, <1>2, <1>3 DEF Typed

LEMMA TimerStep == TimerOK /\ [Next]_vars => TimerOK'
  BY Zenon DEF TimerOK, Next, vars, Check, CreateBegin, CreateEnd, CleanupList,
               CleanupDelete, CleanupEnd, Tick, Off, ClockBack

LEMMA TimeStep == TimeOK /\ [Next]_vars => TimeOK'
<1> SUFFICES ASSUME TimeOK, [Next]_vars PROVE TimeOK'
  OBVIOUS
<1> USE Bounds DEF TimeOK
<1>1. ASSUME NEW r \in Runners, Check(r) PROVE TimeOK'
  BY <1>1 DEF Check, Raises, CanFail, Longer
<1>2. ASSUME NEW r \in Runners, CreateBegin(r) PROVE TimeOK'
  BY <1>2 DEF CreateBegin, Raises, CanFail
<1>3. ASSUME NEW r \in Runners, CreateEnd(r) PROVE TimeOK'
  BY <1>3 DEF CreateEnd, Longer
<1>4. ASSUME NEW r \in Runners, CleanupList(r) PROVE TimeOK'
  BY <1>4 DEF CleanupList, Raises, CanFail
<1>5. ASSUME NEW r \in Runners, CleanupDelete(r) PROVE TimeOK'
  BY <1>5 DEF CleanupDelete, Raises, CanFail
<1>6. ASSUME NEW r \in Runners, CleanupEnd(r) PROVE TimeOK'
  BY <1>6 DEF CleanupEnd
<1>7. CASE Tick
  BY <1>7 DEF Tick
<1>8. ASSUME NEW hours \in Skips, Off(hours) PROVE TimeOK'
  BY <1>8 DEF Off
<1>9. CASE ClockBack
  BY <1>9 DEF ClockBack
<1>10. CASE UNCHANGED vars
  BY <1>10 DEF vars
<1> QED
  BY <1>1, <1>2, <1>3, <1>4, <1>5, <1>6, <1>7, <1>8, <1>9, <1>10 DEF Next

LEMMA StoreStep == Typed /\ [Next]_vars => StoreOK'
<1> SUFFICES ASSUME TimeOK, StoreOK, [Next]_vars PROVE StoreOK'
  BY DEF Typed
<1> USE DEF StoreOK, Thread, Stages, Rest, Unlocked
<1>1. ASSUME NEW r \in Runners, Check(r) PROVE StoreOK'
  <2>1. [Rest EXCEPT !.at = "create", !.periods = Due] \in Thread
    BY DEF Due
  <2>2. Rest \in Thread
    OBVIOUS
  <2>3. runner' \in [Runners -> Thread]
    <3> HIDE DEF Rest, Thread
    <3> QED
      BY <1>1, <2>1, <2>2 DEF Check, Raises
  <2> QED
    BY <1>1, <2>3 DEF Check
<1>2. ASSUME NEW r \in Runners, CreateBegin(r) PROVE StoreOK'
  <2>1. CASE Raises(r) /\ UNCHANGED borg
    BY <1>2, <2>1 DEF CreateBegin, Raises
  <2>2. CASE borg' = {[start |-> now, periods |-> runner[r].periods]}
    <3>1. [start |-> now, periods |-> runner[r].periods] \in Archive
      BY DEF TimeOK, Archive
    <3> QED
      BY <1>2, <2>2, <3>1 DEF CreateBegin, Raises
  <2> QED
    BY <1>2, <2>1, <2>2 DEF CreateBegin
<1>3. ASSUME NEW r \in Runners, CreateEnd(r) PROVE StoreOK'
  BY <1>3 DEF CreateEnd
<1>4. ASSUME NEW r \in Runners, CleanupList(r) PROVE StoreOK'
  <2>1. {x \in Listed : ~KeepsArchive(x, Listed)} \subseteq Archive
    BY DEF Listed
  <2> QED
    BY <1>4, <2>1 DEF CleanupList, Raises
<1>5. ASSUME NEW r \in Runners, CleanupDelete(r) PROVE StoreOK'
  BY <1>5 DEF CleanupDelete, Raises
<1>6. ASSUME NEW r \in Runners, CleanupEnd(r) PROVE StoreOK'
  BY <1>6 DEF CleanupEnd
<1>7. CASE Tick
  BY <1>7 DEF Tick
<1>8. ASSUME NEW hours \in Skips, Off(hours) PROVE StoreOK'
  BY <1>8 DEF Off
<1>9. CASE ClockBack
  BY <1>9 DEF ClockBack
<1>10. CASE UNCHANGED vars
  BY <1>10 DEF vars
<1> QED
  BY <1>1, <1>2, <1>3, <1>4, <1>5, <1>6, <1>7, <1>8, <1>9, <1>10 DEF Next

(* Every variable keeps its type: a start is an hour of the modelled time, *)
(* and the repository is worked on for at most one new archive             *)
(* (schedule.py: run_schedule).                                            *)
THEOREM TypeCorrect == Spec => []TypeOK
<1>1. Init => Typed
  BY TypedInit
<1>2. Typed /\ [Next]_vars => Typed'
  BY TimeStep, TimerStep, StoreStep DEF Typed
<1>3. Typed => TypeOK
  <2> SUFFICES ASSUME Typed PROVE TypeOK
    OBVIOUS
  <2>1. borg \subseteq Archive
    BY DEF Typed, StoreOK
  <2>2. Cardinality(borg) <= 1
    BY FS_EmptySet, FS_Singleton DEF Typed, StoreOK
  <2> QED
    BY <2>1, <2>2 DEF Typed, TimeOK, TimerOK, StoreOK, TypeOK, Thread, Stages
<1> QED
  BY <1>1, <1>2, <1>3, PTL DEF Spec

-----------------------------------------------------------------------------
(* Spacing.                                                                *)

Creating(r) == runner[r].at = "create"

\* The archives there are and the one that is being added.
Coming == archives \cup borg

\* The timer fires only when no thread is about to create an archive, and one
\* trigger lets one thread check, so that one thread at a time has decided on
\* a backup, while nothing else adds an archive.
OneDecides ==
    /\ \A r, s \in Runners : Creating(r) /\ Creating(s) => r = s
    /\ \A r \in Runners : Creating(r) => ~timer /\ borg = {} /\ runner[r].periods # {}

\* Nothing is from the future until the clock is set back.
Past == back = 0 => \A x \in Coming : x.start <= now

\* What a decided backup knows of the archives.
Room ==
    (\E r \in Runners : Creating(r)) =>
        \A x \in archives :
            /\ x.start # now
            /\ back = 0 => x.start <= now - 2

SpacedInv ==
    /\ OneDecides /\ Past /\ Room
    /\ \A x \in Coming : x.periods # {}
    /\ \A x, y \in Coming : x # y => Apart(x, y)

(* _recent_backups: a check that finds no backup too recent has none that  *)
(* started within two hours (schedule.py: run_schedule).                   *)
LEMMA NotTooSoon ==
    ASSUME Typed, ~TooSoon, NEW x \in archives, x.periods # {}, x.start <= now
    PROVE  x.start <= now - 2
<1>1. x \in Archive /\ x \in Listed
  BY DEF Typed, StoreOK, Listed
<1>2. PICK period \in Periods : period \in x.periods
  BY <1>1 DEF Archive
<1>3. x.start \in Starts(period)
  BY <1>1, <1>2 DEF Starts
<1>4. Starts(period) \subseteq 0..MaxTime
  BY DEF Starts, Listed, Typed, StoreOK, Archive
<1>5. Max(Starts(period)) \in 0..MaxTime /\ Max(Starts(period)) >= x.start
  BY <1>3, <1>4, Bounds, MaxOfBounded
<1>6. ~ (now - Max(Starts(period)) < 2)
  BY <1>2, <1>3, Zenon DEF TooSoon
<1> QED
  BY <1>1, <1>4, <1>5, <1>6 DEF Typed, TimeOK, Archive

LEMMA DecidesStep == Typed /\ OneDecides /\ [Next]_vars => OneDecides'
<1> SUFFICES ASSUME Typed, OneDecides, [Next]_vars PROVE OneDecides'
  OBVIOUS
<1> USE DEF Typed, StoreOK, TimerOK, OneDecides, Creating, Thread, Stages,
            Rest, Unlocked, Locked
<1>1. ASSUME NEW r \in Runners, Check(r) PROVE OneDecides'
  <2>1. \A s \in Runners : runner[s].at # "create"
    BY <1>1 DEF Check
  <2>2. CASE Raises(r)
    BY <1>1, <2>1, <2>2 DEF Raises
  <2>3. CASE UNCHANGED runner
    BY <1>1, <2>1, <2>3
  <2>4. CASE /\ ~Locked /\ Due # {}
             /\ runner' = [runner EXCEPT ![r] =
                             [Rest EXCEPT !.at = "create", !.periods = Due]]
    <3>1. runner'[r].periods = Due
      BY <2>4
    <3>2. \A s \in Runners : runner'[s].at = "create" => s = r
      BY <2>1, <2>4
    <3>3. ~timer' /\ borg' = {}
      BY <1>1, <2>4, Zenon DEF Check, Locked, Unlocked
    <3> QED
      BY <2>4, <3>1, <3>2, <3>3
  <2> QED
    BY <1>1, <2>2, <2>3, <2>4 DEF Check
<1>2. ASSUME NEW r \in Runners, CreateBegin(r) PROVE OneDecides'
  BY <1>2 DEF CreateBegin, Raises
<1>3. ASSUME NEW r \in Runners, CreateEnd(r) PROVE OneDecides'
  BY <1>3 DEF CreateEnd
<1>4. ASSUME NEW r \in Runners, CleanupList(r) PROVE OneDecides'
  BY <1>4 DEF CleanupList, Raises
<1>5. ASSUME NEW r \in Runners, CleanupDelete(r) PROVE OneDecides'
  BY <1>5 DEF CleanupDelete, Raises
<1>6. ASSUME NEW r \in Runners, CleanupEnd(r) PROVE OneDecides'
  BY <1>6 DEF CleanupEnd
<1>7. CASE Tick
  BY <1>7 DEF Tick
<1>8. ASSUME NEW hours \in Skips, Off(hours) PROVE OneDecides'
  BY <1>8 DEF Off
<1>9. CASE ClockBack
  BY <1>9 DEF ClockBack
<1>10. CASE UNCHANGED vars
  BY <1>10 DEF vars
<1> QED
  BY <1>1, <1>2, <1>3, <1>4, <1>5, <1>6, <1>7, <1>8, <1>9, <1>10 DEF Next

LEMMA SpacedStep == Typed /\ Typed' /\ SpacedInv /\ [Next]_vars => SpacedInv'
<1> SUFFICES ASSUME Typed, Typed', SpacedInv, [Next]_vars PROVE SpacedInv'
  OBVIOUS
<1> DEFINE Nonempty == \A x \in Coming : x.periods # {}
           Distances == \A x, y \in Coming : x # y => Apart(x, y)
           Kept == Past /\ Nonempty /\ Distances
<1>0. OneDecides'
  BY DecidesStep DEF SpacedInv
<1>a. /\ now \in Int /\ back \in 0..MaxBack /\ now' \in Int /\ back' \in 0..MaxBack
      /\ \A x \in Coming : x.start \in Int
      /\ \A x \in Coming' : x.start \in Int
  BY Bounds DEF Typed, TimeOK, StoreOK, Coming, Archive
<1>b. ASSUME Coming' \subseteq Coming, now' >= now \/ back' # 0, back' >= back
      PROVE  Kept'
  BY <1>a, <1>b, Bounds DEF SpacedInv, Past, Apart
<1>c. ASSUME archives' \subseteq archives, now' = now, back' = back,
             \A s \in Runners : Creating(s)' => Creating(s)
      PROVE  Room'
  BY <1>a, <1>c DEF SpacedInv, Room, Coming
<1>d. ASSUME \A s \in Runners : ~Creating(s)' PROVE Room'
  BY <1>d DEF Room
<1> USE DEF Typed, StoreOK, Creating, Thread, Stages, Rest, Unlocked
<1>1. ASSUME NEW r \in Runners, Check(r) PROVE Kept' /\ Room'
  <2>1. Coming' = Coming /\ now' = now /\ back' = back
    BY <1>1 DEF Check, Coming
  <2>2. Kept'
    BY <1>a, <1>b, <2>1
  <2>3. CASE TooSoon
    <3>1. \A s \in Runners : Creating(s)' => Creating(s)
      BY <1>1, <2>3 DEF Check, Raises
    <3> QED
      BY <1>1, <1>c, <2>1, <2>2, <3>1 DEF Check
  <2>4. CASE ~TooSoon
    <3>1. \A x \in archives : x.start <= now => x.start <= now - 2
      BY <2>4, NotTooSoon DEF SpacedInv, Coming
    <3>2. back = 0 => \A x \in archives : x.start <= now
      BY DEF SpacedInv, Past, Coming
    <3>3. Room'
      BY <1>1, <1>a, <3>1, <3>2 DEF Room, Check, Coming
    <3> QED
      BY <2>2, <3>3
  <2> QED
    BY <2>3, <2>4
<1>2. ASSUME NEW r \in Runners, CreateBegin(r) PROVE Kept' /\ Room'
  <2>1. CASE Raises(r) /\ UNCHANGED borg
    <3>1. Coming' = Coming /\ now' = now /\ back' = back /\ archives' = archives
      BY <1>2, <2>1 DEF CreateBegin, Coming
    <3>2. \A s \in Runners : Creating(s)' => Creating(s)
      BY <2>1 DEF Raises
    <3> QED
      BY <1>a, <1>b, <1>c, <3>1, <3>2
  <2>2. CASE borg' = {[start |-> now, periods |-> runner[r].periods]}
    <3> DEFINE new == [start |-> now, periods |-> runner[r].periods]
    <3>1. /\ now' = now /\ back' = back /\ archives' = archives
          /\ runner[r].at = "create"
      BY <1>2 DEF CreateBegin
    <3>2. Coming' = archives \cup {new} /\ archives \subseteq Coming
      BY <2>2, <3>1 DEF Coming
    <3>3. new.start = now /\ new.periods # {}
      BY <3>1 DEF SpacedInv, OneDecides
    <3>4. \A x \in archives : x.start # now /\ (back = 0 => x.start <= now - 2)
      BY <3>1 DEF SpacedInv, Room
    <3>5. \A s \in Runners : ~Creating(s)'
      BY <1>2, <2>2, <3>1 DEF CreateBegin, Raises, SpacedInv, OneDecides
    <3> HIDE DEF new
    <3>6. Past'
      BY <1>a, <3>1, <3>2, <3>3 DEF Past, SpacedInv
    <3>7. Nonempty'
      BY <3>2, <3>3 DEF SpacedInv
    <3>8. Distances'
      BY <1>a, <3>1, <3>2, <3>3, <3>4, Bounds DEF SpacedInv, Apart
    <3> QED
      BY <1>d, <3>5, <3>6, <3>7, <3>8
  <2> QED
    BY <1>2, <2>1, <2>2 DEF CreateBegin
<1>3. ASSUME NEW r \in Runners, CreateEnd(r) PROVE Kept' /\ Room'
  <2>1. Coming' \subseteq Coming /\ now' = now /\ back' = back
    BY <1>3 DEF CreateEnd, Coming
  <2>2. \A s \in Runners : Creating(s)' => Creating(s)
    BY <1>3 DEF CreateEnd
  <2>3. Room'
    <3>1. CASE archives' \subseteq archives
      BY <1>c, <2>1, <2>2, <3>1
    <3>2. CASE borg # {}
      BY <1>d, <2>2, <3>2 DEF SpacedInv, OneDecides
    <3> QED
      BY <1>3, <3>1, <3>2 DEF CreateEnd
  <2> QED
    BY <1>a, <1>b, <2>1, <2>3
<1>4. ASSUME NEW r \in Runners,
             CleanupList(r) \/ CleanupDelete(r) \/ CleanupEnd(r)
      PROVE  Kept' /\ Room'
  <2>1. /\ archives' \subseteq archives /\ UNCHANGED borg
        /\ now' = now /\ back' = back
    BY <1>4 DEF CleanupList, CleanupDelete, CleanupEnd
  <2>2. \A s \in Runners : Creating(s)' => Creating(s)
    BY <1>4 DEF CleanupList, CleanupDelete, CleanupEnd, Raises
  <2> QED
    BY <1>a, <1>b, <1>c, <2>1, <2>2 DEF Coming
<1>5. ASSUME Tick PROVE Kept' /\ Room'
  <2>1. /\ Coming' = Coming /\ now' >= now /\ back' = back
        /\ \A s \in Runners : ~Creating(s)'
    BY <1>5, <1>a DEF Tick, Coming
  <2> QED
    BY <1>a, <1>b, <1>d, <2>1
<1>6. ASSUME NEW hours \in Skips, Off(hours) PROVE Kept' /\ Room'
  <2>1. /\ Coming' \subseteq Coming /\ now' >= now /\ back' = back
        /\ \A s \in Runners : ~Creating(s)'
    BY <1>6, <1>a, Bounds DEF Off, Coming
  <2> QED
    BY <1>a, <1>b, <1>d, <2>1
<1>7. ASSUME ClockBack PROVE Kept' /\ Room'
  <2>1. /\ Coming' = Coming /\ archives' = archives /\ runner' = runner
        /\ back = 0 /\ back' = 1 /\ now' = now - 1
    BY <1>7, <1>a, BackupScheduleAssumption DEF ClockBack, Coming
  <2>2. Room'
    BY <1>a, <2>1 DEF Room, SpacedInv, Coming
  <2> QED
    BY <1>a, <1>b, <2>1, <2>2
<1>8. ASSUME UNCHANGED vars PROVE Kept' /\ Room'
  BY <1>8, <1>a, <1>b, <1>c DEF vars, Coming
<1>9. Kept' /\ Room'
  <2> HIDE DEF Kept
  <2> QED
    BY <1>1, <1>2, <1>3, <1>4, <1>5, <1>6, <1>7, <1>8 DEF Next
<1> QED
  BY <1>0, <1>9 DEF SpacedInv

LEMMA SpacedInit == Init => Typed /\ SpacedInv
<1> SUFFICES ASSUME Init PROVE SpacedInv
  BY TypedInit
<1>1. Coming = {} /\ \A r \in Runners : ~Creating(r)
  BY DEF Init, Coming, Unlocked, Creating, Rest
<1> QED
  BY <1>1 DEF SpacedInv, OneDecides, Past, Room, Coming

LEMMA SpacedFollows == SpacedInv => Spaced
  BY DEF SpacedInv, Spaced, Coming

(* However triggers overlap, fail and are cut short, scheduled backups     *)
(* start two hours apart, and in different hours when the clock was set    *)
(* back by one (schedule.py: run_schedule, _recent_backups).               *)
THEOREM BackupsApart == Spec => []Spaced
<1>1. Typed /\ SpacedInv /\ [Next]_vars => (Typed /\ SpacedInv)'
  BY TimeStep, TimerStep, StoreStep, SpacedStep DEF Typed
<1> QED
  BY <1>1, SpacedInit, SpacedFollows, PTL DEF Spec

-----------------------------------------------------------------------------
(* Cleanup.                                                                *)

\* There is a newer archive for every period of x that is kept.
Superseded(x, S) ==
    \A period \in x.periods :
        Keep[period] > 0 => \E y \in S : period \in y.periods /\ y.start > x.start

\* What a cleanup is still going to delete is not the newest of any period.
TodoInv == \A r \in Runners : \A x \in runner[r].todo : Superseded(x, archives)

\* No archive goes unless it is superseded by one that stays.
Supersedes == \A x \in archives \ archives' : Superseded(x, archives')

(* A cleanup that finds more archives of a period than it keeps, counted   *)
(* from an archive on, finds a newer one (schedule.py: _run_cleanup).      *)
LEMMA CountedOut ==
    ASSUME Typed, Spaced, NEW x \in Listed, ~KeepsArchive(x, Listed)
    PROVE  Superseded(x, archives)
<1> SUFFICES ASSUME NEW period \in x.periods, Keep[period] > 0
             PROVE  \E y \in archives : period \in y.periods /\ y.start > x.start
  BY DEF Superseded
<1> DEFINE S == {y \in Listed : period \in y.periods /\ y.start >= x.start}
<1>1. /\ Listed \subseteq archives /\ archives \subseteq Archive
      /\ \A y \in archives : y.start \in Int
  BY Bounds DEF Listed, Typed, StoreOK, Archive
<1>2. period \in Periods /\ Keep[period] \in Nat
  BY <1>1, BackupScheduleAssumption DEF Archive
<1>3. x \in S
  BY <1>1
<1>4. ~ (Cardinality(S) <= Keep[period])
  BY DEF KeepsArchive
<1>5. S # {x}
  <2> SUFFICES ASSUME S = {x} PROVE FALSE
    OBVIOUS
  <2>1. Cardinality(S) = 1
    BY FS_Singleton
  <2> HIDE DEF S
  <2> QED
    BY <1>2, <1>4, <2>1
<1>6. PICK y \in S : y # x
  BY <1>3, <1>5
<1>7. y.start # x.start
  BY <1>1, <1>6 DEF Spaced, Apart
<1> QED
  BY <1>1, <1>6, <1>7

(* Being superseded lasts, if what goes is itself superseded.              *)
LEMMA SupersededStays ==
    ASSUME Typed, Typed', Supersedes, NEW x \in Archive, Superseded(x, archives)
    PROVE  Superseded(x, archives')
<1> SUFFICES ASSUME NEW period \in x.periods, Keep[period] > 0
             PROVE  \E y \in archives' : period \in y.periods /\ y.start > x.start
  BY DEF Superseded
<1>1. PICK y \in archives : period \in y.periods /\ y.start > x.start
  BY DEF Superseded
<1>2. /\ x.start \in Int /\ \A z \in archives : z.start \in Int
      /\ \A z \in archives' : z.start \in Int
  BY Bounds DEF Typed, StoreOK, Archive
<1>3. CASE y \in archives'
  BY <1>1, <1>3
<1>4. CASE y \notin archives'
  <2>1. PICK z \in archives' : period \in z.periods /\ z.start > y.start
    BY <1>1, <1>4 DEF Supersedes, Superseded
  <2> QED
    BY <1>1, <1>2, <2>1
<1> QED
  BY <1>3, <1>4

LEMMA SupersedesStep == Typed /\ TodoInv /\ [Next]_vars => Supersedes
<1> SUFFICES ASSUME Typed, TodoInv, [Next]_vars,
                    NEW x \in archives, x \notin archives'
             PROVE  Superseded(x, archives')
  BY DEF Supersedes
<1>1. PICK r \in Runners : CleanupDelete(r)
  <2>1. ASSUME NEW r \in Runners, Check(r) \/ CreateBegin(r) \/ CreateEnd(r)
                                    \/ CleanupList(r) \/ CleanupEnd(r)
        PROVE  FALSE
    BY <2>1 DEF Check, CreateBegin, CreateEnd, CleanupList, CleanupEnd
  <2>2. ASSUME Tick \/ ClockBack \/ UNCHANGED vars PROVE FALSE
    BY <2>2 DEF Tick, ClockBack, vars
  <2>3. ASSUME NEW hours \in Skips, Off(hours) PROVE FALSE
    BY <2>3 DEF Off
  <2> QED
    BY <2>1, <2>2, <2>3 DEF Next
<1>2. x \in runner[r].todo /\ archives' = archives \ {x}
  BY <1>1 DEF CleanupDelete
<1>3. Superseded(x, archives) /\ x.start \in Int
  BY <1>2, Bounds DEF TodoInv, Typed, StoreOK, Archive
<1> QED
  BY <1>2, <1>3 DEF Superseded

LEMMA TodoStep == Typed /\ Typed' /\ Spaced /\ TodoInv /\ [Next]_vars => TodoInv'
<1> SUFFICES ASSUME Typed, Typed', Spaced, TodoInv, [Next]_vars PROVE TodoInv'
  OBVIOUS
<1>1. Supersedes
  BY SupersedesStep
<1>2. ASSUME NEW q \in Runners, runner'[q].todo \subseteq runner[q].todo,
             NEW x \in runner'[q].todo
      PROVE  Superseded(x, archives')
  <2>1. x \in Archive /\ Superseded(x, archives)
    BY <1>2 DEF TodoInv, Typed, StoreOK, Thread
  <2> QED
    BY <1>1, <2>1, SupersededStays
<1> USE DEF Typed, StoreOK, Thread, Stages, Rest
<1>3. ASSUME NEW r \in Runners, CleanupList(r), ~Raises(r) PROVE TodoInv'
  <2>1. /\ archives' = archives
        /\ runner'[r].todo = {x \in Listed : ~KeepsArchive(x, Listed)}
        /\ \A q \in Runners \ {r} : runner'[q] = runner[q]
    BY <1>3 DEF CleanupList
  <2>2. \A x \in runner'[r].todo : Superseded(x, archives')
    BY <2>1, CountedOut
  <2> QED
    BY <1>2, <2>1, <2>2 DEF TodoInv
<1>4. ASSUME ~ (\E r \in Runners : CleanupList(r) /\ ~Raises(r))
      PROVE  \A q \in Runners : runner'[q].todo \subseteq runner[q].todo
  <2>1. ASSUME NEW r \in Runners, Check(r) \/ CreateBegin(r) \/ CreateEnd(r)
                                    \/ CleanupDelete(r) \/ CleanupEnd(r)
        PROVE  \A q \in Runners : runner'[q].todo \subseteq runner[q].todo
    <3>1. CASE Raises(r) \/ UNCHANGED runner
      BY <3>1 DEF Raises
    <3>2. CASE Check(r) /\ ~Raises(r)
      BY <3>2 DEF Check
    <3>3. CASE CreateBegin(r) /\ ~Raises(r)
      BY <3>3 DEF CreateBegin
    <3>4. CASE CreateEnd(r) \/ CleanupEnd(r)
      BY <3>4 DEF CreateEnd, CleanupEnd
    <3>5. CASE CleanupDelete(r) /\ ~Raises(r)
      BY <3>5 DEF CleanupDelete
    <3> QED
      BY <2>1, <3>1, <3>2, <3>3, <3>4, <3>5
  <2>2. ASSUME NEW r \in Runners, CleanupList(r)
        PROVE  \A q \in Runners : runner'[q].todo \subseteq runner[q].todo
    BY <1>4, <2>2 DEF Raises
  <2>3. CASE Tick \/ ClockBack \/ UNCHANGED vars
    BY <2>3 DEF Tick, ClockBack, vars
  <2>4. ASSUME NEW hours \in Skips, Off(hours)
        PROVE  \A q \in Runners : runner'[q].todo \subseteq runner[q].todo
    BY <2>4 DEF Off
  <2> QED
    BY <2>1, <2>2, <2>3, <2>4 DEF Next
<1> QED
  BY <1>2, <1>3, <1>4 DEF TodoInv

(* What holds at all times of spacing and cleanup together.                *)
LEMMA AlwaysTidy == Spec => [](Typed /\ SpacedInv /\ TodoInv)
<1>1. Init => Typed /\ SpacedInv /\ TodoInv
  <2> SUFFICES ASSUME Init PROVE Typed /\ SpacedInv /\ TodoInv
    OBVIOUS
  <2>1. Typed /\ SpacedInv
    BY SpacedInit
  <2>2. TodoInv
    BY DEF Init, TodoInv, Rest
  <2> QED
    BY <2>1, <2>2
<1>2. Typed /\ SpacedInv /\ TodoInv /\ [Next]_vars
        => (Typed /\ SpacedInv /\ TodoInv)'
  BY TimeStep, TimerStep, StoreStep, SpacedStep, TodoStep, SpacedFollows DEF Typed
<1> QED
  BY <1>1, <1>2, PTL DEF Spec

(* However cleanups overlap with backups, with each other and with changes *)
(* of the clock, the newest archive of a period that is kept stays         *)
(* (schedule.py: _run_cleanup).                                            *)
THEOREM NewestStays == Spec => NewestSurvives
<1>1. /\ Typed /\ SpacedInv /\ TodoInv
      /\ Typed' /\ SpacedInv' /\ TodoInv'
      /\ [Next]_vars
      => [\A x \in archives \ archives' : \A period \in x.periods :
            Keep[period] > 0 =>
               \E y \in archives' : period \in y.periods /\ y.start >= x.start]_vars
  <2> SUFFICES ASSUME Typed, Typed', TodoInv, [Next]_vars,
                      NEW x \in archives \ archives', NEW period \in x.periods,
                      Keep[period] > 0
               PROVE  \E y \in archives' : period \in y.periods /\ y.start >= x.start
    OBVIOUS
  <2>1. PICK y \in archives' : period \in y.periods /\ y.start > x.start
    BY SupersedesStep DEF Supersedes, Superseded
  <2>2. x.start \in Int /\ y.start \in Int
    BY Bounds DEF Typed, StoreOK, Archive
  <2> QED
    BY <2>1, <2>2
<1> QED
  BY <1>1, AlwaysTidy, PTL DEF Spec, NewestSurvives

-----------------------------------------------------------------------------
(* Catching up.                                                            *)

\* The periods of a fixed length that are kept, and their length.
Fixed == {period \in {"daily", "weekly"} : Keep[period] > 0}
Span(period) == IF period = "daily" THEN HoursPerDay ELSE DaysPerWeek * HoursPerDay

\* At time t an archive of the period is at most grace hours overdue.
InTime(S, period, t, grace) ==
    \E x \in S : period \in x.periods /\ t <= x.start + Span(period) + grace

\* When an archive was made, those of other periods were not overdue, or it
\* counts for the period, too; and what superseded those since is no older.
TogetherInv ==
    /\ \A x \in archives : \A period \in Fixed : InTime(archives, period, x.start, 1)
    /\ \A x \in borg : \A period \in Fixed :
          period \in x.periods \/ InTime(archives, period, x.start, 1)
    /\ \A r \in Runners : Creating(r) => \A period \in Fixed :
          period \in runner[r].periods \/ InTime(archives, period, now, 1)

\* A backup that spans a second trigger makes that fail.
PromptInv ==
    streak > 0 => \A x \in borg : x.start = now \/ (timer /\ x.start = now - 1)

\* A backup is decided on or being made.
Busy == borg # {} \/ \E r \in Runners : Creating(r)

Grace == IF Busy THEN IF timer THEN 4 ELSE 3
                 ELSE IF timer THEN 3 ELSE 2

CaughtUp == streak = 2 => \A period \in Fixed : InTime(archives, period, now, Grace)

\* One thread makes an archive, and the repository is locked meanwhile.
MakingInv ==
    /\ \A r, s \in Runners :
          runner[r].at = "creating" /\ runner[s].at = "creating" => r = s
    /\ \A r \in Runners : runner[r].at = "creating" => borg # {}

CatchInv == MakingInv /\ TogetherInv /\ PromptInv /\ CaughtUp

LEMMA SpanNat == \A period \in Fixed : Span(period) \in Nat
<1>1. HoursPerDay \in Nat /\ DaysPerWeek * HoursPerDay \in Nat
  BY BackupScheduleAssumption
<1> QED
  BY <1>1 DEF Span

LEMMA Numbers ==
    ASSUME Typed
    PROVE  /\ now \in Int /\ Grace \in Int
           /\ archives \subseteq Archive /\ borg \subseteq Archive
           /\ \A x \in Archive : x.start \in Int /\ x.periods \subseteq Periods
  BY Bounds DEF Typed, TimeOK, StoreOK, Archive, Grace

(* With less time passed, or more allowed, an archive is still in time.    *)
LEMMA InTimeWeaker ==
    ASSUME NEW S \in SUBSET Archive, NEW period \in Fixed,
           NEW t \in Int, NEW grace \in Int, InTime(S, period, t, grace),
           NEW u \in Int, NEW more \in Int, u + grace <= t + more
    PROVE  InTime(S, period, u, more)
  BY SpanNat, Bounds DEF InTime, Archive

LEMMA InTimeEarlier ==
    ASSUME NEW S \in SUBSET Archive, NEW period \in Fixed,
           NEW t \in Int, NEW grace \in Int, InTime(S, period, t, grace),
           NEW u \in Int, u <= t
    PROVE  InTime(S, period, u, grace)
  BY InTimeWeaker

(* An archive that goes leaves one that is in time for longer.             *)
LEMMA InTimeStays ==
    ASSUME Typed, Typed', Supersedes, NEW period \in Fixed,
           NEW t \in Int, NEW grace \in Int, InTime(archives, period, t, grace)
    PROVE  InTime(archives', period, t, grace)
<1>1. PICK x \in archives : period \in x.periods /\ t <= x.start + Span(period) + grace
  BY DEF InTime
<1>2. /\ x.start \in Int /\ Span(period) \in Int
      /\ \A y \in archives' : y.start \in Int
  BY SpanNat, Bounds DEF Typed, StoreOK, Archive
<1>3. CASE x \in archives'
  BY <1>1, <1>3 DEF InTime
<1>4. CASE x \notin archives'
  <2>1. PICK y \in archives' : period \in y.periods /\ y.start > x.start
    BY <1>1, <1>4 DEF Supersedes, Superseded, Fixed
  <2> QED
    BY <1>1, <1>2, <2>1 DEF InTime
<1> QED
  BY <1>3, <1>4

(* _too_long_since_last_backup: a period that is not overdue has an        *)
(* archive that is in time.                                                *)
LEMMA NotTooLong ==
    ASSUME Typed, NEW period \in Fixed, ~TooLong(period)
    PROVE  InTime(archives, period, now, 1)
<1> DEFINE S == Starts(period)
<1>1. S # {} /\ S \subseteq 0..MaxTime
  <2>1. S # {}
    BY Zenon DEF TooLong
  <2>2. S \subseteq 0..MaxTime
    BY DEF Starts, Listed, Typed, StoreOK, Archive
  <2> QED
    BY <2>1, <2>2
<1>2. Max(S) \in S
  BY <1>1, Bounds, MaxOfBounded
<1>3. PICK x \in archives : period \in x.periods /\ x.start = Max(S)
  BY <1>2 DEF Starts, Listed
<1>4. ~ (now - Max(S) > Span(period) + 1)
  <2> HIDE DEF S
  <2>1. period = "daily" \/ period = "weekly"
    BY DEF Fixed
  <2>2. CASE period = "daily"
    BY <1>1, <2>2 DEF TooLong, Span, S
  <2>3. CASE period = "weekly"
    BY <1>1, <2>3 DEF TooLong, Span, S
  <2> QED
    BY <2>1, <2>2, <2>3
<1>5. now \in Int /\ Max(S) \in Int /\ Span(period) \in Int
  BY <1>1, <1>2, SpanNat, Numbers, Bounds
<1> HIDE DEF S
<1>6. now <= Max(S) + Span(period) + 1
  BY <1>4, <1>5
<1> QED
  BY <1>3, <1>6 DEF InTime

(* What a check that returns early has found (schedule.py: run_schedule).  *)
LEMMA FoundBackup ==
    ASSUME Typed, TogetherInv, TooSoon \/ Due = {}, NEW period \in Fixed
    PROVE  InTime(archives, period, now, 2)
<1>1. CASE Due = {}
  <2>1. InTime(archives, period, now, 1)
    BY <1>1, NotTooLong DEF Due, Fixed, Periods
  <2> QED
    BY <2>1, InTimeWeaker, Numbers
<1>2. CASE TooSoon
  <2>1. PICK other \in Periods : Starts(other) # {} /\ now - Max(Starts(other)) < 2
    BY <1>2, Zenon DEF TooSoon
  <2>2. Starts(other) \subseteq 0..MaxTime
    BY DEF Starts, Listed, Typed, StoreOK, Archive
  <2>3. Max(Starts(other)) \in Starts(other)
    BY <2>1, <2>2, Bounds, MaxOfBounded
  <2>4. PICK x \in archives : x.start = Max(Starts(other))
    BY <2>3 DEF Starts, Listed
  <2>5. now - x.start < 2 /\ x.start \in Int /\ now \in Int
    BY <2>1, <2>4, Numbers
  <2>6. InTime(archives, period, x.start, 1)
    BY DEF TogetherInv
  <2> QED
    BY <2>5, <2>6, InTimeWeaker, Numbers
<1> QED
  BY <1>1, <1>2

LEMMA MakingStep == Typed /\ MakingInv /\ [Next]_vars => MakingInv'
<1> SUFFICES ASSUME Typed, MakingInv, [Next]_vars PROVE MakingInv'
  OBVIOUS
<1> USE DEF Typed, StoreOK, Thread, Stages, Rest, Unlocked, Locked, MakingInv
<1>1. ASSUME NEW r \in Runners, Check(r) PROVE MakingInv'
  <2>1. CASE Raises(r) \/ UNCHANGED runner
    BY <1>1, <2>1 DEF Check, Raises
  <2>2. CASE runner' = [runner EXCEPT ![r] =
                          [Rest EXCEPT !.at = "create", !.periods = Due]]
    <3>1. \A s \in Runners : runner'[s].at = "creating" => runner[s].at = "creating"
      BY <2>2
    <3> QED
      BY <1>1, <3>1 DEF Check
  <2> QED
    BY <1>1, <2>1, <2>2 DEF Check
<1>2. ASSUME NEW r \in Runners, CreateBegin(r) PROVE MakingInv'
  <2>1. CASE Raises(r) /\ UNCHANGED borg
    BY <1>2, <2>1 DEF CreateBegin, Raises
  <2>2. CASE ~Locked /\ runner' = [runner EXCEPT ![r].at = "creating"] /\ borg' # {}
    <3>1. \A s \in Runners : runner'[s].at = "creating" => s = r
      BY <2>2
    <3> QED
      BY <2>2, <3>1
  <2> QED
    BY <1>2, <2>1, <2>2 DEF CreateBegin
<1>3. ASSUME NEW r \in Runners, CreateEnd(r) PROVE MakingInv'
  <2>1. \A s \in Runners : runner'[s].at # "creating"
    BY <1>3 DEF CreateEnd
  <2> QED
    BY <2>1
<1>4. ASSUME NEW r \in Runners,
             CleanupList(r) \/ CleanupDelete(r) \/ CleanupEnd(r)
      PROVE  MakingInv'
  <2>1. \A s \in Runners : runner'[s].at = "creating" => runner[s].at = "creating"
    BY <1>4 DEF CleanupList, CleanupDelete, CleanupEnd, Raises
  <2>2. borg' = borg
    BY <1>4 DEF CleanupList, CleanupDelete, CleanupEnd
  <2> QED
    BY <2>1, <2>2
<1>5. CASE Tick \/ ClockBack \/ UNCHANGED vars
  BY <1>5 DEF Tick, ClockBack, vars
<1>6. ASSUME NEW hours \in Skips, Off(hours) PROVE MakingInv'
  BY <1>6 DEF Off
<1> QED
  BY <1>1, <1>2, <1>3, <1>4, <1>5, <1>6 DEF Next

LEMMA TogetherStep ==
    Typed /\ Typed' /\ OneDecides /\ TodoInv /\ TogetherInv /\ [Next]_vars
        => TogetherInv'
<1> SUFFICES ASSUME Typed, Typed', OneDecides, TodoInv, TogetherInv, [Next]_vars
             PROVE  TogetherInv'
  OBVIOUS
<1>0. Supersedes
  BY SupersedesStep
<1>a. /\ now \in Int /\ now' \in Int
      /\ archives \subseteq Archive /\ borg \subseteq Archive
      /\ archives' \subseteq Archive
      /\ \A x \in Archive : x.start \in Int
  BY Numbers, Bounds DEF Typed, TimeOK, StoreOK
<1>b. ASSUME NEW period \in Fixed, NEW t \in Int, InTime(archives, period, t, 1)
      PROVE  InTime(archives', period, t, 1)
  BY <1>0, <1>b, InTimeStays
\* Nothing is added, and nobody decides.
<1>c. ASSUME archives' \subseteq archives, borg' \subseteq borg,
             \A s \in Runners : Creating(s)' =>
                 Creating(s) /\ runner'[s].periods = runner[s].periods /\ now' <= now
      PROVE  TogetherInv'
  <2>1. \A x \in archives' : \A period \in Fixed :
          InTime(archives', period, x.start, 1)
    BY <1>a, <1>b, <1>c DEF TogetherInv
  <2>2. \A x \in borg' : \A period \in Fixed :
          period \in x.periods \/ InTime(archives', period, x.start, 1)
    BY <1>a, <1>b, <1>c DEF TogetherInv
  <2>3. ASSUME NEW r \in Runners, Creating(r)', NEW period \in Fixed,
               period \notin runner'[r].periods
        PROVE  InTime(archives', period, now', 1)
    <3>1. Creating(r) /\ runner'[r].periods = runner[r].periods /\ now' <= now
      BY <1>c, <2>3
    <3>2. InTime(archives, period, now, 1)
      BY <2>3, <3>1 DEF TogetherInv
    <3>3. InTime(archives', period, now, 1)
      BY <1>a, <1>b, <3>2
    <3> QED
      BY <1>a, <3>1, <3>3, InTimeEarlier
  <2> QED
    BY <2>1, <2>2, <2>3 DEF TogetherInv
<1> USE DEF Typed, StoreOK, Creating, Thread, Stages, Rest, Unlocked, Locked
<1>1. ASSUME NEW r \in Runners, Check(r) PROVE TogetherInv'
  <2>1. archives' = archives /\ borg' = borg /\ now' = now
    BY <1>1 DEF Check
  <2>2. CASE Raises(r) \/ UNCHANGED runner
    <3>1. \A s \in Runners : Creating(s)' =>
            Creating(s) /\ runner'[s].periods = runner[s].periods
      BY <2>2 DEF Raises
    <3> QED
      BY <1>a, <1>c, <2>1, <3>1
  <2>3. CASE runner' = [runner EXCEPT ![r] =
                          [Rest EXCEPT !.at = "create", !.periods = Due]]
    <3>1. \A s \in Runners \ {r} : runner'[s] = runner[s]
      BY <2>3
    <3>2. runner'[r].periods = Due
      BY <2>3
    <3>3. \A period \in Fixed : period \in Due \/ InTime(archives, period, now, 1)
      BY NotTooLong DEF Due, Fixed, Periods
    <3> QED
      BY <2>1, <3>1, <3>2, <3>3 DEF TogetherInv
  <2> QED
    BY <1>1, <2>2, <2>3 DEF Check
<1>2. ASSUME NEW r \in Runners, CreateBegin(r) PROVE TogetherInv'
  <2>1. archives' = archives /\ now' = now /\ Creating(r)
    BY <1>2 DEF CreateBegin
  <2>2. \A s \in Runners : Creating(s)' =>
            Creating(s) /\ runner'[s].periods = runner[s].periods
    BY <1>2 DEF CreateBegin, Raises
  <2>3. CASE UNCHANGED borg
    BY <1>a, <1>c, <2>1, <2>2, <2>3
  <2>4. CASE borg' = {[start |-> now, periods |-> runner[r].periods]}
    <3> DEFINE x == [start |-> now, periods |-> runner[r].periods]
    <3>1. borg' = {x} /\ x.start = now /\ x.periods = runner[r].periods
      BY <2>4
    <3> HIDE DEF x
    <3>2. \A period \in Fixed : period \in x.periods \/ InTime(archives, period, x.start, 1)
      BY <2>1, <3>1 DEF TogetherInv
    <3> QED
      BY <2>1, <2>2, <3>1, <3>2 DEF TogetherInv
  <2> QED
    BY <1>2, <2>3, <2>4 DEF CreateBegin
<1>3. ASSUME NEW r \in Runners, CreateEnd(r) PROVE TogetherInv'
  <2>1. borg' = {} /\ now' = now
    BY <1>3 DEF CreateEnd
  <2>2. \A s \in Runners : Creating(s)' =>
            Creating(s) /\ runner'[s].periods = runner[s].periods
    BY <1>3 DEF CreateEnd
  <2>3. CASE archives' \subseteq archives
    BY <1>a, <1>c, <2>1, <2>2, <2>3
  <2>4. CASE archives' = archives \cup borg /\ borg # {}
    <3>1. \A s \in Runners : ~Creating(s)'
      BY <2>2, <2>4 DEF OneDecides
    <3>2. ASSUME NEW x \in archives', NEW period \in Fixed
          PROVE  InTime(archives', period, x.start, 1)
      <4>1. CASE InTime(archives, period, x.start, 1)
        BY <1>a, <1>b, <3>2, <4>1
      <4>2. CASE period \in x.periods
        BY <1>a, <3>2, <4>2, SpanNat DEF InTime
      <4> QED
        BY <2>4, <4>1, <4>2 DEF TogetherInv
    <3> QED
      BY <2>1, <3>1, <3>2 DEF TogetherInv
  <2> QED
    BY <1>3, <2>3, <2>4 DEF CreateEnd
<1>4. ASSUME NEW r \in Runners,
             CleanupList(r) \/ CleanupDelete(r) \/ CleanupEnd(r)
      PROVE  TogetherInv'
  <2>1. archives' \subseteq archives /\ borg' = borg /\ now' = now
    BY <1>4 DEF CleanupList, CleanupDelete, CleanupEnd
  <2>2. \A s \in Runners : Creating(s)' =>
            Creating(s) /\ runner'[s].periods = runner[s].periods
    BY <1>4 DEF CleanupList, CleanupDelete, CleanupEnd, Raises
  <2> QED
    BY <1>a, <1>c, <2>1, <2>2
<1>5. CASE Tick
  BY <1>5, <1>c DEF Tick
<1>6. ASSUME NEW hours \in Skips, Off(hours) PROVE TogetherInv'
  BY <1>6, <1>c DEF Off
<1>7. CASE ClockBack \/ UNCHANGED vars
  BY <1>7, <1>a, <1>c DEF ClockBack, vars
<1> QED
  BY <1>1, <1>2, <1>3, <1>4, <1>5, <1>6, <1>7 DEF Next

LEMMA PromptStep ==
    Typed /\ Typed' /\ OneDecides /\ PromptInv /\ [Next]_vars => PromptInv'
<1> SUFFICES ASSUME Typed, Typed', OneDecides, PromptInv, [Next]_vars, streak' > 0,
                    NEW x \in borg'
             PROVE  x.start = now' \/ (timer' /\ x.start = now' - 1)
  BY DEF PromptInv
<1>0. /\ now \in Int /\ now' \in Int /\ timer \in BOOLEAN
      /\ streak \in 0..2 /\ streak' \in 0..2
  BY Bounds DEF Typed, TimeOK, TimerOK
<1> USE DEF Unlocked, Locked
<1>1. ASSUME NEW r \in Runners, Check(r) PROVE FALSE
  BY <1>1 DEF Check, Raises
<1>2. ASSUME NEW r \in Runners, CreateBegin(r)
      PROVE  x.start = now' \/ (timer' /\ x.start = now' - 1)
  <2>1. ~timer
    BY <1>2 DEF CreateBegin, OneDecides, Creating
  <2>2. borg' = {[start |-> now, periods |-> runner[r].periods]}
    BY <1>2 DEF CreateBegin, Raises
  <2>3. x.start = now
    BY <2>2
  <2> QED
    BY <1>0, <1>2, <2>1, <2>3 DEF CreateBegin
<1>3. ASSUME NEW r \in Runners, CreateEnd(r) PROVE FALSE
  BY <1>3 DEF CreateEnd
<1>4. ASSUME NEW r \in Runners,
             CleanupList(r) \/ CleanupDelete(r) \/ CleanupEnd(r)
      PROVE  x.start = now' \/ (timer' /\ x.start = now' - 1)
  <2>1. UNCHANGED <<now, borg, timer>> /\ streak > 0
    BY <1>4 DEF CleanupList, CleanupDelete, CleanupEnd, Raises
  <2> QED
    BY <2>1 DEF PromptInv
<1>5. CASE Tick
  <2>1. /\ ~timer /\ timer' /\ borg' = borg /\ streak' = streak
        /\ now' = now \/ now' = now + 1
    BY <1>5 DEF Tick
  <2>2. x.start = now
    BY <1>0, <2>1 DEF PromptInv
  <2>3. now' = now \/ now' = now + 1
    BY <2>1
  <2>4. x.start = now' \/ x.start = now' - 1
    <3>1. now \in Int /\ now + 1 - 1 = now
      BY <1>0
    <3> QED
      BY <2>2, <2>3, <3>1
  <2> QED
    BY <2>1, <2>4
<1>6. ASSUME NEW hours \in Skips, Off(hours) PROVE FALSE
  BY <1>6 DEF Off
<1>7. CASE ClockBack
  BY <1>7 DEF ClockBack
<1>8. CASE UNCHANGED vars
  BY <1>8 DEF vars, PromptInv
<1> QED
  BY <1>1, <1>2, <1>3, <1>4, <1>5, <1>6, <1>7, <1>8 DEF Next

LEMMA CaughtUpStep ==
    ASSUME Typed, Typed', OneDecides, TodoInv, CatchInv, TogetherInv', [Next]_vars
    PROVE  CaughtUp'
<1> SUFFICES ASSUME streak' = 2, NEW period \in Fixed
             PROVE  InTime(archives', period, now', Grace')
  BY DEF CaughtUp
<1> USE DEF CatchInv
<1>0. /\ now \in Int /\ now' \in Int /\ Grace \in Int /\ Grace' \in 2..4
      /\ archives \subseteq Archive /\ archives' \subseteq Archive
      /\ borg \subseteq Archive
      /\ \A x \in Archive : x.start \in Int
      /\ streak \in 0..2 /\ timer \in BOOLEAN
  BY Numbers, Bounds DEF Typed, TimeOK, StoreOK, TimerOK, Grace
<1>a. ASSUME NEW t \in Int, NEW grace \in Int, InTime(archives, period, t, grace)
      PROVE  InTime(archives', period, t, grace)
  BY <1>a, SupersedesStep, InTimeStays
\* At most as late as before.
<1>b. ASSUME streak = 2, now' = now, Grace' = Grace
      PROVE  InTime(archives', period, now', Grace')
  BY <1>0, <1>a, <1>b DEF CaughtUp
<1> USE DEF Typed, StoreOK, Creating, Thread, Stages, Rest, Unlocked, Locked
<1>1. ASSUME NEW r \in Runners, Check(r)
      PROVE  InTime(archives', period, now', Grace')
  <2>1. archives' = archives /\ now' = now /\ borg' = borg /\ borg = {} /\ timer /\ ~timer'
    BY <1>1 DEF Check, Raises
  <2>2. CASE TooSoon \/ Due = {}
    <3>1. InTime(archives, period, now, 2)
      BY <2>2, FoundBackup
    <3> QED
      BY <1>0, <2>1, <3>1, InTimeWeaker
  <2>3. CASE ~ (TooSoon \/ Due = {})
    <3>a. ~Raises(r)
      BY DEF Raises
    <3>b. /\ UNCHANGED streak
          /\ runner' = [runner EXCEPT ![r] = [Rest EXCEPT !.at = "create", !.periods = Due]]
      BY <1>1, <2>3, <3>a DEF Check
    <3>1. streak = 2 /\ runner'[r].at = "create"
      BY <3>b
    <3>2. Grace = 3 /\ Grace' = 3
      BY <2>1, <3>1 DEF Grace, Busy, OneDecides
    <3> QED
      BY <1>b, <2>1, <3>1, <3>2
  <2> QED
    BY <2>2, <2>3
<1>2. ASSUME NEW r \in Runners, CreateBegin(r)
      PROVE  InTime(archives', period, now', Grace')
  <2>a. ~Raises(r)
    BY DEF Raises
  <2>b. /\ borg' = {[start |-> now, periods |-> runner[r].periods]}
        /\ UNCHANGED <<streak, now, timer>>
    BY <1>2, <2>a DEF CreateBegin
  <2>1. streak = 2 /\ borg' # {} /\ now' = now /\ timer' = timer
    BY <2>b
  <2>2. Busy /\ Busy'
    BY <1>2, <2>1 DEF CreateBegin, Busy
  <2>3. Grace' = Grace
    BY <2>1, <2>2 DEF Grace
  <2> QED
    BY <1>b, <2>1, <2>3
<1>3. ASSUME NEW r \in Runners, CreateEnd(r)
      PROVE  InTime(archives', period, now', Grace')
  <2>1. archives' = archives \cup borg /\ now' = now /\ streak > 0 /\ borg # {}
    BY <1>0, <1>3 DEF CreateEnd, Longer, MakingInv
  <2>2. PICK x \in borg : x.start = now \/ (timer /\ x.start = now - 1)
    BY <2>1 DEF PromptInv
  <2>3. InTime(archives', period, x.start, 1)
    BY <2>1, <2>2 DEF TogetherInv
  <2>4. x.start \in Int /\ now' <= x.start + 1
    BY <1>0, <2>1, <2>2
  <2>5. now' + 1 <= x.start + Grace'
    BY <1>0, <2>4
  <2> QED
    BY <1>0, <2>3, <2>4, <2>5, InTimeWeaker
<1>4. ASSUME NEW r \in Runners,
             CleanupList(r) \/ CleanupDelete(r) \/ CleanupEnd(r)
      PROVE  InTime(archives', period, now', Grace')
  <2>1. streak = 2 /\ UNCHANGED <<now, borg, timer>>
    BY <1>4 DEF CleanupList, CleanupDelete, CleanupEnd, Raises
  <2>2. \A s \in Runners : Creating(s)' <=> Creating(s)
    BY <1>4 DEF CleanupList, CleanupDelete, CleanupEnd, Raises
  <2>3. Grace' = Grace
    BY <2>1, <2>2 DEF Grace, Busy
  <2> QED
    BY <1>b, <2>1, <2>3
<1>5. CASE Tick
  <2>1. /\ streak = 2 /\ ~timer /\ timer' /\ (now' = now \/ now' = now + 1)
        /\ archives' = archives /\ UNCHANGED <<borg, runner>>
    BY <1>5 DEF Tick
  <2>2. Busy' <=> Busy
    BY <2>1 DEF Busy
  <2>3. Grace' = Grace + 1
    BY <2>1, <2>2 DEF Grace
  <2>4. InTime(archives, period, now, Grace)
    BY <2>1 DEF CaughtUp
  <2>5. now' + Grace <= now + Grace'
    <3>1. CASE now' = now
      BY <1>0, <2>3, <3>1
    <3>2. CASE now' = now + 1
      BY <1>0, <2>3, <3>2
    <3> QED
      BY <2>1, <3>1, <3>2
  <2>6. InTime(archives, period, now', Grace')
    <3> HIDE DEF Typed, StoreOK, Creating, Thread, Stages, Rest, Unlocked, Locked, CatchInv
    <3>1. archives \subseteq Archive /\ now' \in Int /\ Grace' \in Int
      BY <1>0
    <3> QED
      BY <1>0, <3>1, <2>4, <2>5, InTimeWeaker
  <2> QED
    BY <2>1, <2>6
<1>6. ASSUME NEW hours \in Skips, Off(hours) PROVE FALSE
  BY <1>6 DEF Off
<1>7. CASE ClockBack
  BY <1>7 DEF ClockBack
<1>8. CASE UNCHANGED vars
  <2>1. streak = 2 /\ now' = now /\ Grace' = Grace
    BY <1>8 DEF vars, Grace, Busy
  <2> QED
    BY <1>b, <2>1
<1> QED
  BY <1>1, <1>2, <1>3, <1>4, <1>5, <1>6, <1>7, <1>8 DEF Next

(* Daily and weekly backups catch up after failures, time off and changes  *)
(* of the clock, for any number of runs that overlap: two triggers in a    *)
(* row that go well are enough (schedule.py: run_schedule,                 *)
(* _too_long_since_last_backup).                                           *)
THEOREM BackupsCatchUp == Spec => []CatchesUp
<1>1. Init => CatchInv
  BY DEF Init, CatchInv, MakingInv, TogetherInv, PromptInv, CaughtUp, Unlocked,
         Rest, Creating
<1>2. /\ Typed /\ SpacedInv /\ TodoInv /\ CatchInv
      /\ (Typed /\ SpacedInv /\ TodoInv)'
      /\ [Next]_vars
      => CatchInv'
  BY MakingStep, TogetherStep, PromptStep, CaughtUpStep DEF SpacedInv, CatchInv
<1>3. Typed /\ CatchInv => CatchesUp
  <2> SUFFICES ASSUME Typed, CatchInv, NEW period \in Fixed, streak = 2
               PROVE  \E x \in archives :
                        period \in x.periods /\ now <= PeriodEnd(period, x.start) + 4
    BY DEF CatchesUp, Fresh, Fixed
  <2>1. InTime(archives, period, now, 4)
    <3>1. InTime(archives, period, now, Grace)
      BY DEF CatchInv, CaughtUp
    <3>2. Grace \in 2..4
      BY DEF Grace
    <3> QED
      BY <3>1, <3>2, Numbers, InTimeWeaker
  <2>2. \A x \in archives : PeriodEnd(period, x.start) = x.start + Span(period)
    BY DEF Fixed, PeriodEnd, Span
  <2> QED
    BY <2>1, <2>2 DEF InTime
<1> QED
  BY <1>1, <1>2, <1>3, AlwaysTidy, PTL DEF Spec
=============================================================================
