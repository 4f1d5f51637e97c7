-------------------------- MODULE OperationsProofs --------------------------
(***************************************************************************)
(* Proofs about Operations, for any set of operations, identifiers, apps   *)
(* and caller threads.                                                     *)
(***************************************************************************)
EXTENDS Operations, TLAPS

\* The state of an operation and the stage of its thread go together.
ThreadMatchesState == \A op \in Ops :
    /\ thread[op] = "none" <=> state[op] \in {"none", "waiting"}
    /\ thread[op] \in {"begin", "target"} => state[op] = "running"
    /\ thread[op] \in {"finally", "callback", "removing", "scheduling", "ended"}
          => state[op] = "completed"

\* An operation that is running is the current one, even if its thread died.
RunningIsCurrent == \A op \in Ops : state[op] = "running" => current = op

\* The dict holds existing operations under their own identifiers.
ListedUnderId == \A id \in Ids :
    operations[id] # NoOp =>
        OpId[operations[id]] = id /\ state[operations[id]] # "none"

\* A thread in the callback has withdrawn itself as the current operation.
CallbackClears == \A op \in Ops :
    thread[op] \in {"removing", "scheduling"} => current = NoOp

\* What a caller holds: an object not yet constructed, or one it has added.
CallerHolds == \A c \in Callers :
    /\ caller[c].at = "new" => state[caller[c].op] = "none"
    /\ caller[c].at \in {"schedule", "joining"} => state[caller[c].op] # "none"

\* A thread dies in on_complete of an operation with show_message=False or in a
\* notification, and in the latter case alone remains the current one.
WhoDies == \A op \in Ops : thread[op] = "died" => op \in Silent \cup Notifying

\* Between critical sections, and at the start of new, the queue is served.
Served ==
    \/ \E op \in Silent \cup Notifying : thread[op] = "died"
    \/ \E c \in Callers : caller[c].at = "schedule"
    \/ \E op \in Ops : thread[op] \in {"removing", "scheduling"}
    \/ current # NoOp
    \/ \A id \in Ids : ~Waiting(id)

IInv ==
    /\ TypeOK
    /\ LockExclusive
    /\ CurrentIsActive
    /\ ThreadMatchesState
    /\ RunningIsCurrent
    /\ ListedUnderId
    /\ CallbackClears
    /\ CallerHolds
    /\ LostOnlyToSilent
    /\ WhoDies
    /\ Served

-----------------------------------------------------------------------------

\* Type correctness of the manager, the operations and their threads.
THEOREM TypeCorrect == Spec => []TypeOK
<1> USE OperationsAssumption DEF TypeOK, Idle
<1>1. Init => TypeOK
  BY DEF Init, States, Stages
<1>2. TypeOK /\ [Next]_vars => TypeOK'
  <2> SUFFICES ASSUME TypeOK, [Next]_vars PROVE TypeOK'
    OBVIOUS
  <2>1. ASSUME NEW c \in Callers, NEW op \in Ops, NewEnter(c, op) PROVE TypeOK'
    BY <2>1 DEF NewEnter, managerVars
  <2>2. ASSUME NEW c \in Callers, NewRaises(c) PROVE TypeOK'
    BY <2>2 DEF NewRaises, managerVars
  <2>3. ASSUME NEW c \in Callers, NewAdd(c) PROVE TypeOK'
    BY <2>3 DEF NewAdd, Put, Keys, States
  <2>4. ASSUME NEW c \in Callers, NewSchedule(c) PROVE TypeOK'
    BY <2>4 DEF NewSchedule, ScheduleNext, NextWaiting, Waiting, Run, States, Stages
  <2>5. ASSUME NEW c \in Callers, Join(c) PROVE TypeOK'
    BY <2>5 DEF Join, managerVars
  <2>6. ASSUME NEW app \in Apps, CollectResults(app) PROVE TypeOK'
    BY <2>6 DEF CollectResults, Remove
  <2>7. ASSUME NEW op \in Ops, ThreadStep(op) PROVE TypeOK'
    <3>1. CASE Begin(op) \/ BeginDies(op) \/ Notify(op) \/ NotifyDies(op)
      BY <3>1 DEF Begin, BeginDies, Notify, NotifyDies, Advance, threadOnly,
                  managerVars, Stages
    <3>2. CASE Finish(op)
      BY <3>2 DEF Finish, Advance, threadOnly, managerVars, Stages, States
    <3>3. CASE CompleteEnter(op) \/ CompleteRaises(op)
      BY <3>3 DEF CompleteEnter, CompleteRaises, Advance, managerVars, Stages
    <3>4. CASE CompleteRemove(op)
      BY <3>4 DEF CompleteRemove, Advance, Remove, Stages
    <3>5. CASE CompleteSchedule(op)
      BY <3>5 DEF CompleteSchedule, ScheduleNext, NextWaiting, Waiting, Run,
                  States, Stages
    <3> QED BY <2>7, <3>1, <3>2, <3>3, <3>4, <3>5 DEF ThreadStep
  <2>8. ASSUME NEW op \in Ops, OnUpdate(op) PROVE TypeOK'
    BY <2>8 DEF OnUpdate, threadOnly, managerVars
  <2>9. ASSUME NEW op \in Ops, NEW app \in Apps, ReuseForApp(op, app) PROVE TypeOK'
    BY <2>9 DEF ReuseForApp, managerVars
  <2>10. CASE UNCHANGED vars
    BY <2>10 DEF vars
  <2> QED
    BY <2>1, <2>2, <2>3, <2>4, <2>5, <2>6, <2>7, <2>8, <2>9, <2>10
    DEF Next, CallerStep
<1> QED
  BY <1>1, <1>2, PTL DEF Spec

-----------------------------------------------------------------------------

\* Every step of every thread preserves the inductive invariant.  For most
\* actions each conjunct follows from itself; the steps <2> single out the
\* conjuncts that rest on others.
LEMMA StepInv == IInv /\ TypeOK' /\ [Next]_vars => IInv'
<1> SUFFICES ASSUME IInv, TypeOK', [Next]_vars PROVE IInv'
  OBVIOUS
<1> USE OperationsAssumption
    DEF IInv, TypeOK, Idle, LockExclusive, InManager, CurrentIsActive, Active,
        ThreadMatchesState, RunningIsCurrent, ListedUnderId, CallbackClears,
        CallerHolds, LostOnlyToSilent, SilentBefore, WhoDies, Served,
        Waiting
<1>1. ASSUME NEW c \in Callers, NEW op \in Ops, NewEnter(c, op) PROVE IInv'
  BY <1>1 DEF NewEnter, managerVars
<1>2. ASSUME NEW c \in Callers, NewRaises(c) PROVE IInv'
  BY <1>2 DEF NewRaises, managerVars
<1>3. ASSUME NEW c \in Callers, NewAdd(c) PROVE IInv'
  <2>1. ThreadMatchesState'
    BY <1>3 DEF NewAdd, Put, InProgress, Keys
  <2>2. CallerHolds'
    BY <1>3 DEF NewAdd, Put, InProgress, Keys
  <2>3. LostOnlyToSilent'
    BY <1>3 DEF NewAdd, Put, InProgress, Keys
  <2>4. /\ LockExclusive' /\ CurrentIsActive' /\ RunningIsCurrent'
        /\ ListedUnderId' /\ CallbackClears' /\ (WhoDies /\ Served)'
    BY <1>3 DEF NewAdd, Put, InProgress, Keys
  <2> QED
    BY <2>1, <2>2, <2>3, <2>4
<1>4. ASSUME NEW c \in Callers, NewSchedule(c) PROVE IInv'
  <2>1. CallbackClears'
    BY <1>4 DEF NewSchedule, ScheduleNext, NextWaiting, Run
  <2>2. LockExclusive' /\ LostOnlyToSilent' /\ (WhoDies /\ Served)'
    BY <1>4 DEF NewSchedule, ScheduleNext, NextWaiting, Run
  <2>4. CallerHolds'
    BY <1>4 DEF NewSchedule, ScheduleNext, NextWaiting, Run
  <2>3. /\ CurrentIsActive' /\ ThreadMatchesState'
        /\ RunningIsCurrent' /\ ListedUnderId'
    BY <1>4 DEF NewSchedule, ScheduleNext, NextWaiting, Run
  <2> QED
    BY <2>1, <2>2, <2>3, <2>4
<1>5. ASSUME NEW c \in Callers, Join(c) PROVE IInv'
  BY <1>5 DEF Join, managerVars
<1>6. ASSUME NEW app \in Apps, CollectResults(app) PROVE IInv'
  BY <1>6 DEF CollectResults, Remove, Collectable, Keys
<1>7. ASSUME NEW op \in Ops, Begin(op) PROVE IInv'
  BY <1>7 DEF Begin, Advance, threadOnly, managerVars
<1>8. ASSUME NEW op \in Ops, BeginDies(op) PROVE IInv'
  BY <1>8 DEF BeginDies, Advance, threadOnly, managerVars
<1>9. ASSUME NEW op \in Ops, Finish(op) PROVE IInv'
  <2>1. CallerHolds'
    BY <1>9 DEF Finish, Advance, threadOnly, managerVars
  <2>2. /\ LockExclusive' /\ CurrentIsActive' /\ ThreadMatchesState'
        /\ RunningIsCurrent' /\ ListedUnderId' /\ CallbackClears'
        /\ LostOnlyToSilent' /\ (WhoDies /\ Served)'
    BY <1>9 DEF Finish, Advance, threadOnly, managerVars
  <2> QED
    BY <2>1, <2>2
<1>10. ASSUME NEW op \in Ops, Notify(op) PROVE IInv'
  BY <1>10 DEF Notify, Advance, threadOnly, managerVars
<1>11. ASSUME NEW op \in Ops, NotifyDies(op) PROVE IInv'
  BY <1>11 DEF NotifyDies, Advance, threadOnly, managerVars
<1>12. ASSUME NEW op \in Ops, CompleteEnter(op) PROVE IInv'
  <2>1. RunningIsCurrent'
    BY <1>12 DEF CompleteEnter, Advance
  <2>2. /\ LockExclusive' /\ CurrentIsActive' /\ ThreadMatchesState'
        /\ ListedUnderId' /\ CallbackClears' /\ CallerHolds'
        /\ LostOnlyToSilent' /\ (WhoDies /\ Served)'
    BY <1>12 DEF CompleteEnter, Advance
  <2> QED
    BY <2>1, <2>2
<1>13. ASSUME NEW op \in Ops, CompleteRemove(op) PROVE IInv'
  <2>1. LostOnlyToSilent'
    BY <1>13 DEF CompleteRemove, Advance, Remove, Keys
  <2>2. /\ LockExclusive' /\ CurrentIsActive' /\ ThreadMatchesState'
        /\ RunningIsCurrent' /\ ListedUnderId' /\ CallbackClears'
        /\ CallerHolds' /\ (WhoDies /\ Served)'
    BY <1>13 DEF CompleteRemove, Advance, Remove, Keys
  <2> QED
    BY <2>1, <2>2
<1>14. ASSUME NEW op \in Ops, CompleteRaises(op) PROVE IInv'
  BY <1>14 DEF CompleteRaises, Advance, managerVars
<1>15. ASSUME NEW op \in Ops, CompleteSchedule(op) PROVE IInv'
  <2>1. CallbackClears'
    BY <1>15 DEF CompleteSchedule, ScheduleNext, NextWaiting, Run
  <2>2. /\ LockExclusive' /\ CurrentIsActive' /\ ThreadMatchesState'
        /\ RunningIsCurrent' /\ ListedUnderId' /\ CallerHolds'
        /\ LostOnlyToSilent' /\ (WhoDies /\ Served)'
    BY <1>15 DEF CompleteSchedule, ScheduleNext, NextWaiting, Run
  <2> QED
    BY <2>1, <2>2
<1>16. ASSUME NEW op \in Ops, OnUpdate(op) PROVE IInv'
  BY <1>16 DEF OnUpdate, threadOnly, managerVars
<1>17. ASSUME NEW op \in Ops, NEW app \in Apps, ReuseForApp(op, app) PROVE IInv'
  BY <1>17 DEF ReuseForApp, managerVars
<1>18. CASE UNCHANGED vars
  BY <1>18 DEF vars
<1> QED
  BY <1>1, <1>2, <1>3, <1>4, <1>5, <1>6, <1>7, <1>8, <1>9, <1>10, <1>11,
     <1>12, <1>13, <1>14, <1>15, <1>16, <1>17, <1>18 DEF Next, CallerStep,
     ThreadStep

-----------------------------------------------------------------------------

\* The inductive invariant holds in every reachable state.
THEOREM InductiveInvariant == Spec => []IInv
<1>1. Init => IInv
  BY OperationsAssumption
  DEF Init, IInv, TypeOK, Idle, States, Stages, LockExclusive, InManager,
      CurrentIsActive, Active, ThreadMatchesState, RunningIsCurrent,
      ListedUnderId, CallbackClears, CallerHolds, LostOnlyToSilent, SilentBefore, WhoDies, Served,
        Waiting
<1> QED
  BY <1>1, TypeCorrect, StepInv, PTL DEF Spec

\* Operations never overlap, and the manager's critical sections exclude each
\* other, for any number of operations and of threads that create them.
THEOREM OperationsSerialised ==
    Spec => [](Serialised /\ LockExclusive /\ CurrentIsActive)
<1>1. IInv => Serialised /\ LockExclusive /\ CurrentIsActive
  BY DEF IInv, Serialised, CurrentIsActive
<1> QED
  BY <1>1, InductiveInvariant, PTL

\* An operation is lost only to one with show_message=False and its identifier.
THEOREM LossNeedsSilent == Spec => []LostOnlyToSilent
<1>1. IInv => LostOnlyToSilent
  BY DEF IInv
<1> QED
  BY <1>1, InductiveInvariant, PTL

\* The queue stands still only after the death of a thread that one of the two
\* kinds of operation can bring about.
THEOREM StallNeedsDeath == Spec => []StallsOnlyAfterDeath
<1>1. IInv => StallsOnlyAfterDeath
  <2> SUFFICES ASSUME IInv, ~(\E op \in Silent \cup Notifying : thread[op] = "died"),
                      lock = Free, current = NoOp \/ thread[current] = "died"
               PROVE  \A id \in Ids : ~Waiting(id)
    BY DEF StallsOnlyAfterDeath, SchedulerDied, NoStalledQueue
  <2>1. current = NoOp
    BY DEF IInv, TypeOK, WhoDies
  <2> QED
    BY <2>1, OperationsAssumption DEF IInv, TypeOK, Served, LockExclusive, InManager
<1> QED
  BY <1>1, InductiveInvariant, PTL

\* Without show_message=False no operation is lost: none can take the
\* identifier under which another one is listed.
THEOREM ShownOperationsAreSafe ==
    ASSUME Silent = {} PROVE Spec => []NoOperationLost
<1>1. LostOnlyToSilent => NoOperationLost
  BY DEF LostOnlyToSilent, SilentBefore, NoOperationLost
<1> QED
  BY <1>1, LossNeedsSilent, PTL

\* Where every operation shows its message and none shows a notification, the
\* queue never stands still: whenever an operation waits and the lock is free,
\* the current one is alive and will call _schedule_next.
THEOREM QueueServed ==
    ASSUME Silent = {}, Notifying = {} PROVE Spec => []NoStalledQueue
<1>1. StallsOnlyAfterDeath => NoStalledQueue
  BY DEF StallsOnlyAfterDeath, SchedulerDied
<1> QED
  BY <1>1, StallNeedsDeath, PTL

-----------------------------------------------------------------------------

\* What one step does to the states: nothing, or it moves one operation on.
Moves(op, from, to) ==
    /\ state[op] = from
    /\ state' = [state EXCEPT ![op] = to]

StateStep ==
    \/ state' = state
    \/ \E op \in Ops : Moves(op, "none", "waiting")
    \/ /\ current = NoOp
       /\ \E op \in Ops : Moves(op, "waiting", "running")
    \/ \E op \in Ops : Moves(op, "running", "completed")

\* Every step leaves the states alone, adds one waiting operation, starts one
\* while none is current, or completes one.
LEMMA StateSteps == IInv /\ [Next]_vars => StateStep
<1> SUFFICES ASSUME IInv, [Next]_vars PROVE StateStep
  OBVIOUS
<1> USE OperationsAssumption DEF IInv, TypeOK, Idle, StateStep, Moves
<1>1. ASSUME NEW c \in Callers, NewAdd(c) PROVE StateStep
  <2>1. caller[c].op \in Ops /\ state[caller[c].op] = "none"
    BY <1>1 DEF NewAdd, CallerHolds
  <2>2. Moves(caller[c].op, "none", "waiting")
    BY <1>1, <2>1 DEF NewAdd
  <2> QED
    BY <2>1, <2>2
<1>2. ASSUME NEW c \in Callers, NewSchedule(c) PROVE StateStep
  BY <1>2 DEF NewSchedule, ScheduleNext, NextWaiting, Waiting, Run
<1>3. ASSUME NEW op \in Ops, CompleteSchedule(op) PROVE StateStep
  BY <1>3 DEF CompleteSchedule, ScheduleNext, NextWaiting, Waiting, Run
<1>4. ASSUME NEW op \in Ops, Finish(op) PROVE StateStep
  BY <1>4 DEF Finish, Advance, ThreadMatchesState
<1>5. CASE state' = state
  BY <1>5
<1> QED
  BY <1>1, <1>2, <1>3, <1>4, <1>5
  DEF Next, CallerStep, ThreadStep, NewEnter, NewRaises, Join, CollectResults,
      Begin, BeginDies, Notify, NotifyDies, CompleteEnter, CompleteRemove,
      CompleteRaises, OnUpdate, ReuseForApp, vars

\* The exception of an operation is final once it has completed.
LEMMA ExceptionFinal ==
    IInv /\ [Next]_vars =>
        \A op \in Ops : state[op] = "completed" => exception'[op] = exception[op]
<1> SUFFICES ASSUME IInv, [Next]_vars, NEW op \in Ops, state[op] = "completed"
             PROVE  exception'[op] = exception[op]
  OBVIOUS
<1> USE DEF IInv, TypeOK, ThreadMatchesState
<1>1. ASSUME NEW p \in Ops, OnUpdate(p) \/ Finish(p)
      PROVE  exception'[op] = exception[op]
  BY <1>1 DEF OnUpdate, Finish, Advance
<1>2. CASE exception' = exception
  BY <1>2
<1> QED
  BY <1>1, <1>2
  DEF Next, CallerStep, ThreadStep, NewEnter, NewRaises, NewAdd, NewSchedule,
      Join, CollectResults, Begin, BeginDies, Notify, NotifyDies, CompleteEnter,
      CompleteRemove, CompleteRaises, CompleteSchedule, ReuseForApp, vars

\* An operation is created once, runs once and has one outcome.
THEOREM OperationsRunOnce == Spec => RunsOnce
<1>1. IInv /\ [Next]_vars =>
        [\A op \in Ops :
          /\ <<state[op], state'[op]>> \in
                {<<"none", "waiting">>, <<"waiting", "running">>,
                 <<"running", "completed">>} \cup {<<s, s>> : s \in States}
          /\ state[op] = "completed" => exception'[op] = exception[op]]_vars
  <2> SUFFICES ASSUME IInv, [Next]_vars, NEW op \in Ops
               PROVE  <<state[op], state'[op]>> \in
                        {<<"none", "waiting">>, <<"waiting", "running">>,
                         <<"running", "completed">>} \cup {<<s, s>> : s \in States}
    BY ExceptionFinal
  <2>1. StateStep
    BY StateSteps
  <2> QED
    BY <2>1 DEF StateStep, Moves, IInv, TypeOK
<1> QED
  BY <1>1, InductiveInvariant, PTL DEF Spec, RunsOnce

\* The manager implements the abstract queue of jobs run one at a time.
THEOREM Refinement == Spec => ImplementsSerialJobs
<1>1. Init => Serial!Init
  BY DEF Init, Serial!Init
<1>2. IInv /\ [Next]_vars => [Serial!Next]_Serial!jobVars
  <2> SUFFICES ASSUME IInv, [Next]_vars PROVE [Serial!Next]_Serial!jobVars
    OBVIOUS
  <2> USE OperationsAssumption DEF IInv, TypeOK, Serial!Next, Serial!jobVars
  <2>1. CASE state' = state
    BY <2>1
  <2>2. ASSUME NEW op \in Ops, Moves(op, "none", "waiting")
        PROVE  Serial!Submit(op)
    BY <2>2 DEF Moves, Serial!Submit
  <2>3. ASSUME current = NoOp, NEW op \in Ops, Moves(op, "waiting", "running")
        PROVE  Serial!Start(op)
    BY <2>3 DEF Moves, Serial!Start, RunningIsCurrent
  <2>4. ASSUME NEW op \in Ops, Moves(op, "running", "completed")
        PROVE  Serial!End(op)
    BY <2>4 DEF Moves, Serial!End
  <2> QED
    BY <2>1, <2>2, <2>3, <2>4, StateSteps DEF StateStep
<1> QED
  BY <1>1, <1>2, InductiveInvariant, PTL DEF Spec, Serial!Spec, ImplementsSerialJobs

-----------------------------------------------------------------------------

\* An operation that is waiting or running is the one listed under its
\* identifier, unless a silent one with this identifier has completed.
InFlightListed == \A op \in Ops :
    state[op] \in {"waiting", "running"} => operations[OpId[op]] = op \/ SilentBefore(op)

\* An entry in flight is neither replaced by new, which looks for it first, nor
\* collected, and it is removed only by a silent operation that completes.
LEMMA InFlightStaysListed ==
    ASSUME IInv, InFlightListed, [Next]_vars
    PROVE  InFlightListed'
<1> USE OperationsAssumption DEF IInv, TypeOK, Idle, InFlightListed, SilentBefore
<1>1. ASSUME NEW c \in Callers, NewAdd(c) PROVE InFlightListed'
  <2>1. caller[c].op \in Ops /\ OpId[caller[c].op] \in Ids
    BY <1>1 DEF NewAdd, CallerHolds
  <2>2. ASSUME NEW op \in Ops, state'[op] \in {"waiting", "running"},
               ~SilentBefore(op)'
        PROVE  operations'[OpId[op]] = op
    <3>1. CASE op = caller[c].op
      BY <1>1, <2>1, <3>1 DEF NewAdd, Put
    <3>2. CASE op # caller[c].op
      <4>1. state[op] \in {"waiting", "running"}
        BY <1>1, <2>1, <2>2, <3>2 DEF NewAdd
      <4>2. \A s \in Ops : state[s] = "completed" => state'[s] = "completed"
        BY <1>1, <2>1 DEF NewAdd, CallerHolds
      <4>3. operations[OpId[op]] = op
        BY <2>2, <4>1, <4>2
      <4>4. OpId[op] # OpId[caller[c].op]
        BY <1>1, <4>1, <4>3 DEF NewAdd, InProgress
      <4> QED
        BY <1>1, <2>1, <4>3, <4>4 DEF NewAdd, Put
    <3> QED
      BY <3>1, <3>2
  <2> QED
    BY <2>2
<1>2. ASSUME NEW app \in Apps, CollectResults(app) PROVE InFlightListed'
  BY <1>2 DEF CollectResults, Remove, Collectable, Keys
<1>3. ASSUME UNCHANGED operations,
             \/ state' = state
             \/ \E op \in Ops : Moves(op, "waiting", "running")
             \/ \E op \in Ops : Moves(op, "running", "completed")
      PROVE  InFlightListed'
  BY <1>3 DEF Moves
<1>4. ASSUME NEW c \in Callers, NewSchedule(c) PROVE InFlightListed'
  BY <1>3, <1>4 DEF NewSchedule, ScheduleNext, NextWaiting, Waiting, Run, Moves
<1>5. ASSUME NEW op \in Ops, CompleteSchedule(op) PROVE InFlightListed'
  BY <1>3, <1>5 DEF CompleteSchedule, ScheduleNext, NextWaiting, Waiting, Run, Moves
<1>6. ASSUME NEW op \in Ops, Finish(op) PROVE InFlightListed'
  BY <1>3, <1>6
  DEF Finish, Advance, Moves, ThreadMatchesState, threadOnly, managerVars
<1>7. ASSUME UNCHANGED <<operations, state>> PROVE InFlightListed'
  BY <1>7
<1>8. ASSUME NEW op \in Ops, CompleteRemove(op) PROVE InFlightListed'
  <2>1. state[op] = "completed" /\ UNCHANGED state
    BY <1>8 DEF CompleteRemove, Advance, ThreadMatchesState
  <2>2. CASE UNCHANGED operations
    BY <1>7, <2>1, <2>2
  <2>3. CASE op \in Silent /\ Remove({OpId[op]})
    BY <2>1, <2>3 DEF Remove
  <2> QED
    BY <1>8, <2>2, <2>3 DEF CompleteRemove
<1> QED
  BY <1>1, <1>2, <1>4, <1>5, <1>6, <1>7, <1>8
  DEF Next, CallerStep, ThreadStep, NewEnter, NewRaises, Join, Begin, BeginDies,
      Notify, NotifyDies, CompleteEnter, CompleteRaises, OnUpdate, ReuseForApp,
      threadOnly, managerVars, vars

\* No two operations with the same identifier are in flight, however callers and
\* completions interleave, unless a silent one with it has completed, which may
\* have removed one of the two.
THEOREM IdentifiersUnique == Spec => []UniqueInFlight
<1>1. Init => InFlightListed
  BY DEF Init, InFlightListed
<1>2. IInv /\ InFlightListed /\ [Next]_vars => InFlightListed'
  BY InFlightStaysListed
<1>3. InFlightListed => UniqueInFlight
  BY DEF InFlightListed, UniqueInFlight
<1> QED
  BY <1>1, <1>2, <1>3, InductiveInvariant, PTL DEF Spec

\* A thread ends only after its operation has completed, save where it died of
\* a notification ...
EndsCompleted == \A op \in Ops :
    thread[op] \in {"ended", "died"} =>
        state[op] = "completed" \/ (op \in Notifying /\ thread[op] = "died")

LEMMA EndsCompletedStays ==
    ASSUME IInv, EndsCompleted, [Next]_vars
    PROVE  EndsCompleted'
<1> USE OperationsAssumption
    DEF IInv, TypeOK, EndsCompleted, ThreadMatchesState, Advance
<1>1. ASSUME NEW c \in Callers, NewAdd(c) PROVE EndsCompleted'
  BY <1>1 DEF NewAdd, CallerHolds, Idle
<1>2. ASSUME NEW c \in Callers, NewSchedule(c) PROVE EndsCompleted'
  BY <1>2 DEF NewSchedule, ScheduleNext, NextWaiting, Waiting, Run
<1>3. ASSUME NEW op \in Ops, CompleteSchedule(op) PROVE EndsCompleted'
  BY <1>3 DEF CompleteSchedule, ScheduleNext, NextWaiting, Waiting, Run
<1>4. ASSUME NEW op \in Ops, Finish(op) PROVE EndsCompleted'
  BY <1>4 DEF Finish
<1>5. ASSUME NEW op \in Ops,
             \/ Begin(op) \/ BeginDies(op) \/ Notify(op) \/ NotifyDies(op)
             \/ CompleteEnter(op) \/ CompleteRemove(op) \/ CompleteRaises(op)
      PROVE  EndsCompleted'
  BY <1>5 DEF Begin, BeginDies, Notify, NotifyDies, CompleteEnter,
              CompleteRemove, CompleteRaises
<1>6. ASSUME UNCHANGED <<thread, state>> PROVE EndsCompleted'
  BY <1>6
<1> QED
  BY <1>1, <1>2, <1>3, <1>4, <1>5, <1>6
  DEF Next, CallerStep, ThreadStep, NewEnter, NewRaises, Join, CollectResults,
      BeginDies, NotifyDies, OnUpdate, ReuseForApp, vars

\* ... so that join returns only when there is a result, or never will be one.
THEOREM JoinersSeeResults == Spec => JoinMeansCompleted
<1>1. Init => EndsCompleted
  BY DEF Init, EndsCompleted
<1>2. IInv /\ EndsCompleted /\ [Next]_vars => EndsCompleted'
  BY EndsCompletedStays
<1>3. IInv /\ EndsCompleted /\ [Next]_vars =>
        [\A c \in Callers :
          (caller[c].at = "joining" /\ caller'[c].at # "joining")
              => \/ state[caller[c].op] = "completed"
                 \/ caller[c].op \in Notifying /\ thread[caller[c].op] = "died"]_vars
  <2> SUFFICES ASSUME IInv, EndsCompleted, [Next]_vars, NEW c \in Callers,
                      caller[c].at = "joining", caller'[c].at # "joining"
               PROVE  \/ state[caller[c].op] = "completed"
                      \/ caller[c].op \in Notifying /\ thread[caller[c].op] = "died"
    OBVIOUS
  <2> USE OperationsAssumption DEF IInv, TypeOK, Idle
  <2>1. ASSUME NEW d \in Callers, Join(d)
        PROVE  \/ state[caller[c].op] = "completed"
               \/ caller[c].op \in Notifying /\ thread[caller[c].op] = "died"
    <3>1. d = c
      BY <2>1 DEF Join
    <3>2. caller[c].op \in Ops
      BY DEF CallerHolds
    <3> QED
      BY <2>1, <3>1, <3>2 DEF Join, EndsCompleted
  <2>2. ASSUME NEW d \in Callers,
               \/ NewRaises(d) \/ NewAdd(d) \/ NewSchedule(d)
               \/ \E op \in Ops : NewEnter(d, op)
        PROVE  FALSE
    BY <2>2 DEF NewRaises, NewAdd, NewSchedule, NewEnter
  <2>3. CASE caller' = caller
    BY <2>3
  <2> QED
    BY <2>1, <2>2, <2>3
    DEF Next, CallerStep, ThreadStep, CollectResults, Begin, BeginDies, Finish,
        Notify, NotifyDies, CompleteEnter, CompleteRemove, CompleteRaises,
        CompleteSchedule, OnUpdate, ReuseForApp, threadOnly, vars
<1> QED
  BY <1>1, <1>2, <1>3, InductiveInvariant, PTL DEF Spec, JoinMeansCompleted
=============================================================================
