----------------------------- MODULE Operations -----------------------------
(***************************************************************************)
(* plinth/operation.py: operations, the threads that run them and the      *)
(* global OperationsManager that runs them one after another.              *)
(*                                                                         *)
(* A member of Ops is one Operation object.  It is created by a thread     *)
(* that calls OperationsManager.new (a member of Callers: a request        *)
(* thread, the setup thread, a D-Bus event thread), runs in a thread of    *)
(* its own and reports to the manager when it ends.  The manager's methods *)
(* run under an RLock, Operation's own steps do not: every read or write   *)
(* that another thread can come between is a step of its own.              *)
(***************************************************************************)
EXTENDS Naturals, FiniteSets

CONSTANTS
    Ops,        \* Operation objects
    Ids,        \* operation identifiers, such as 'gitweb-setup'
    Apps,       \* app identifiers
    Callers,    \* threads that call OperationsManager.new
    OpId,       \* OpId[op]: the op_id argument
    OpApp,      \* OpApp[op]: the app_id argument
    Silent,     \* the operations created with show_message=False
    Notifying,  \* the operations created with show_notification=True
    Reusing,    \* the operations that repair other apps from within
    NoOp,       \* None
    Free        \* the lock is not held

ASSUME OperationsAssumption ==
    /\ OpId \in [Ops -> Ids]
    /\ OpApp \in [Ops -> Apps]
    /\ Silent \subseteq Ops
    /\ Notifying \subseteq Ops
    /\ Reusing \subseteq Ops
    /\ NoOp \notin Ops
    /\ Free \notin Ops \cup Callers
    /\ Ops \cap Callers = {}

VARIABLES
    operations, \* OperationsManager._operations: the dict ...
    ahead,      \* ... and its order: the keys inserted before a key
    current,    \* OperationsManager._current_operation
    lock,       \* the thread that holds OperationsManager._lock
    state,      \* Operation.state ("none": the object does not exist)
    exception,  \* Operation.exception is set
    appId,      \* Operation.app_id
    thread,     \* how far the thread of an operation has come
    caller      \* what a caller is doing, and with which operation

vars == <<operations, ahead, current, lock, state, exception, appId, thread,
          caller>>

managerVars == <<operations, ahead, current>>

States == {"none", "waiting", "running", "completed"}

\* begin: before the first notification; target: in the target function;
\* finally: state is COMPLETED, notification pending; callback: about to call
\* on_complete; removing, scheduling: in _on_operation_complete with the lock;
\* ended: returned; died: an exception ended the thread early.
Stages == {"none", "begin", "target", "finally", "callback", "removing",
           "scheduling", "ended", "died"}

\* A caller that is not in a call of new or join.
Idle == [at |-> "idle", op |-> NoOp]

Init ==
    /\ operations = [id \in Ids |-> NoOp]
    /\ ahead = [id \in Ids |-> {}]
    /\ current = NoOp
    /\ lock = Free
    /\ state = [op \in Ops |-> "none"]
    /\ exception = [op \in Ops |-> FALSE]
    /\ appId = OpApp
    /\ thread = [op \in Ops |-> "none"]
    /\ caller = [c \in Callers |-> Idle]

-----------------------------------------------------------------------------
(* The OrderedDict: replacing the value of a key keeps its place.          *)

Keys == {id \in Ids : operations[id] # NoOp}

Put(id, op) ==
    /\ operations' = [operations EXCEPT ![id] = op]
    /\ ahead' = IF id \in Keys THEN ahead ELSE [ahead EXCEPT ![id] = Keys]

Remove(ids) ==
    /\ operations' = [id \in Ids |-> IF id \in ids THEN NoOp ELSE operations[id]]
    /\ ahead' = [id \in Ids |-> IF id \in ids THEN {} ELSE ahead[id] \ ids]

\* Mutant: operations that are not running, completed ones included.
WaitingOrDone(id) ==
    operations[id] \in Ops /\ state[operations[id]] # "running"

Waiting(id) == operations[id] \in Ops /\ state[operations[id]] = "waiting"

-----------------------------------------------------------------------------
(* Operation.run, called with the lock held.  th is the thread function    *)
(* the rest of the step leaves.                                            *)

Run(op, th) ==
    /\ state' = [state EXCEPT ![op] = "running"]
    /\ thread' = [th EXCEPT ![op] = "begin"]

\* The first operation in the order of the dict that is waiting.
NextWaiting(id) == Waiting(id) /\ \A other \in ahead[id] : ~Waiting(other)

\* Mutant: _schedule_next without its early return.
ScheduleNextAnyway(th) ==
    \/ \E id \in Ids : /\ NextWaiting(id)
                       /\ current' = operations[id]
                       /\ Run(operations[id], th)
    \/ /\ \A id \in Ids : ~Waiting(id)
       /\ thread' = th
       /\ UNCHANGED <<current, state>>

ScheduleNext(th) ==
    \/ /\ current # NoOp
       /\ thread' = th
       /\ UNCHANGED <<current, state>>
    \/ /\ current = NoOp
       /\ \E id \in Ids : /\ NextWaiting(id)
                          /\ current' = operations[id]
                          /\ Run(operations[id], th)
    \/ /\ current = NoOp
       /\ \A id \in Ids : ~Waiting(id)
       /\ thread' = th
       /\ UNCHANGED <<current, state>>

-----------------------------------------------------------------------------
(* OperationsManager.new                                                   *)

\* Mutants: one of the two states is forgotten.
InProgressRunning(id) ==
    operations[id] # NoOp /\ state[operations[id]] = "running"

InProgressWaiting(id) ==
    operations[id] # NoOp /\ state[operations[id]] = "waiting"

InProgress(id) ==
    operations[id] # NoOp /\ state[operations[id]] # "completed"

\* Mutant: new does not take the lock when another thread has it.
NewEnterUnlocked(c, op) ==
    /\ caller[c].at = "idle"
    /\ state[op] = "none"
    /\ \A d \in Callers : caller[d].op # op
    /\ lock' = IF lock = Free THEN c ELSE lock
    /\ caller' = [caller EXCEPT ![c] = [at |-> "new", op |-> op]]
    /\ UNCHANGED <<managerVars, state, exception, appId, thread>>

NewEnter(c, op) ==
    /\ caller[c].at = "idle"
    /\ state[op] = "none"
    /\ \A d \in Callers : caller[d].op # op
    /\ lock = Free
    /\ lock' = c
    /\ caller' = [caller EXCEPT ![c] = [at |-> "new", op |-> op]]
    /\ UNCHANGED <<managerVars, state, exception, appId, thread>>

\* KeyError: the identifier is in progress, or the notification the
\* constructor of Operation writes fails.  The lock is released on the way out.
NewRaises(c) ==
    /\ caller[c].at = "new"
    /\ InProgress(OpId[caller[c].op]) \/ caller[c].op \in Notifying
    /\ lock' = Free
    /\ caller' = [caller EXCEPT ![c] = Idle]
    /\ UNCHANGED <<managerVars, state, exception, appId, thread>>

NewAdd(c) ==
    LET op == caller[c].op IN
    /\ caller[c].at = "new"
    /\ ~InProgress(OpId[op])
    /\ state' = [state EXCEPT ![op] = "waiting"]
    /\ Put(OpId[op], op)
    /\ caller' = [caller EXCEPT ![c] = [at |-> "schedule", op |-> op]]
    /\ UNCHANGED <<current, lock, exception, appId, thread>>

\* Mutant: new adds the operation but does not schedule.
NewScheduleNothing(c) ==
    /\ caller[c].at = "schedule"
    /\ lock' = Free
    /\ caller' = [caller EXCEPT ![c] = [at |-> "joining", op |-> caller[c].op]]
    /\ UNCHANGED <<managerVars, state, thread, exception, appId>>

\* The end of new: the caller keeps the operation to join it, or drops it.
NewSchedule(c) ==
    /\ caller[c].at = "schedule"
    /\ ScheduleNext(thread)
    /\ lock' = Free
    /\ \/ caller' = [caller EXCEPT ![c] = [at |-> "joining", op |-> caller[c].op]]
       \/ caller' = [caller EXCEPT ![c] = Idle]
    /\ UNCHANGED <<operations, ahead, exception, appId>>

\* Mutant: join waits for the start of the thread only.
JoinStarted(c) ==
    /\ caller[c].at = "joining"
    /\ thread[caller[c].op] # "none"
    /\ caller' = [caller EXCEPT ![c] = Idle]
    /\ UNCHANGED <<managerVars, lock, state, exception, appId, thread>>

\* Operation.join: start_event is set by run, after which the thread is joined.
Join(c) ==
    /\ caller[c].at = "joining"
    /\ thread[caller[c].op] \in {"ended", "died"}
    /\ caller' = [caller EXCEPT ![c] = Idle]
    /\ UNCHANGED <<managerVars, lock, state, exception, appId, thread>>

-----------------------------------------------------------------------------
(* OperationsManager.collect_results                                       *)

\* Mutant: the operations of the app in every state.
CollectableAnyState(app) == {id \in Keys : appId[operations[id]] = app}

Collectable(app) ==
    {id \in Keys : /\ appId[operations[id]] = app
                   /\ state[operations[id]] = "completed"}

CollectResults(app) ==
    /\ lock = Free
    /\ Collectable(app) # {}
    /\ Remove(Collectable(app))
    /\ UNCHANGED <<current, lock, state, exception, appId, thread, caller>>

-----------------------------------------------------------------------------
(* Operation._catch_thread_errors: the thread of an operation.             *)

threadOnly == <<managerVars, lock, appId, caller>>

Advance(op, from, to) ==
    /\ thread[op] = from
    /\ thread' = [thread EXCEPT ![op] = to]

Begin(op) ==
    /\ Advance(op, "begin", "target")
    /\ UNCHANGED <<threadOnly, state, exception>>

\* _update_notification raises outside of the try block.
BeginDies(op) ==
    /\ op \in Notifying
    /\ Advance(op, "begin", "died")
    /\ UNCHANGED <<threadOnly, state, exception>>

\* Operation.on_update with an exception, called from the target.
OnUpdate(op) ==
    /\ thread[op] = "target"
    /\ exception' = [exception EXCEPT ![op] = TRUE]
    /\ UNCHANGED <<threadOnly, state, thread>>

\* Mutant: the app identifier is cleared instead of replaced.
ReuseForNoApp(op, app) ==
    /\ op \in Reusing
    /\ thread[op] = "target"
    /\ appId' = [appId EXCEPT ![op] = NoOp]
    /\ UNCHANGED <<managerVars, lock, state, exception, thread, caller>>

\* run_repair_on_app with create_operation=False, called from the target.
ReuseForApp(op, app) ==
    /\ op \in Reusing
    /\ thread[op] = "target"
    /\ appId' = [appId EXCEPT ![op] = app]
    /\ UNCHANGED <<managerVars, lock, state, exception, thread, caller>>

\* The target returns or raises; the state is written without the lock.
Finish(op) ==
    /\ Advance(op, "target", "finally")
    /\ \/ exception' = [exception EXCEPT ![op] = TRUE]
       \/ UNCHANGED exception
    /\ state' = [state EXCEPT ![op] = "completed"]
    /\ UNCHANGED threadOnly

Notify(op) ==
    /\ Advance(op, "finally", "callback")
    /\ UNCHANGED <<threadOnly, state, exception>>

\* _update_notification raises in the finally block: on_complete is not called.
NotifyDies(op) ==
    /\ op \in Notifying
    /\ Advance(op, "finally", "died")
    /\ UNCHANGED <<threadOnly, state, exception>>

-----------------------------------------------------------------------------
(* OperationsManager._on_operation_complete, in the thread of op           *)

\* Mutant: the current operation is not reset.
CompleteEnterKeeps(op) ==
    /\ lock = Free
    /\ Advance(op, "callback", "removing")
    /\ lock' = op
    /\ UNCHANGED <<managerVars, state, exception, appId, caller>>

CompleteEnter(op) ==
    /\ lock = Free
    /\ Advance(op, "callback", "removing")
    /\ lock' = op
    /\ current' = NoOp
    /\ UNCHANGED <<operations, ahead, state, exception, appId, caller>>

\* del self._operations[op_id] removes whatever holds the identifier now.
CompleteRemove(op) ==
    /\ Advance(op, "removing", "scheduling")
    /\ \/ op \notin Silent /\ UNCHANGED <<operations, ahead>>
       \/ op \in Silent /\ OpId[op] \in Keys /\ Remove({OpId[op]})
    /\ UNCHANGED <<current, lock, state, exception, appId, caller>>

\* The identifier is gone: KeyError, and _schedule_next is not reached.
CompleteRaises(op) ==
    /\ op \in Silent
    /\ OpId[op] \notin Keys
    /\ Advance(op, "removing", "died")
    /\ lock' = Free
    /\ UNCHANGED <<managerVars, state, exception, appId, caller>>

\* Mutant: the next operation is not triggered.
CompleteScheduleNothing(op) ==
    /\ Advance(op, "scheduling", "ended")
    /\ lock' = Free
    /\ UNCHANGED <<managerVars, state, exception, appId, caller>>

CompleteSchedule(op) ==
    /\ thread[op] = "scheduling"
    /\ ScheduleNext([thread EXCEPT ![op] = "ended"])
    /\ lock' = Free
    /\ UNCHANGED <<operations, ahead, exception, appId, caller>>

-----------------------------------------------------------------------------

CallerStep(c) == NewRaises(c) \/ NewAdd(c) \/ NewSchedule(c) \/ Join(c)

ThreadStep(op) ==
    \/ Begin(op) \/ BeginDies(op) \/ Finish(op) \/ Notify(op) \/ NotifyDies(op)
    \/ CompleteEnter(op) \/ CompleteRemove(op) \/ CompleteRaises(op)
    \/ CompleteSchedule(op)

Next ==
    \/ \E c \in Callers : CallerStep(c) \/ \E op \in Ops : NewEnter(c, op)
    \/ \E app \in Apps : CollectResults(app)
    \/ \E op \in Ops : \/ ThreadStep(op)
                       \/ OnUpdate(op)
                       \/ \E app \in Apps : ReuseForApp(op, app)

Spec == Init /\ [][Next]_vars

\* Threads keep running, target functions return, and a thread that waits for
\* a lock that is released again and again gets it (strong fairness).
FairSpec ==
    /\ Spec
    /\ \A c \in Callers : WF_vars(CallerStep(c))
    /\ \A op \in Ops : WF_vars(ThreadStep(op)) /\ SF_vars(CompleteEnter(op))

-----------------------------------------------------------------------------
(* Properties                                                              *)

TypeOK ==
    /\ operations \in [Ids -> Ops \cup {NoOp}]
    /\ ahead \in [Ids -> SUBSET Ids]
    /\ current \in Ops \cup {NoOp}
    /\ lock \in Ops \cup Callers \cup {Free}
    /\ state \in [Ops -> States]
    /\ exception \in [Ops -> BOOLEAN]
    /\ appId \in [Ops -> Apps]
    /\ thread \in [Ops -> Stages]
    /\ caller \in [Callers -> {Idle} \cup
                     [at : {"new", "schedule", "joining"}, op : Ops]]

\* Operations are serialised: the code of two operations, from the start of
\* the thread to the moment it reports to the manager, never overlaps.  One
\* operation installs packages or writes configuration; two would collide.
Active(op) == thread[op] \in {"begin", "target", "finally", "callback"}

Serialised == \A p, q \in Ops : Active(p) /\ Active(q) => p = q

\* The critical sections of the manager exclude each other.
InManager(t) ==
    \/ t \in Callers /\ caller[t].at \in {"new", "schedule"}
    \/ t \in Ops /\ thread[t] \in {"removing", "scheduling"}

LockExclusive == \A t \in Ops \cup Callers : InManager(t) <=> lock = t

\* The manager is told of the end of every operation it started, or still
\* waits for it: current is an operation that has begun, and no operation is
\* active behind the manager's back.
CurrentIsActive ==
    /\ current # NoOp => Active(current) \/ thread[current] = "died"
    /\ \A op \in Ops : Active(op) => current = op

\* Every waiting operation is in the dict, where _schedule_next will find it.
NoOperationLost == \A op \in Ops :
    state[op] = "waiting" => operations[OpId[op]] = op

\* An operation with show_message=False that may have deleted the entry of op.
SilentBefore(op) ==
    \E s \in Silent \ {op} : OpId[s] = OpId[op] /\ state[s] = "completed"

\* What the code achieves of NoOperationLost: a waiting operation can vanish
\* only when an operation with show_message=False and the same identifier
\* completed, and deleted the entry of its successor.
LostOnlyToSilent == \A op \in Ops :
    (state[op] = "waiting" => operations[OpId[op]] = op) \/ SilentBefore(op)

\* Between two calls of the manager an operation of the dict is waiting only
\* while another one is at work: the manager is neither idle nor held by a
\* current operation whose thread has died and that nothing will take away.
NoStalledQueue ==
    (lock = Free /\ (current = NoOp \/ thread[current] = "died"))
        => \A id \in Ids : ~Waiting(id)

\* A thread died that was to schedule the next operation.
SchedulerDied == \E op \in Silent \cup Notifying : thread[op] = "died"

\* What the code achieves of NoStalledQueue: the queue stands still only when
\* a thread died before it could schedule the next operation, which only two
\* kinds of operation do.  One with show_message=False dies in on_complete,
\* where its identifier is gone; one with show_notification=True dies where a
\* notification fails, and leaves _current_operation set for ever.
StallsOnlyAfterDeath == NoStalledQueue \/ SchedulerDied

\* An identifier has at most one operation that is waiting or running, unless
\* one of two was lost.
UniqueInFlight == \A p, q \in Ops :
    /\ OpId[p] = OpId[q]
    /\ state[p] \in {"waiting", "running"}
    /\ state[q] \in {"waiting", "running"}
    => p = q \/ SilentBefore(p) \/ SilentBefore(q)

\* An operation is created once, runs once, and its outcome is final when its
\* state becomes COMPLETED.
RunsOnce ==
    [][\A op \in Ops :
        /\ <<state[op], state'[op]>> \in
              {<<"none", "waiting">>, <<"waiting", "running">>,
               <<"running", "completed">>} \cup {<<s, s>> : s \in States}
        /\ state[op] = "completed" => exception'[op] = exception[op]]_vars

\* Operation.join returns only after the operation has completed, save where
\* the first notification of the operation failed and its thread died before it
\* called the target: its caller goes on with an operation still "running".
JoinMeansCompleted ==
    [][\A c \in Callers :
        (caller[c].at = "joining" /\ caller'[c].at # "joining")
            => \/ state[caller[c].op] = "completed"
               \/ caller[c].op \in Notifying /\ thread[caller[c].op] = "died"]_vars

\* Every operation that was added completes, save one that was lost or stands
\* in a queue that stalls.
EveryOperationCompletes ==
    \A op \in Ops : state[op] = "waiting" ~>
        state[op] = "completed" \/ operations[OpId[op]] # op \/ SchedulerDied

\* A thread that joins an operation gets on, with the same exceptions: it waits
\* for ever for an operation that never starts.
JoinersReturn ==
    \A c \in Callers, op \in Ops :
        caller[c] = [at |-> "joining", op |-> op] ~>
            \/ caller[c] # [at |-> "joining", op |-> op]
            \/ state[op] = "waiting" /\ operations[OpId[op]] # op
            \/ SchedulerDied

-----------------------------------------------------------------------------
(* The abstract specification: jobs that are run one at a time.            *)

Serial == INSTANCE SerialJobs WITH
    Jobs <- Ops,
    pending <- {op \in Ops : state[op] = "waiting"},
    active <- {op \in Ops : state[op] = "running"},
    done <- {op \in Ops : state[op] = "completed"}

\* The manager implements SerialJobs, whatever is lost or dies.
ImplementsSerialJobs == Serial!Spec
=============================================================================
