----------------------------- MODULE ThreadPool -----------------------------
(* logger::ThreadPool (scheduler/thread_pool.h, thread_pool.cc): a queue of   *)
(* tasks guarded by mtx_, a condition variable cv_, worker threads that wait  *)
(* for work, client threads that add tasks (AddTask, AddReturnTask) and the   *)
(* owner, which calls Start and Stop.                                         *)
(*                                                                            *)
(* The atomicity is that of the code: a worker evaluates the predicate of     *)
(* cv_.wait with mtx_ held and enters the wait set in a later step; AddTask   *)
(* notifies after it has released mtx_; Stop stores is_running_ and notifies  *)
(* without taking mtx_ at all.                                                *)
EXTENDS Elements, FiniteSets

CONSTANTS Workers,      \* identities for the std::thread objects
          Clients,      \* threads that call AddTask and AddReturnTask
          Tasks,        \* the tasks they add, each at most once
          ThreadCounts, \* the values the constructor may be given
          NoTask, NoOne

ASSUME PoolAssumption ==
    /\ ThreadCounts \subseteq Nat
    /\ NoTask \notin Tasks
    /\ NoOne \notin Workers

VARIABLES
    thread_count, \* thread_count_
    is_running,  \* is_running_
    mtx,         \* the holder of mtx_ between two steps, or NoOne
    queue,       \* task_queue_
    waiting,     \* workers blocked in cv_.wait and not yet notified
    wpc,         \* where each worker is
    current,     \* the task a worker has taken
    threads,     \* thread_vector_, in the order of AddThread
    opc,         \* where the owner is
    cpc,         \* where each client is
    mine,        \* the task each client has added last
    posted,      \* history: the tasks in the order of their enqueuing
    started,     \* history: the tasks in the order they were popped
    finished     \* history: the tasks in the order they returned

poolVars  == <<is_running, mtx, queue, waiting>>
workVars  == <<wpc, current>>
ownerVars == <<thread_count, threads, opc>>
callVars  == <<cpc, mine>>
history   == <<posted, started, finished>>
vars == <<poolVars, workVars, ownerVars, callVars, history>>

WorkerPCs == {"absent", "ready", "block", "asleep", "chosen", "run", "exited"}

Init ==
    /\ thread_count \in ThreadCounts
    /\ is_running = FALSE
    /\ mtx = NoOne
    /\ queue = <<>>
    /\ waiting = {}
    /\ wpc = [w \in Workers |-> "absent"]
    /\ current = [w \in Workers |-> NoTask]
    /\ threads = <<>>
    /\ opc = "idle"
    /\ cpc = [c \in Clients |-> "idle"]
    /\ mine = [c \in Clients |-> NoTask]
    /\ posted = <<>> /\ started = <<>> /\ finished = <<>>

-----------------------------------------------------------------------------
(* The worker loop                                                            *)

\* The predicate given to cv_.wait.  (AnyWakeup, DontPop, DontNotify, OneMore and
\* Detached are the faults the properties must detect.)
AnyWakeup == TRUE
MayProceed == ~is_running \/ queue # <<>>

\* A worker takes mtx_, the first time or again after a notification, and
\* evaluates the predicate with it held.
Evaluate(w) ==
    /\ wpc[w] = "ready" \/ (wpc[w] = "asleep" /\ w \notin waiting)
    /\ mtx = NoOne
    /\ mtx' = w
    /\ wpc' = [wpc EXCEPT ![w] = IF MayProceed THEN "chosen" ELSE "block"]
    /\ UNCHANGED <<is_running, queue, waiting, current>>
    /\ UNCHANGED <<ownerVars, callVars, history>>

\* cv_.wait releases mtx_ and blocks, as one step with respect to notify.
Block(w) ==
    /\ wpc[w] = "block"
    /\ wpc' = [wpc EXCEPT ![w] = "asleep"]
    /\ waiting' = waiting \cup {w}
    /\ mtx' = NoOne
    /\ UNCHANGED <<is_running, queue, current, ownerVars, callVars, history>>

\* A condition variable may wake its waiter without a notification.
SpuriousWake(w) ==
    /\ w \in waiting
    /\ waiting' = waiting \ {w}
    /\ UNCHANGED <<is_running, mtx, queue, workVars>>
    /\ UNCHANGED <<ownerVars, callVars, history>>

\* After the wait: the pool was stopped, the loop ends.
Exit(w) ==
    /\ wpc[w] = "chosen"
    /\ ~is_running
    /\ wpc' = [wpc EXCEPT ![w] = "exited"]
    /\ mtx' = NoOne
    /\ UNCHANGED <<is_running, queue, waiting, current>>
    /\ UNCHANGED <<ownerVars, callVars, history>>

\* task_queue_.pop()
DontPop == queue' = queue
Pop == queue' = Tail(queue)

\* After the wait: front and pop, release mtx_.
TakeTask(w) ==
    /\ wpc[w] = "chosen"
    /\ is_running
    /\ current' = [current EXCEPT ![w] = Head(queue)]
    /\ Pop
    /\ started' = Append(started, Head(queue))
    /\ wpc' = [wpc EXCEPT ![w] = "run"]
    /\ mtx' = NoOne
    /\ UNCHANGED <<is_running, waiting, ownerVars, callVars>>
    /\ UNCHANGED <<posted, finished>>

\* task()
Complete(w) == finished' = Append(finished, current[w])

\* task() returns; for an AddReturnTask the shared state becomes ready.
FinishTask(w) ==
    /\ wpc[w] = "run"
    /\ Complete(w)
    /\ current' = [current EXCEPT ![w] = NoTask]
    /\ wpc' = [wpc EXCEPT ![w] = "ready"]
    /\ UNCHANGED <<poolVars, ownerVars, callVars, posted, started>>

-----------------------------------------------------------------------------
(* Clients                                                                    *)

\* The critical section of AddTask ("notify") and AddReturnTask ("notifyR").
Enqueue(c, t, call) ==
    /\ cpc[c] = "idle"
    /\ mtx = NoOne
    /\ t \notin Elems(posted)
    /\ queue' = Append(queue, t)
    /\ posted' = Append(posted, t)
    /\ mine' = [mine EXCEPT ![c] = t]
    /\ cpc' = [cpc EXCEPT ![c] = call]
    /\ UNCHANGED <<is_running, mtx, waiting, workVars, ownerVars>>
    /\ UNCHANGED <<started, finished>>

\* cv_.notify_all()
DontNotify == waiting' = waiting
NotifyAll == waiting' = {}

\* The notification of both, after the mutex is released.
NotifyAdd(c) ==
    /\ cpc[c] \in {"notify", "notifyR"}
    /\ NotifyAll
    /\ cpc' = [cpc EXCEPT ![c] = IF @ = "notify" THEN "idle" ELSE "await"]
    /\ UNCHANGED <<is_running, mtx, queue, workVars>>
    /\ UNCHANGED <<ownerVars, mine, history>>

\* shared_future::wait() returns once the task has run.
WaitReturns(c) ==
    /\ cpc[c] = "await"
    /\ mine[c] \in Elems(finished)
    /\ cpc' = [cpc EXCEPT ![c] = "idle"]
    /\ UNCHANGED <<poolVars, workVars, ownerVars, mine, history>>

-----------------------------------------------------------------------------
(* The owner: Start, and Stop, which the destructor calls as well             *)

\* Start on a pool that is not running: load and store of is_running_.
Start ==
    /\ opc = "idle"
    /\ ~is_running
    /\ is_running' = TRUE
    /\ opc' = "adding"
    /\ UNCHANGED <<thread_count, mtx, queue, waiting, workVars, threads>>
    /\ UNCHANGED <<callVars, history>>

\* The condition of the loop in Start.
OneMore == Len(threads) <= thread_count
MoreThreads == Len(threads) < thread_count

AddThread(w) ==
    /\ opc = "adding"
    /\ MoreThreads
    /\ wpc[w] = "absent"
    /\ threads' = Append(threads, w)
    /\ wpc' = [wpc EXCEPT ![w] = "ready"]
    /\ UNCHANGED <<thread_count, poolVars, current, opc, callVars, history>>

StartReturns ==
    /\ opc = "adding"
    /\ ~MoreThreads
    /\ opc' = "idle"
    /\ UNCHANGED <<thread_count, poolVars, workVars, threads, callVars, history>>

\* Stop on a running pool: load and store of is_running_, without mtx_.
StopStore ==
    /\ opc = "idle"
    /\ is_running
    /\ is_running' = FALSE
    /\ opc' = "notify"
    /\ UNCHANGED <<thread_count, mtx, queue, waiting, workVars, threads>>
    /\ UNCHANGED <<callVars, history>>

StopNotify ==
    /\ opc = "notify"
    /\ NotifyAll
    /\ opc' = "join"
    /\ UNCHANGED <<thread_count, is_running, mtx, queue, workVars, threads>>
    /\ UNCHANGED <<callVars, history>>

\* thread_vector_.clear(): each ~ThreadInfo joins its thread, the first first.
Join ==
    /\ opc = "join"
    /\ threads # <<>>
    /\ wpc[Head(threads)] = "exited"
    /\ wpc' = [wpc EXCEPT ![Head(threads)] = "absent"]
    /\ threads' = Tail(threads)
    /\ UNCHANGED <<thread_count, poolVars, current, opc, callVars, history>>

Detached == TRUE
AllJoined == threads = <<>>

StopReturns ==
    /\ opc = "join"
    /\ AllJoined
    /\ opc' = "idle"
    /\ UNCHANGED <<thread_count, poolVars, workVars, threads, callVars, history>>

-----------------------------------------------------------------------------

WorkerStep(w) == Evaluate(w) \/ Block(w) \/ Exit(w) \/ TakeTask(w) \/ FinishTask(w)

ClientStep(c) ==
    \/ \E t \in Tasks, call \in {"notify", "notifyR"} : Enqueue(c, t, call)
    \/ NotifyAdd(c)
    \/ WaitReturns(c)

OwnerStep ==
    \/ Start \/ StartReturns \/ StopStore \/ StopNotify \/ Join \/ StopReturns
    \/ \E w \in Workers : AddThread(w)

Next ==
    \/ \E w \in Workers : WorkerStep(w) \/ SpuriousWake(w)
    \/ \E c \in Clients : ClientStep(c)
    \/ OwnerStep

Spec == Init /\ [][Next]_vars

\* A thread that can step does; callers finish the call they are in. Nobody is
\* obliged to add a task, to start or to stop the pool, and no waiter is
\* obliged to wake without a notification.
Fairness ==
    /\ \A w \in Workers : WF_vars(WorkerStep(w))
    /\ \A c \in Clients : WF_vars(NotifyAdd(c) \/ WaitReturns(c))
    /\ WF_vars(StartReturns \/ StopNotify \/ Join \/ StopReturns
               \/ \E w \in Workers : AddThread(w))

FairSpec == Spec /\ Fairness

-----------------------------------------------------------------------------
(* Properties                                                                 *)

TypeOK ==
    /\ thread_count \in ThreadCounts
    /\ is_running \in BOOLEAN
    /\ mtx \in Workers \cup {NoOne}
    /\ queue \in Seq(Tasks)
    /\ waiting \subseteq Workers
    /\ wpc \in [Workers -> WorkerPCs]
    /\ current \in [Workers -> Tasks \cup {NoTask}]
    /\ threads \in Seq(Workers)
    /\ opc \in {"idle", "adding", "notify", "join"}
    /\ cpc \in [Clients -> {"idle", "notify", "notifyR", "await"}]
    /\ mine \in [Clients -> Tasks \cup {NoTask}]
    /\ posted \in Seq(Tasks)
    /\ started \in Seq(Tasks)
    /\ finished \in Seq(Tasks)

\* queue.front() is reached with a task in the queue: on an empty std::queue it
\* would be undefined (thread_pool.cc 36-45).
NoEmptyPop == \A w \in Workers : wpc[w] = "chosen" /\ is_running => queue # <<>>

InPostingOrder == posted = started \o queue

\* Whatever the number of workers, tasks are dispatched in posting order, none is
\* lost or dispatched twice, and none is taken from an empty queue, whichever
\* workers and notifications race for it, across stops and restarts of the pool.
DispatchFIFO == InPostingOrder /\ NoEmptyPop

\* What WAIT_TASKS_COMPLETED relies on (scheduler.h 174-175): with one thread,
\* once the posted barrier has finished, so has everything posted before it.
BarrierOrder ==
    thread_count = 1 =>
        \A i, j \in 1 .. Len(posted) :
            i < j /\ posted[j] \in Elems(finished) => posted[i] \in Elems(finished)

\* When Stop has returned no worker touches the pool any more: none is left,
\* mtx_ is free and every task that was begun has returned (the queue may
\* still hold tasks, which are dropped or run after the next Start).
QuietAfterStop ==
    opc = "idle" /\ ~is_running =>
        /\ \A w \in Workers : wpc[w] = "absent"
        /\ mtx = NoOne
        /\ Elems(started) = Elems(finished)

\* No wakeup of AddTask is lost: a task in the queue is run unless the pool
\* is stopped, although notify_all happens after mtx_ is released.
TaskRuns ==
    \A t \in Tasks : t \in Elems(queue) ~> (t \in Elems(finished) \/ ~is_running)

\* A pool of one thread is a strand: each of its steps is one of Strand or
\* leaves the strand as it is.
OneStrand == INSTANCE Strand WITH
    pending <- queue,
    active  <- IF \E w \in Workers : wpc[w] = "run"
               THEN current[CHOOSE w \in Workers : wpc[w] = "run"] ELSE NoTask,
    done    <- finished

ImplementsStrand ==
    OneStrand!SInit /\ [][thread_count = 1 => OneStrand!SNext]_(OneStrand!svars)
=============================================================================
