------------------------------- MODULE Timer --------------------------------
(* Scheduler and Scheduler::Timer (scheduler/scheduler.h, scheduler.cc):      *)
(* delayed and repeated tasks, kept in a priority queue by their time and run *)
(* by Run_, a loop on the timer's own thread pool, which the first caller     *)
(* starts.  A task does nothing but post the user's function to the executor  *)
(* of a tag (GetExecutorByTag, which throws when there is none).              *)
(*                                                                            *)
(* A critical section of mtx_ is one step: every notify_all that can end a    *)
(* wait of Run_ happens inside one, so that an evaluation of the predicate    *)
(* and the blocking that follows it cannot be told from one step.  What is    *)
(* outside of it is not: the loads and stores of is_running_ in Start, the    *)
(* reading of the clock, the call of the task, and the stores of Stop.  Nor   *)
(* is the wait for a call of Run_ in the timer's pool, whose AddTask notifies *)
(* and whose Stop stores and notifies without the pool's mutex (ThreadPool).  *)
(*                                                                            *)
(* Start of that pool may run twice at the same time, and the two calls then  *)
(* append to one vector without a lock: the model has the entries that may be *)
(* lost; a crash in the middle of the race is outside of it.                  *)
(* (Operators named before the one the code has, such as Unchecked before     *)
(* StillWanted, are the faults the properties must detect.)                   *)
EXTENDS Naturals, Sequences, FiniteSets

CONSTANTS Clients,  \* threads that call the scheduler
          Loops,    \* identities for the threads of timer_executor_
          Tags,     \* bound: executor tags in use
          Jobs,     \* what can be posted: a set of JobRecords, each at most once
          NoJob,
          MaxCancels, \* bound: jobs that are cancelled
          Micro     \* units of the clock in the microsecond Run_ counts in

Kinds == {"delayed", "repeated"}

\* What a caller passes: delta, repeat_num (total; 1 for a delayed task), the
\* tag of an executor; the number tells jobs apart, as the repeated id does.
JobRecords == [number : Nat, kind : Kinds, delta : Nat, total : Nat, tag : Tags]

ASSUME TimerAssumption ==
    /\ Clients \cap Loops = {}
    /\ Tags \subseteq Nat
    /\ Jobs \subseteq JobRecords /\ NoJob \notin Jobs
    /\ \A j \in Jobs : j.kind = "delayed" => j.total = 1
    /\ MaxCancels \in Nat
    /\ Micro \in Nat \ {0}

VARIABLES
    executors,    \* the keys of executor_dirc_
    is_running,   \* is_running_ of the timer
    ex_running,   \* is_running_ of timer_executor_
    runs,         \* calls of Run_ in the queue of timer_executor_
    thread_vector, \* the threads in the vector of timer_executor_, once Stop reads it
    timer_queue,  \* timer_queue_: entries with their job, time and what is left
    repeated_set, \* repeated_set_, with the jobs themselves for their ids
    now,          \* the clock
    pc,           \* where each client and each loop thread is
    job,          \* the job it is dealing with
    left,         \* repeat_num of the call of PostRepeatedTask_ it is in
    time,         \* a caller's s.time_point; for a waiting loop the end of the wait
    stop,         \* where Stop, called by the destructor, is
    made,         \* history: the jobs that were posted
    ran,          \* history: how often each job's function was posted
    earliest,     \* history: when it may be posted next, if it is to be
    ranAtCancel,  \* history: for each cancelled job, how often it had run
    threw         \* history: jobs whose tag had no executor

poolVars == <<ex_running, runs, thread_vector>>
startVars == <<is_running, poolVars>>
queueVars == <<timer_queue, repeated_set>>
localVars == <<job, left, time>>
history   == <<made, ran, earliest, ranAtCancel, threw>>
vars == <<executors, startVars, queueVars, now, pc, localVars, stop, history>>

Threads == Clients \cup Loops

\* duration_cast to microseconds: delta is a number of them.
Delta(j) == Micro * j.delta
Entries == [job : Jobs, time : Nat, left : Nat]

Goto(p, l) == pc' = [pc EXCEPT ![p] = l]

\* A call, or the task of an entry, is over, and its locals are gone.
Home(p) == IF p \in Clients THEN "idle" ELSE "look"

Over(p) ==
    /\ Goto(p, Home(p))
    /\ job' = [job EXCEPT ![p] = NoJob]
    /\ left' = [left EXCEPT ![p] = 0]
    /\ time' = [time EXCEPT ![p] = 0]

Init ==
    /\ executors = {}
    /\ is_running = FALSE /\ ex_running = FALSE /\ runs = 0
    /\ thread_vector = {}
    /\ timer_queue = {} /\ repeated_set = {}
    /\ now = 0
    /\ pc = [p \in Threads |-> IF p \in Clients THEN "idle" ELSE "absent"]
    /\ job = [p \in Threads |-> NoJob]
    /\ left = [p \in Threads |-> 0]
    /\ time = [p \in Threads |-> 0]
    /\ stop = "up"
    /\ made = {}
    /\ ran = [j \in Jobs |-> 0]
    /\ earliest = [j \in Jobs |-> 0]
    /\ ranAtCancel = [j \in Jobs |-> {}]
    /\ threw = {}

-----------------------------------------------------------------------------
(* The directory of executors                                                 *)

\* The first tag, from the one asked for, that has no executor yet.
NewTaskExecutor(tag) ==
    LET free == {g \in Tags \ executors : g >= tag}
    IN \E g \in free :
          /\ stop = "up"
          /\ \A h \in free : g <= h
          /\ executors' = executors \cup {g}
          /\ UNCHANGED <<startVars, queueVars, now, pc, localVars, stop, history>>

-----------------------------------------------------------------------------
(* A client's call of PostDelayTask or PostRepeatedTask                       *)

\* The call, and Timer::Start up to its load of is_running_.
Call(c, j) ==
    /\ pc[c] = "idle" /\ stop = "up"
    /\ j \notin made
    /\ made' = made \cup {j}
    /\ job' = [job EXCEPT ![c] = j]
    /\ left' = [left EXCEPT ![c] = j.total]
    /\ earliest' = [earliest EXCEPT ![j] = now + (IF j.kind = "delayed" THEN Delta(j) ELSE 0)]
    /\ Goto(c, IF is_running THEN "timer" ELSE "store")
    /\ UNCHANGED <<executors, startVars, queueVars, now, time, stop>>
    /\ UNCHANGED <<ran, ranAtCancel, threw>>

\* is_running_.store(true), and timer_executor_->Start() up to the load of its
\* own is_running_.
StoreRunning(c) ==
    /\ pc[c] = "store"
    /\ is_running' = TRUE
    /\ Goto(c, IF ex_running THEN "addrun" ELSE "exstore")
    /\ UNCHANGED <<executors, poolVars, queueVars, now>>
    /\ UNCHANGED <<localVars, stop, history>>

\* The store of it, and the one thread that is added.
StartExecutor(c, l) ==
    /\ pc[c] = "exstore"
    /\ pc[l] = "absent"
    /\ ex_running' = TRUE
    /\ pc' = [pc EXCEPT ![c] = "addrun", ![l] = "pool"]
    /\ UNCHANGED <<executors, is_running, runs, thread_vector, queueVars, now>>
    /\ UNCHANGED <<localVars, stop, history>>

\* The mutex of the pool is not held by a thread about to block on its cv_.
PoolFree == \A l \in Loops : pc[l] # "block"

\* timer_executor_->AddTask(Run_), under the pool's mutex
AddRun(c) ==
    /\ pc[c] = "addrun" /\ PoolFree
    /\ runs' = runs + 1
    /\ Goto(c, "addnotify")
    /\ UNCHANGED <<executors, is_running, ex_running, thread_vector>>
    /\ UNCHANGED <<queueVars, now, localVars, stop, history>>

\* cv_.notify_all() of the pool: its sleeping threads try again.
Woken == [p \in Threads |-> IF pc[p] = "asleep" THEN "pool" ELSE pc[p]]

\* The notification of AddTask, after the pool's mutex is released.
NotifyRun(c) ==
    /\ pc[c] = "addnotify"
    /\ pc' = [Woken EXCEPT ![c] = "timer"]
    /\ UNCHANGED <<executors, startVars, queueVars, now, localVars, stop, history>>

\* Timer::PostRepeatedTask draws the id and inserts it.
Register(c) ==
    /\ pc[c] = "timer"
    /\ job[c].kind = "repeated"
    /\ repeated_set' = repeated_set \cup {job[c]}
    /\ Goto(c, "repeat")
    /\ UNCHANGED <<executors, startVars, timer_queue, now, localVars, stop, history>>

-----------------------------------------------------------------------------
(* PostRepeatedTask_, in the caller for the first run and in the loop for     *)
(* the others; the end of PostDelayedTask                                     *)

\* repeat_num == 0: the id is erased.
NoneLeft(p) == left[p] = 0

RepeatEnds(p) ==
    /\ pc[p] = "repeat"
    /\ NoneLeft(p)
    /\ repeated_set' = repeated_set \ {job[p]}
    /\ Over(p)
    /\ UNCHANGED <<executors, startVars, timer_queue, now, stop, history>>

\* The id is looked up under mtx_; the task is called after its release.
Unchecked(j) == TRUE
StillWanted(j) == j \in repeated_set

RepeatChecks(p) ==
    /\ pc[p] = "repeat"
    /\ ~NoneLeft(p)
    /\ IF StillWanted(job[p]) THEN Goto(p, "run") /\ UNCHANGED localVars ELSE Over(p)
    /\ UNCHANGED <<executors, startVars, queueVars, now, stop, history>>

\* task(): the user's function is posted to the executor of its tag.
RunTask(p) ==
    LET j == job[p] IN
    /\ pc[p] = "run"
    /\ j.tag \in executors
    /\ ran' = [ran EXCEPT ![j] = @ + 1]
    /\ earliest' = [earliest EXCEPT ![j] = IF left[p] > 1 THEN now + Delta(j) ELSE 0]
    /\ IF j.kind = "repeated" THEN Goto(p, "stamp") /\ UNCHANGED localVars ELSE Over(p)
    /\ UNCHANGED <<executors, startVars, queueVars, now, stop>>
    /\ UNCHANGED <<made, ranAtCancel, threw>>

\* task() throws: the exception ends the caller's call, or is caught by Run_.
TaskThrows(p) ==
    /\ pc[p] = "run"
    /\ job[p].tag \notin executors
    /\ threw' = threw \cup {job[p]}
    /\ Over(p)
    /\ UNCHANGED <<executors, startVars, queueVars, now, stop>>
    /\ UNCHANGED <<made, ran, earliest, ranAtCancel>>

\* The new entry: the clock is read, and one run less is left, before mtx_ is
\* taken.
NotCounted(p) == left' = left
Counted(p) == left' = [left EXCEPT ![p] = @ - 1]

Stamp(p) ==
    /\ pc[p] = "stamp" \/ (pc[p] = "timer" /\ job[p].kind = "delayed")
    /\ time' = [time EXCEPT ![p] = now + Delta(job[p])]
    /\ Counted(p)
    /\ Goto(p, "push")
    /\ UNCHANGED <<executors, startVars, queueVars, now, job, stop, history>>

\* A loop blocked on cv_, whom cv_.notify_all() wakes.
Waits(q) == pc[q] \in {"wait", "wait_for"}
NotNotified(q) == FALSE
Notified(q) == Waits(q)

\* The entry is pushed and the waiting loops are notified, with mtx_ held.
Push(p) ==
    /\ pc[p] = "push"
    /\ timer_queue' = timer_queue \cup {[job |-> job[p], time |-> time[p], left |-> left[p]]}
    /\ pc' = [q \in Threads |-> IF q = p THEN Home(p) ELSE IF Notified(q) THEN "look" ELSE pc[q]]
    /\ job' = [job EXCEPT ![p] = NoJob]
    /\ left' = [left EXCEPT ![p] = 0]
    /\ time' = [q \in Threads |-> IF q = p \/ Notified(q) THEN 0 ELSE time[q]]
    /\ UNCHANGED <<executors, startVars, repeated_set, now, stop, history>>

\* CancelRepeatedTask, for an id that is in the set; for others it does nothing.
CancelRepeatedTask(j) ==
    /\ stop = "up"
    /\ j \in repeated_set
    /\ Cardinality({k \in Jobs : ranAtCancel[k] # {}}) < MaxCancels
    /\ repeated_set' = repeated_set \ {j}
    /\ ranAtCancel' = [ranAtCancel EXCEPT ![j] = {ran[j]}]
    /\ UNCHANGED <<executors, startVars, timer_queue, now, pc, localVars, stop>>
    /\ UNCHANGED <<made, ran, earliest, threw>>
-----------------------------------------------------------------------------
(* Run_ on a thread of timer_executor_                                        *)

\* The thread takes the pool's mutex and evaluates the pool's predicate: there
\* is a call of Run_ in the queue of the pool,
EnterRun(l) ==
    /\ pc[l] = "pool" /\ PoolFree
    /\ ex_running /\ runs > 0
    /\ runs' = runs - 1
    /\ Goto(l, "look")
    /\ UNCHANGED <<executors, is_running, ex_running, thread_vector>>
    /\ UNCHANGED <<queueVars, now, localVars, stop, history>>

\* or the pool was stopped,
LeavePool(l) ==
    /\ pc[l] = "pool" /\ PoolFree
    /\ ~ex_running
    /\ Goto(l, "exited")
    /\ UNCHANGED <<executors, startVars, queueVars, now, localVars, stop, history>>

\* or neither: the thread is about to block, with the mutex held,
PoolWaits(l) ==
    /\ pc[l] = "pool" /\ PoolFree
    /\ ex_running /\ runs = 0
    /\ Goto(l, "block")
    /\ UNCHANGED <<executors, startVars, queueVars, now, localVars, stop, history>>

\* and releases the mutex and sleeps.
PoolBlocks(l) ==
    /\ pc[l] = "block"
    /\ Goto(l, "asleep")
    /\ UNCHANGED <<executors, startVars, queueVars, now, localVars, stop, history>>

\* The loop takes mtx_ at its head, where both waits lead.  There is nothing to
\* do: it blocks in cv_.wait.
WaitForWork(l) ==
    /\ pc[l] = "look" /\ is_running
    /\ timer_queue = {}
    /\ Goto(l, "wait")
    /\ time' = [time EXCEPT ![l] = 0]
    /\ UNCHANGED <<executors, startVars, queueVars, now, job, left, stop, history>>

\* The timer was stopped: Run_ returns to the pool.
NeverSeen == FALSE
Stopped == ~is_running

LeaveRun(l) ==
    /\ pc[l] = "look" /\ Stopped
    /\ Goto(l, "pool")
    /\ UNCHANGED <<executors, startVars, queueVars, now, localVars, stop, history>>

\* timer_queue_.top(): an entry with the least time, any of several.
IsTop(e) == \A f \in timer_queue : e.time <= f.time

\* The time to e is counted in whole microseconds.
DueEarly(e) == e.time <= now + Micro
IsDue(e) == e.time < now + Micro

\* timer_queue_.pop()
DontPop(e) == timer_queue' = timer_queue
Pop(e) == timer_queue' = timer_queue \ {e}

WaitForTop(l, e) ==
    /\ pc[l] = "look" /\ is_running
    /\ e \in timer_queue /\ IsTop(e) /\ ~IsDue(e)
    /\ time' = [time EXCEPT ![l] = e.time]
    /\ Goto(l, "wait_for")
    /\ UNCHANGED <<executors, startVars, queueVars, now, job, left, stop, history>>

\* pop, and the call of s.task() after mtx_ is released.
PopDue(l, e) ==
    /\ pc[l] = "look" /\ is_running
    /\ e \in timer_queue /\ IsTop(e) /\ IsDue(e)
    /\ Pop(e)
    /\ job' = [job EXCEPT ![l] = e.job]
    /\ left' = [left EXCEPT ![l] = e.left]
    /\ time' = [time EXCEPT ![l] = 0]
    /\ Goto(l, IF e.job.kind = "repeated" THEN "repeat" ELSE "run")
    /\ UNCHANGED <<executors, startVars, repeated_set, now, stop, history>>

\* A wait ends, and with it the turn of the loop.
Wake(l) ==
    /\ Goto(l, "look")
    /\ time' = [time EXCEPT ![l] = 0]
    /\ UNCHANGED <<executors, startVars, queueVars, now, job, left, stop, history>>

\* wait_for ends at its time.
TimeOut(l) == pc[l] = "wait_for" /\ time[l] <= now /\ Wake(l)

\* Any wait may end without a reason.
PoolSpuriousWake(l) ==
    /\ pc[l] = "asleep"
    /\ Goto(l, "pool")
    /\ UNCHANGED <<executors, startVars, queueVars, now, localVars, stop, history>>

SpuriousWake(l) == Waits(l) /\ Wake(l)

-----------------------------------------------------------------------------
(* The clock, and Stop, called by the destructor when no call is under way    *)

\* Time passes as long as an entry, one about to be pushed, or the end of a wait
\* is in the future.
Tick ==
    /\ \/ \E e \in timer_queue : e.time > now
       \/ \E p \in Threads : pc[p] \in {"push", "wait_for"} /\ time[p] > now
    /\ now' = now + 1
    /\ UNCHANGED <<executors, startVars, queueVars, pc, localVars, stop, history>>

StopStore ==
    /\ stop = "up" /\ is_running
    /\ \A c \in Clients : pc[c] = "idle"
    /\ is_running' = FALSE
    /\ stop' = "exstop"
    /\ UNCHANGED <<executors, poolVars, queueVars, now, pc, localVars, history>>

\* timer_executor_->Stop(): its store, its notification, both without the pool's
\* mutex, and the join of the threads it knows of.
StopExecutor ==
    /\ stop = "exstop"
    /\ ex_running' = FALSE
    /\ stop' = "exnotify"
    /\ UNCHANGED <<executors, is_running, runs, thread_vector>>
    /\ UNCHANGED <<queueVars, now, pc, localVars, history>>

\* What thread_vector_ may hold: threads were added to it without a lock, and if
\* two callers did so at the same time the entry of one can be lost.
Vectors == SUBSET {l \in Loops : pc[l] # "absent"} \ {{}}

StopExecutorNotify ==
    /\ stop = "exnotify"
    /\ pc' = Woken
    /\ thread_vector' \in Vectors
    /\ stop' = "join"
    /\ UNCHANGED <<executors, is_running, ex_running, runs>>
    /\ UNCHANGED <<queueVars, now, localVars, history>>

JoinLoops ==
    /\ stop = "join"
    /\ \A l \in thread_vector : pc[l] = "exited"
    /\ stop' = "notify"
    /\ UNCHANGED <<executors, startVars, queueVars, now, pc, localVars, history>>

StopNotify ==
    /\ stop = "notify"
    /\ pc' = [q \in Threads |-> IF Notified(q) THEN "look" ELSE pc[q]]
    /\ time' = [q \in Threads |-> IF Notified(q) THEN 0 ELSE time[q]]
    /\ stop' = "down"
    /\ UNCHANGED <<executors, startVars, queueVars, now, job, left, history>>

-----------------------------------------------------------------------------

\* The steps of PostRepeatedTask_ and of the end of PostDelayedTask.
PostStep(p) ==
    RepeatEnds(p) \/ RepeatChecks(p) \/ RunTask(p) \/ TaskThrows(p) \/ Stamp(p) \/ Push(p)

ClientStep(c) ==
    \/ StoreRunning(c) \/ AddRun(c) \/ NotifyRun(c) \/ Register(c)
    \/ \E l \in Loops : StartExecutor(c, l)
    \/ PostStep(c)

LoopStep(l) ==
    \/ EnterRun(l) \/ LeavePool(l) \/ PoolWaits(l) \/ PoolBlocks(l)
    \/ WaitForWork(l) \/ LeaveRun(l) \/ TimeOut(l)
    \/ \E e \in timer_queue : WaitForTop(l, e) \/ PopDue(l, e)
    \/ PostStep(l)

StopStep == StopExecutor \/ StopExecutorNotify \/ JoinLoops \/ StopNotify

Next ==
    \/ \E tag \in Tags : NewTaskExecutor(tag)
    \/ \E c \in Clients : ClientStep(c) \/ \E j \in Jobs : Call(c, j)
    \/ \E j \in Jobs : CancelRepeatedTask(j)
    \/ \E l \in Loops : LoopStep(l) \/ SpuriousWake(l) \/ PoolSpuriousWake(l)
    \/ Tick \/ StopStore \/ StopStep

Spec == Init /\ [][Next]_vars

\* Callers finish their calls, the loops run, the clock does not stand still
\* for ever, and Stop goes on when it can.  A caller that asks for the pool's
\* mutex gets it, although threads that wake without a reason may take it again
\* and again.
Fairness ==
    /\ \A c \in Clients : WF_vars(ClientStep(c)) /\ SF_vars(AddRun(c))
    /\ \A l \in Loops : WF_vars(LoopStep(l))
    /\ WF_vars(Tick)
    /\ WF_vars(StopStep)

FairSpec == Spec /\ Fairness

-----------------------------------------------------------------------------
(* Properties                                                                 *)

TypeOK ==
    /\ executors \subseteq Tags
    /\ is_running \in BOOLEAN /\ ex_running \in BOOLEAN /\ runs \in Nat
    /\ thread_vector \subseteq Loops
    /\ timer_queue \subseteq Entries
    /\ repeated_set \subseteq Jobs
    /\ now \in Nat
    /\ pc \in [Threads -> {"idle", "store", "exstore", "addrun", "addnotify", "timer",
                           "repeat", "run", "stamp", "push", "absent", "pool",
                           "block", "asleep", "look", "wait", "wait_for", "exited"}]
    /\ job \in [Threads -> Jobs \cup {NoJob}]
    /\ left \in [Threads -> Nat]
    /\ time \in [Threads -> Nat]
    /\ stop \in {"up", "exstop", "exnotify", "join", "notify", "down"}
    /\ made \subseteq Jobs
    /\ ran \in [Jobs -> Nat]
    /\ earliest \in [Jobs -> Nat]
    /\ ranAtCancel \in [Jobs -> SUBSET Nat]
    /\ threw \subseteq Jobs

\* A job exists once: as one entry of the queue or with one thread, also when
\* two first callers have started two loops.  A second copy would double the
\* runs of a repeated task.
OneCopy ==
    /\ \A e, f \in timer_queue : e.job = f.job => e = f
    /\ \A p, q \in Threads : job[p] = job[q] /\ job[p] # NoJob => p = q
    /\ \A e \in timer_queue, p \in Threads : job[p] # e.job

\* Nobody sleeps past the next entry: a loop that waits does so until the
\* earliest time in the queue or for less, and without limit only when the
\* queue is empty, whoever pushed what while it went to sleep.
SleepsForTop ==
    \A l \in Loops : Waits(l) =>
        \A e \in timer_queue : pc[l] = "wait_for" /\ time[l] <= e.time

\* A job runs no more often than it was asked to, and at most once after
\* CancelRepeatedTask has returned: when it was checked before, called after.
RunsCounted ==
    \A j \in made :
        /\ ran[j] <= j.total
        /\ \A n \in ranAtCancel[j] : ran[j] <= n + 1

\* No job runs a microsecond or more before its time, and a repeated one never
\* closer to its last run than its period: other entries, notifications and
\* timeouts of shorter waits do not bring it forward.
NeverEarly == [][\A j \in Jobs : ran'[j] # ran[j] => earliest[j] < now + Micro]_vars

\* What was posted runs as often as it was asked to, unless it is cancelled,
\* has no executor, or the timer is stopped; with a loop that two callers may
\* both have started, or that neither has started yet.
AllRuns ==
    \A j \in Jobs :
        j \in made ~>
            \/ ran[j] = j.total
            \/ ranAtCancel[j] # {} \/ j \in threw \/ stop # "up"

\* Stop returns, unless one of two wakeups is lost: a loop asleep on an empty
\* queue is joined before cv_ is notified (scheduler.cc 46-47), and a thread that
\* has returned from Run_, or never got a call of it, can find the pool running
\* and block after its store and its notification (thread_pool.cc 22-23, 35-38).
StopReturns ==
    (stop # "up") ~> \/ stop = "down"
                     \/ timer_queue = {} /\ \E l \in Loops : pc[l] = "wait"
                     \/ stop = "join" /\ \E l \in Loops : pc[l] = "asleep"
=============================================================================
