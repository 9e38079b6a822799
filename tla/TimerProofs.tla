---------------------------- MODULE TimerProofs ----------------------------
(* Proofs about Timer for any numbers of clients, loops and jobs, any delays, *)
(* repetitions and tags.                                                      *)
EXTENDS Timer, TLAPS

-----------------------------------------------------------------------------
(* The inductive invariant                                                    *)

Rest  == {"idle", "absent", "pool", "block", "asleep", "look", "wait", "wait_for",
          "exited"}
Early == {"store", "exstore", "addrun", "addnotify", "timer"}
Busy  == {"repeat", "run", "stamp", "push"}

\* Where clients and loops can be, and when they have a job.
PlaceInv ==
    /\ \A c \in Clients : pc[c] \in {"idle"} \cup Early \cup Busy
    /\ \A l \in Loops : pc[l] \in (Rest \ {"idle"}) \cup Busy
    /\ \A p \in Threads : job[p] = NoJob <=> pc[p] \in Rest
    /\ \A p \in Threads : job[p] \in made \cup {NoJob}
    /\ \A e \in timer_queue : e.job \in made

\* What is left of a job while it is dealt with.
LeftInv ==
    \A p \in Threads :
        /\ pc[p] \in Early => left[p] = job[p].total
        /\ pc[p] \in {"repeat", "stamp"} => job[p].kind = "repeated"
        /\ pc[p] = "stamp" => left[p] > 0
        /\ pc[p] = "run" /\ job[p].kind = "repeated" => left[p] > 0

BaseInv == TypeOK /\ PlaceInv /\ LeftInv

-----------------------------------------------------------------------------

\* What the assumptions say of one job.
LEMMA JobFacts ==
    \A j \in Jobs : /\ j # NoJob /\ j.kind \in Kinds
                    /\ j.delta \in Nat /\ j.total \in Nat /\ j.tag \in Tags
                    /\ j.kind = "delayed" => j.total = 1
BY TimerAssumption DEF JobRecords

LEMMA DeltaType == \A j \in Jobs : Delta(j) \in Nat
<1>1. \A m, d \in Nat : m * d \in Nat
  OBVIOUS
<1>2. QED BY <1>1, JobFacts, TimerAssumption DEF Delta

\* A thread that is not at rest has a job.
LEMMA HasJob ==
    ASSUME BaseInv, NEW p \in Threads, pc[p] \notin Rest
    PROVE  job[p] \in Jobs /\ job[p] \in made
BY DEF BaseInv, TypeOK, PlaceInv

LEMMA InitBase == Init => BaseInv
<1> SUFFICES ASSUME Init PROVE BaseInv
  OBVIOUS
<1> USE DEF Init
<1>1. TypeOK
  BY DEF TypeOK, Threads
<1>2. PlaceInv
  BY TimerAssumption DEF PlaceInv, Threads, Rest, Early, Busy
<1>3. LeftInv
  BY DEF LeftInv, Early, Threads
<1>4. QED BY <1>1, <1>2, <1>3 DEF BaseInv

\* Every step keeps the types.
LEMMA TypeStep ==
    ASSUME BaseInv, [Next]_vars PROVE TypeOK'
<1> USE DEF BaseInv, TypeOK, PlaceInv, LeftInv, vars, poolVars, startVars, queueVars, localVars,
      history, Goto, Over, Home, Threads
<1>1. ASSUME NEW tag \in Tags, NewTaskExecutor(tag) PROVE TypeOK'
  BY <1>1 DEF NewTaskExecutor
<1>2. ASSUME NEW c \in Clients, StoreRunning(c) PROVE TypeOK'
  BY <1>2 DEF StoreRunning
<1>3. ASSUME NEW c \in Clients, NEW l \in Loops, StartExecutor(c, l) PROVE TypeOK'
  BY <1>3 DEF StartExecutor
<1>4. ASSUME NEW c \in Clients, AddRun(c) PROVE TypeOK'
  BY <1>4 DEF AddRun
<1>5. ASSUME NEW c \in Clients, Register(c) PROVE TypeOK'
  <2>1. job[c] \in Jobs /\ job[c] \in made
    BY <1>5, HasJob DEF Register, Rest
  <2>2. QED BY <1>5, <2>1, JobFacts, DeltaType DEF Register
<1>6. ASSUME NEW c \in Clients, NEW j \in Jobs, Call(c, j) PROVE TypeOK'
  BY <1>6, JobFacts, DeltaType DEF Call
<1>7. ASSUME NEW p \in Threads, RepeatEnds(p) PROVE TypeOK'
  BY <1>7 DEF RepeatEnds, NoneLeft
<1>8. ASSUME NEW p \in Threads, RepeatChecks(p) PROVE TypeOK'
  BY <1>8 DEF RepeatChecks, NoneLeft, StillWanted
<1>9. ASSUME NEW p \in Threads, RunTask(p) PROVE TypeOK'
  <2>1. job[p] \in Jobs /\ job[p] \in made
    BY <1>9, HasJob DEF RunTask, Rest
  <2>2. QED BY <1>9, <2>1, JobFacts, DeltaType DEF RunTask
<1>10. ASSUME NEW p \in Threads, TaskThrows(p) PROVE TypeOK'
  <2>1. job[p] \in Jobs /\ job[p] \in made
    BY <1>10, HasJob DEF TaskThrows, Rest
  <2>2. QED BY <1>10, <2>1, JobFacts, DeltaType DEF TaskThrows
<1>11. ASSUME NEW p \in Threads, Stamp(p) PROVE TypeOK'
  <2>1. job[p] \in Jobs /\ job[p] \in made
    BY <1>11, HasJob DEF Stamp, Rest
  <2>2. QED BY <1>11, <2>1, JobFacts, DeltaType DEF Stamp, Counted, Early
<1>12. ASSUME NEW p \in Threads, Push(p) PROVE TypeOK'
  <2>1. job[p] \in Jobs /\ job[p] \in made
    BY <1>12, HasJob DEF Push, Rest
  <2>2. QED BY <1>12, <2>1, JobFacts, DeltaType DEF Push, Notified, Waits, Entries
<1>13. ASSUME NEW j \in Jobs, CancelRepeatedTask(j) PROVE TypeOK'
  BY <1>13 DEF CancelRepeatedTask
<1>14. ASSUME NEW l \in Loops, EnterRun(l) PROVE TypeOK'
  BY <1>14 DEF EnterRun
<1>15. ASSUME NEW l \in Loops, LeavePool(l) PROVE TypeOK'
  BY <1>15 DEF LeavePool
<1>16. ASSUME NEW l \in Loops, WaitForWork(l) PROVE TypeOK'
  BY <1>16 DEF WaitForWork
<1>17. ASSUME NEW l \in Loops, LeaveRun(l) PROVE TypeOK'
  BY <1>17 DEF LeaveRun, Stopped
<1>18. ASSUME NEW l \in Loops, TimeOut(l) PROVE TypeOK'
  BY <1>18 DEF TimeOut, Wake
<1>19. ASSUME NEW l \in Loops, NEW e \in timer_queue, WaitForTop(l, e) PROVE TypeOK'
  BY <1>19 DEF WaitForTop, Entries, IsTop
<1>20. ASSUME NEW l \in Loops, NEW e \in timer_queue, PopDue(l, e) PROVE TypeOK'
  BY <1>20 DEF PopDue, Pop, Entries
<1>21. ASSUME NEW l \in Loops, SpuriousWake(l) PROVE TypeOK'
  BY <1>21 DEF SpuriousWake, Waits, Wake
<1>26. ASSUME NEW c \in Clients, NotifyRun(c) PROVE TypeOK'
  BY <1>26 DEF NotifyRun, Woken
<1>27. ASSUME NEW l \in Loops, PoolWaits(l) PROVE TypeOK'
  BY <1>27 DEF PoolWaits
<1>28. ASSUME NEW l \in Loops, PoolBlocks(l) PROVE TypeOK'
  BY <1>28 DEF PoolBlocks
<1>29. ASSUME NEW l \in Loops, PoolSpuriousWake(l) PROVE TypeOK'
  BY <1>29 DEF PoolSpuriousWake
<1>22. CASE Tick
  BY <1>22 DEF Tick
<1>23. CASE StopStore \/ StopStep
  <2>1. CASE StopStore \/ StopExecutor \/ JoinLoops
    BY <2>1 DEF StopStore, StopExecutor, JoinLoops
  <2>2. CASE StopExecutorNotify
    BY <2>2 DEF StopExecutorNotify, Woken, Vectors
  <2>3. CASE StopNotify
    BY <2>3 DEF StopNotify, Notified, Waits
  <2>4. QED BY <1>23, <2>1, <2>2, <2>3 DEF StopStep
<1>24. CASE UNCHANGED vars
  BY <1>24
<1>25. QED BY <1>1, <1>2, <1>3, <1>4, <1>5, <1>6, <1>7, <1>8, <1>9, <1>10, <1>11, <1>12,
      <1>13, <1>14, <1>15, <1>16, <1>17, <1>18, <1>19, <1>20, <1>21, <1>22, <1>23, <1>24,
      <1>26, <1>27, <1>28, <1>29 DEF Next, ClientStep, LoopStep, PostStep, Threads
\* Clients and loops stay where they can be; a job is taken up and put down.
LEMMA PlaceStep ==
    ASSUME BaseInv, [Next]_vars PROVE PlaceInv'
<1> USE DEF BaseInv, PlaceInv, Rest, Early, Busy, TypeOK, vars, poolVars, startVars, queueVars,
      localVars, history, Goto, Over, Home, Threads
<1>1. ASSUME NEW tag \in Tags, NewTaskExecutor(tag) PROVE PlaceInv'
  BY <1>1 DEF NewTaskExecutor
<1>2. ASSUME NEW c \in Clients, StoreRunning(c) PROVE PlaceInv'
  BY <1>2 DEF StoreRunning
<1>3. ASSUME NEW c \in Clients, NEW l \in Loops, StartExecutor(c, l) PROVE PlaceInv'
  BY <1>3 DEF StartExecutor
<1>4. ASSUME NEW c \in Clients, AddRun(c) PROVE PlaceInv'
  BY <1>4 DEF AddRun
<1>5. ASSUME NEW c \in Clients, Register(c) PROVE PlaceInv'
  BY <1>5 DEF Register
<1>6. ASSUME NEW c \in Clients, NEW j \in Jobs, Call(c, j) PROVE PlaceInv'
  BY <1>6, JobFacts DEF Call
<1>7. ASSUME NEW p \in Threads, RepeatEnds(p) PROVE PlaceInv'
  BY <1>7, TimerAssumption, JobFacts DEF RepeatEnds, NoneLeft
<1>8. ASSUME NEW p \in Threads, RepeatChecks(p) PROVE PlaceInv'
  BY <1>8, TimerAssumption, JobFacts DEF RepeatChecks, NoneLeft, StillWanted
<1>9. ASSUME NEW p \in Threads, RunTask(p) PROVE PlaceInv'
  BY <1>9, TimerAssumption, JobFacts DEF RunTask
<1>10. ASSUME NEW p \in Threads, TaskThrows(p) PROVE PlaceInv'
  BY <1>10, TimerAssumption, JobFacts DEF TaskThrows
<1>11. ASSUME NEW p \in Threads, Stamp(p) PROVE PlaceInv'
  BY <1>11 DEF Stamp, Counted
<1>12. ASSUME NEW p \in Threads, Push(p) PROVE PlaceInv'
  BY <1>12, TimerAssumption, JobFacts DEF Push, Notified, Waits, Entries
<1>13. ASSUME NEW j \in Jobs, CancelRepeatedTask(j) PROVE PlaceInv'
  BY <1>13 DEF CancelRepeatedTask
<1>14. ASSUME NEW l \in Loops, EnterRun(l) PROVE PlaceInv'
  BY <1>14 DEF EnterRun
<1>15. ASSUME NEW l \in Loops, LeavePool(l) PROVE PlaceInv'
  BY <1>15 DEF LeavePool
<1>16. ASSUME NEW l \in Loops, WaitForWork(l) PROVE PlaceInv'
  BY <1>16 DEF WaitForWork
<1>17. ASSUME NEW l \in Loops, LeaveRun(l) PROVE PlaceInv'
  BY <1>17 DEF LeaveRun, Stopped
<1>18. ASSUME NEW l \in Loops, TimeOut(l) PROVE PlaceInv'
  BY <1>18 DEF TimeOut, Wake
<1>19. ASSUME NEW l \in Loops, NEW e \in timer_queue, WaitForTop(l, e) PROVE PlaceInv'
  BY <1>19 DEF WaitForTop, Entries, IsTop
<1>20. ASSUME NEW l \in Loops, NEW e \in timer_queue, PopDue(l, e) PROVE PlaceInv'
  BY <1>20, JobFacts DEF PopDue, Pop, Entries
<1>21. ASSUME NEW l \in Loops, SpuriousWake(l) PROVE PlaceInv'
  BY <1>21 DEF SpuriousWake, Waits, Wake
<1>26. ASSUME NEW c \in Clients, NotifyRun(c) PROVE PlaceInv'
  BY <1>26 DEF NotifyRun, Woken
<1>27. ASSUME NEW l \in Loops, PoolWaits(l) PROVE PlaceInv'
  BY <1>27 DEF PoolWaits
<1>28. ASSUME NEW l \in Loops, PoolBlocks(l) PROVE PlaceInv'
  BY <1>28 DEF PoolBlocks
<1>29. ASSUME NEW l \in Loops, PoolSpuriousWake(l) PROVE PlaceInv'
  BY <1>29 DEF PoolSpuriousWake
<1>22. CASE Tick
  BY <1>22 DEF Tick
<1>23. CASE StopStore \/ StopStep
  BY <1>23 DEF StopStore, StopStep, StopExecutor,
         StopExecutorNotify, JoinLoops, StopNotify, Woken, Vectors, Notified, Waits
<1>24. CASE UNCHANGED vars
  BY <1>24
<1>25. QED BY <1>1, <1>2, <1>3, <1>4, <1>5, <1>6, <1>7, <1>8, <1>9, <1>10, <1>11, <1>12,
      <1>13, <1>14, <1>15, <1>16, <1>17, <1>18, <1>19, <1>20, <1>21, <1>22, <1>23, <1>24,
      <1>26, <1>27, <1>28, <1>29 DEF Next, ClientStep, LoopStep, PostStep, Threads

\* What is left of a job agrees with where its thread is.
LEMMA LeftStep ==
    ASSUME BaseInv, [Next]_vars PROVE LeftInv'
<1> USE DEF BaseInv, LeftInv, Early, TypeOK, vars, poolVars, startVars, queueVars, localVars,
      history, Goto, Over, Home, Threads
<1>1. ASSUME NEW tag \in Tags, NewTaskExecutor(tag) PROVE LeftInv'
  BY <1>1 DEF NewTaskExecutor
<1>2. ASSUME NEW c \in Clients, StoreRunning(c) PROVE LeftInv'
  BY <1>2 DEF StoreRunning
<1>3. ASSUME NEW c \in Clients, NEW l \in Loops, StartExecutor(c, l) PROVE LeftInv'
  BY <1>3 DEF StartExecutor
<1>4. ASSUME NEW c \in Clients, AddRun(c) PROVE LeftInv'
  BY <1>4 DEF AddRun
<1>5. ASSUME NEW c \in Clients, Register(c) PROVE LeftInv'
  BY <1>5 DEF Register
<1>6. ASSUME NEW c \in Clients, NEW j \in Jobs, Call(c, j) PROVE LeftInv'
  BY <1>6 DEF Call
<1>7. ASSUME NEW p \in Threads, RepeatEnds(p) PROVE LeftInv'
  BY <1>7 DEF RepeatEnds, NoneLeft
<1>8. ASSUME NEW p \in Threads, RepeatChecks(p) PROVE LeftInv'
  BY <1>8 DEF RepeatChecks, NoneLeft, StillWanted
<1>9. ASSUME NEW p \in Threads, RunTask(p) PROVE LeftInv'
  BY <1>9 DEF RunTask
<1>10. ASSUME NEW p \in Threads, TaskThrows(p) PROVE LeftInv'
  BY <1>10 DEF TaskThrows
<1>11. ASSUME NEW p \in Threads, Stamp(p) PROVE LeftInv'
  BY <1>11 DEF Stamp, Counted
<1>12. ASSUME NEW p \in Threads, Push(p) PROVE LeftInv'
  BY <1>12 DEF Push, Notified, Waits, Entries
<1>13. ASSUME NEW j \in Jobs, CancelRepeatedTask(j) PROVE LeftInv'
  BY <1>13 DEF CancelRepeatedTask
<1>14. ASSUME NEW l \in Loops, EnterRun(l) PROVE LeftInv'
  BY <1>14 DEF EnterRun
<1>15. ASSUME NEW l \in Loops, LeavePool(l) PROVE LeftInv'
  BY <1>15 DEF LeavePool
<1>16. ASSUME NEW l \in Loops, WaitForWork(l) PROVE LeftInv'
  BY <1>16 DEF WaitForWork
<1>17. ASSUME NEW l \in Loops, LeaveRun(l) PROVE LeftInv'
  BY <1>17 DEF LeaveRun, Stopped
<1>18. ASSUME NEW l \in Loops, TimeOut(l) PROVE LeftInv'
  BY <1>18 DEF TimeOut, Wake
<1>19. ASSUME NEW l \in Loops, NEW e \in timer_queue, WaitForTop(l, e) PROVE LeftInv'
  BY <1>19 DEF WaitForTop, Entries, IsTop
<1>20. ASSUME NEW l \in Loops, NEW e \in timer_queue, PopDue(l, e) PROVE LeftInv'
  BY <1>20 DEF PopDue, Pop, Entries
<1>21. ASSUME NEW l \in Loops, SpuriousWake(l) PROVE LeftInv'
  BY <1>21 DEF SpuriousWake, Waits, Wake
<1>26. ASSUME NEW c \in Clients, NotifyRun(c) PROVE LeftInv'
  BY <1>26 DEF NotifyRun, Woken
<1>27. ASSUME NEW l \in Loops, PoolWaits(l) PROVE LeftInv'
  BY <1>27 DEF PoolWaits
<1>28. ASSUME NEW l \in Loops, PoolBlocks(l) PROVE LeftInv'
  BY <1>28 DEF PoolBlocks
<1>29. ASSUME NEW l \in Loops, PoolSpuriousWake(l) PROVE LeftInv'
  BY <1>29 DEF PoolSpuriousWake
<1>22. CASE Tick
  BY <1>22 DEF Tick
<1>23. CASE StopStore \/ StopStep
  BY <1>23 DEF StopStore, StopStep, StopExecutor,
         StopExecutorNotify, JoinLoops, StopNotify, Woken, Vectors, Notified, Waits
<1>24. CASE UNCHANGED vars
  BY <1>24
<1>25. QED BY <1>1, <1>2, <1>3, <1>4, <1>5, <1>6, <1>7, <1>8, <1>9, <1>10, <1>11, <1>12,
      <1>13, <1>14, <1>15, <1>16, <1>17, <1>18, <1>19, <1>20, <1>21, <1>22, <1>23, <1>24,
      <1>26, <1>27, <1>28, <1>29 DEF Next, ClientStep, LoopStep, PostStep, Threads

-----------------------------------------------------------------------------
(* The parts of the invariant that the properties need                        *)

\* The runs an entry or a thread with n left still stands for.
Owed(j, n) == IF j.kind = "delayed" THEN 1 ELSE n

CountInv ==
    /\ \A j \in Jobs : ran[j] <= j.total
    /\ \A j \in Jobs \ made : ran[j] = 0
    /\ \A e \in timer_queue : ran[e.job] + Owed(e.job, e.left) <= e.job.total
    /\ \A p \in Threads :
          /\ pc[p] \in Early \cup {"repeat", "run", "push"}
                => ran[job[p]] + Owed(job[p], left[p]) <= job[p].total
          /\ pc[p] = "stamp" => ran[job[p]] + left[p] <= job[p].total + 1

\* A cancelled job is not in repeated_set_, and never comes back to it.
CancelInv ==
    /\ \A j \in Jobs \ made : ranAtCancel[j] = {} /\ j \notin repeated_set
    /\ \A j \in Jobs : j.kind = "delayed" => ranAtCancel[j] = {} /\ j \notin repeated_set
    /\ \A p \in Threads :
          pc[p] \in Early => ranAtCancel[job[p]] = {} /\ job[p] \notin repeated_set
    /\ \A j \in Jobs : \A n \in ranAtCancel[j] :
          /\ j \notin repeated_set
          /\ ran[j] <= n + 1
          /\ \A p \in Threads : job[p] = j /\ pc[p] = "run" => ran[j] <= n

\* When a job may run is not before the time of its entry, or of the push that
\* will make it, and has come when a thread is about to run it.
DueInv ==
    /\ \A e \in timer_queue : earliest[e.job] <= e.time
    /\ \A p \in Threads :
          /\ pc[p] = "push" => earliest[job[p]] <= time[p]
          /\ pc[p] = "stamp" \/ (pc[p] \in Early /\ job[p].kind = "delayed")
                => earliest[job[p]] <= now + Delta(job[p])
          /\ pc[p] \in {"repeat", "run"} \/ (pc[p] \in Early /\ job[p].kind = "repeated")
                => earliest[job[p]] < now + Micro

\* A job is never copied: what is pushed is given up by its thread, what is
\* popped leaves the queue.
LEMMA CopyStep ==
    ASSUME BaseInv, OneCopy, [Next]_vars PROVE OneCopy'
<1> USE DEF BaseInv, PlaceInv, Rest, Early, OneCopy, TypeOK, vars, poolVars, startVars, queueVars,
      localVars, history, Goto, Over, Home, Threads
<1>1. ASSUME NEW tag \in Tags, NewTaskExecutor(tag) PROVE OneCopy'
  BY <1>1 DEF NewTaskExecutor
<1>2. ASSUME NEW c \in Clients, StoreRunning(c) PROVE OneCopy'
  BY <1>2 DEF StoreRunning
<1>3. ASSUME NEW c \in Clients, NEW l \in Loops, StartExecutor(c, l) PROVE OneCopy'
  BY <1>3 DEF StartExecutor
<1>4. ASSUME NEW c \in Clients, AddRun(c) PROVE OneCopy'
  BY <1>4 DEF AddRun
<1>5. ASSUME NEW c \in Clients, Register(c) PROVE OneCopy'
  BY <1>5 DEF Register
<1>6. ASSUME NEW c \in Clients, NEW j \in Jobs, Call(c, j) PROVE OneCopy'
  BY <1>6 DEF Call
<1>7. ASSUME NEW p \in Threads, RepeatEnds(p) PROVE OneCopy'
  BY <1>7, JobFacts DEF RepeatEnds, NoneLeft
<1>8. ASSUME NEW p \in Threads, RepeatChecks(p) PROVE OneCopy'
  BY <1>8, JobFacts DEF RepeatChecks, NoneLeft, StillWanted
<1>9. ASSUME NEW p \in Threads, RunTask(p) PROVE OneCopy'
  BY <1>9, JobFacts DEF RunTask
<1>10. ASSUME NEW p \in Threads, TaskThrows(p) PROVE OneCopy'
  BY <1>10, JobFacts DEF TaskThrows
<1>11. ASSUME NEW p \in Threads, Stamp(p) PROVE OneCopy'
  BY <1>11 DEF Stamp, Counted
<1>12. ASSUME NEW p \in Threads, Push(p) PROVE OneCopy'
  BY <1>12, JobFacts DEF Push, Notified, Waits, Entries
<1>13. ASSUME NEW j \in Jobs, CancelRepeatedTask(j) PROVE OneCopy'
  BY <1>13 DEF CancelRepeatedTask
<1>14. ASSUME NEW l \in Loops, EnterRun(l) PROVE OneCopy'
  BY <1>14 DEF EnterRun
<1>15. ASSUME NEW l \in Loops, LeavePool(l) PROVE OneCopy'
  BY <1>15 DEF LeavePool
<1>16. ASSUME NEW l \in Loops, WaitForWork(l) PROVE OneCopy'
  BY <1>16 DEF WaitForWork
<1>17. ASSUME NEW l \in Loops, LeaveRun(l) PROVE OneCopy'
  BY <1>17 DEF LeaveRun, Stopped
<1>18. ASSUME NEW l \in Loops, TimeOut(l) PROVE OneCopy'
  BY <1>18 DEF TimeOut, Wake
<1>19. ASSUME NEW l \in Loops, NEW e \in timer_queue, WaitForTop(l, e) PROVE OneCopy'
  BY <1>19 DEF WaitForTop, Entries, IsTop
<1>20. ASSUME NEW l \in Loops, NEW e \in timer_queue, PopDue(l, e) PROVE OneCopy'
  BY <1>20 DEF PopDue, Pop, Entries
<1>21. ASSUME NEW l \in Loops, SpuriousWake(l) PROVE OneCopy'
  BY <1>21 DEF SpuriousWake, Waits, Wake
<1>26. ASSUME NEW c \in Clients, NotifyRun(c) PROVE OneCopy'
  BY <1>26 DEF NotifyRun, Woken
<1>27. ASSUME NEW l \in Loops, PoolWaits(l) PROVE OneCopy'
  BY <1>27 DEF PoolWaits
<1>28. ASSUME NEW l \in Loops, PoolBlocks(l) PROVE OneCopy'
  BY <1>28 DEF PoolBlocks
<1>29. ASSUME NEW l \in Loops, PoolSpuriousWake(l) PROVE OneCopy'
  BY <1>29 DEF PoolSpuriousWake
<1>22. CASE Tick
  BY <1>22 DEF Tick
<1>23. CASE StopStore \/ StopStep
  BY <1>23 DEF StopStore, StopStep, StopExecutor,
         StopExecutorNotify, JoinLoops, StopNotify, Woken, Vectors, Notified, Waits
<1>24. CASE UNCHANGED vars
  BY <1>24
<1>25. QED BY <1>1, <1>2, <1>3, <1>4, <1>5, <1>6, <1>7, <1>8, <1>9, <1>10, <1>11, <1>12,
      <1>13, <1>14, <1>15, <1>16, <1>17, <1>18, <1>19, <1>20, <1>21, <1>22, <1>23, <1>24,
      <1>26, <1>27, <1>28, <1>29 DEF Next, ClientStep, LoopStep, PostStep, Threads

\* A push wakes every sleeper, and a sleeper goes to sleep for the top.
LEMMA SleepStep ==
    ASSUME BaseInv, SleepsForTop, [Next]_vars PROVE SleepsForTop'
<1> USE DEF BaseInv, PlaceInv, SleepsForTop, Waits, TypeOK, vars, poolVars, startVars, queueVars,
      localVars, history, Goto, Over, Home, Threads
<1>1. ASSUME NEW tag \in Tags, NewTaskExecutor(tag) PROVE SleepsForTop'
  BY <1>1 DEF NewTaskExecutor
<1>2. ASSUME NEW c \in Clients, StoreRunning(c) PROVE SleepsForTop'
  BY <1>2 DEF StoreRunning
<1>3. ASSUME NEW c \in Clients, NEW l \in Loops, StartExecutor(c, l) PROVE SleepsForTop'
  BY <1>3 DEF StartExecutor
<1>4. ASSUME NEW c \in Clients, AddRun(c) PROVE SleepsForTop'
  BY <1>4 DEF AddRun
<1>5. ASSUME NEW c \in Clients, Register(c) PROVE SleepsForTop'
  BY <1>5 DEF Register
<1>6. ASSUME NEW c \in Clients, NEW j \in Jobs, Call(c, j) PROVE SleepsForTop'
  BY <1>6 DEF Call
<1>7. ASSUME NEW p \in Threads, RepeatEnds(p) PROVE SleepsForTop'
  BY <1>7 DEF RepeatEnds, NoneLeft
<1>8. ASSUME NEW p \in Threads, RepeatChecks(p) PROVE SleepsForTop'
  BY <1>8 DEF RepeatChecks, NoneLeft, StillWanted
<1>9. ASSUME NEW p \in Threads, RunTask(p) PROVE SleepsForTop'
  BY <1>9 DEF RunTask
<1>10. ASSUME NEW p \in Threads, TaskThrows(p) PROVE SleepsForTop'
  BY <1>10 DEF TaskThrows
<1>11. ASSUME NEW p \in Threads, Stamp(p) PROVE SleepsForTop'
  BY <1>11 DEF Stamp, Counted
<1>12. ASSUME NEW p \in Threads, Push(p) PROVE SleepsForTop'
  BY <1>12 DEF Push, Notified, Waits, Entries
<1>13. ASSUME NEW j \in Jobs, CancelRepeatedTask(j) PROVE SleepsForTop'
  BY <1>13 DEF CancelRepeatedTask
<1>14. ASSUME NEW l \in Loops, EnterRun(l) PROVE SleepsForTop'
  BY <1>14 DEF EnterRun
<1>15. ASSUME NEW l \in Loops, LeavePool(l) PROVE SleepsForTop'
  BY <1>15 DEF LeavePool
<1>16. ASSUME NEW l \in Loops, WaitForWork(l) PROVE SleepsForTop'
  BY <1>16 DEF WaitForWork
<1>17. ASSUME NEW l \in Loops, LeaveRun(l) PROVE SleepsForTop'
  BY <1>17 DEF LeaveRun, Stopped
<1>18. ASSUME NEW l \in Loops, TimeOut(l) PROVE SleepsForTop'
  BY <1>18 DEF TimeOut, Wake
<1>19. ASSUME NEW l \in Loops, NEW e \in timer_queue, WaitForTop(l, e) PROVE SleepsForTop'
  BY <1>19 DEF WaitForTop, Entries, IsTop
<1>20. ASSUME NEW l \in Loops, NEW e \in timer_queue, PopDue(l, e) PROVE SleepsForTop'
  BY <1>20 DEF PopDue, Pop, Entries
<1>21. ASSUME NEW l \in Loops, SpuriousWake(l) PROVE SleepsForTop'
  BY <1>21 DEF SpuriousWake, Waits, Wake
<1>26. ASSUME NEW c \in Clients, NotifyRun(c) PROVE SleepsForTop'
  BY <1>26 DEF NotifyRun, Woken
<1>27. ASSUME NEW l \in Loops, PoolWaits(l) PROVE SleepsForTop'
  BY <1>27 DEF PoolWaits
<1>28. ASSUME NEW l \in Loops, PoolBlocks(l) PROVE SleepsForTop'
  BY <1>28 DEF PoolBlocks
<1>29. ASSUME NEW l \in Loops, PoolSpuriousWake(l) PROVE SleepsForTop'
  BY <1>29 DEF PoolSpuriousWake
<1>22. CASE Tick
  BY <1>22 DEF Tick
<1>23. CASE StopStore \/ StopStep
  BY <1>23 DEF StopStore, StopStep, StopExecutor,
         StopExecutorNotify, JoinLoops, StopNotify, Woken, Vectors, Notified, Waits
<1>24. CASE UNCHANGED vars
  BY <1>24
<1>25. QED BY <1>1, <1>2, <1>3, <1>4, <1>5, <1>6, <1>7, <1>8, <1>9, <1>10, <1>11, <1>12,
      <1>13, <1>14, <1>15, <1>16, <1>17, <1>18, <1>19, <1>20, <1>21, <1>22, <1>23, <1>24,
      <1>26, <1>27, <1>28, <1>29 DEF Next, ClientStep, LoopStep, PostStep, Threads

\* Runs made and runs owed add up.
LEMMA CountStep ==
    ASSUME BaseInv, OneCopy, CountInv, [Next]_vars PROVE CountInv'
<1> USE DEF BaseInv, PlaceInv, LeftInv, Rest, Early, Busy, OneCopy, CountInv, Owed,
      TypeOK, vars, poolVars, startVars, queueVars, localVars, history, Goto, Over, Home, Threads
<1>1. ASSUME NEW tag \in Tags, NewTaskExecutor(tag) PROVE CountInv'
  BY <1>1 DEF NewTaskExecutor
<1>2. ASSUME NEW c \in Clients, StoreRunning(c) PROVE CountInv'
  BY <1>2 DEF StoreRunning
<1>3. ASSUME NEW c \in Clients, NEW l \in Loops, StartExecutor(c, l) PROVE CountInv'
  BY <1>3 DEF StartExecutor
<1>4. ASSUME NEW c \in Clients, AddRun(c) PROVE CountInv'
  BY <1>4 DEF AddRun
<1>5. ASSUME NEW c \in Clients, Register(c) PROVE CountInv'
  BY <1>5 DEF Register
<1>6. ASSUME NEW c \in Clients, NEW j \in Jobs, Call(c, j) PROVE CountInv'
  BY <1>6, JobFacts DEF Call
<1>7. ASSUME NEW p \in Threads, RepeatEnds(p) PROVE CountInv'
  BY <1>7 DEF RepeatEnds, NoneLeft
<1>8. ASSUME NEW p \in Threads, RepeatChecks(p) PROVE CountInv'
  BY <1>8 DEF RepeatChecks, NoneLeft, StillWanted
<1>9. ASSUME NEW p \in Threads, RunTask(p) PROVE CountInv'
  <2>1. job[p] \in Jobs /\ job[p] \in made
    BY <1>9, HasJob DEF RunTask, Rest
  <2>2. /\ \A q \in Threads : q # p => job[q] # job[p]
        /\ \A e \in timer_queue : e.job # job[p]
    BY <2>1, JobFacts DEF OneCopy
  <2>3. /\ ran' = [ran EXCEPT ![job[p]] = ran[job[p]] + 1]
        /\ ran[job[p]] \in Nat
        /\ \A j \in Jobs : j # job[p] => ran'[j] = ran[j]
        /\ ran'[job[p]] = ran[job[p]] + 1
    BY <1>9, <2>1 DEF RunTask
  <2>4. ran[job[p]] + Owed(job[p], left[p]) <= job[p].total
    BY <1>9 DEF RunTask
  <2>5. \A j \in Jobs : ran'[j] <= j.total
    <3>1. Owed(job[p], left[p]) >= 1
      BY <1>9, <2>1, JobFacts DEF RunTask, Kinds
    <3>2. ran'[job[p]] <= job[p].total
      BY <2>1, <2>3, <2>4, <3>1, JobFacts
    <3>3. QED BY <2>3, <3>2
  <2>6. \A e \in timer_queue' : ran'[e.job] + Owed(e.job, e.left) <= e.job.total
    BY <1>9, <2>1, <2>2, <2>3 DEF RunTask, Entries
  <2>7. \A q \in Threads : q # p => pc'[q] = pc[q] /\ job'[q] = job[q] /\ left'[q] = left[q]
    BY <1>9 DEF RunTask
  <2>8. ASSUME NEW q \in Threads, q # p, pc'[q] \in Early \cup Busy
        PROVE  ran'[job'[q]] = ran[job[q]]
    BY <2>2, <2>3, <2>7, <2>8, HasJob
  <2>9. pc'[p] = "stamp" => ran'[job'[p]] + left'[p] <= job'[p].total + 1
    BY <1>9, <2>1, <2>3, <2>4, JobFacts DEF RunTask
  <2>10. pc'[p] \in {"idle", "look", "stamp"}
    BY <1>9 DEF RunTask
  <2>11. \A j \in Jobs \ made' : ran'[j] = 0
    BY <1>9, <2>1, <2>3 DEF RunTask
  <2>12. QED BY <2>5, <2>6, <2>7, <2>8, <2>9, <2>10, <2>11
<1>10. ASSUME NEW p \in Threads, TaskThrows(p) PROVE CountInv'
  BY <1>10 DEF TaskThrows
<1>11. ASSUME NEW p \in Threads, Stamp(p) PROVE CountInv'
  BY <1>11, JobFacts DEF Stamp, Counted
<1>12. ASSUME NEW p \in Threads, Push(p) PROVE CountInv'
  BY <1>12 DEF Push, Notified, Waits, Entries
<1>13. ASSUME NEW j \in Jobs, CancelRepeatedTask(j) PROVE CountInv'
  BY <1>13 DEF CancelRepeatedTask
<1>14. ASSUME NEW l \in Loops, EnterRun(l) PROVE CountInv'
  BY <1>14 DEF EnterRun
<1>15. ASSUME NEW l \in Loops, LeavePool(l) PROVE CountInv'
  BY <1>15 DEF LeavePool
<1>16. ASSUME NEW l \in Loops, WaitForWork(l) PROVE CountInv'
  BY <1>16 DEF WaitForWork
<1>17. ASSUME NEW l \in Loops, LeaveRun(l) PROVE CountInv'
  BY <1>17 DEF LeaveRun, Stopped
<1>18. ASSUME NEW l \in Loops, TimeOut(l) PROVE CountInv'
  BY <1>18 DEF TimeOut, Wake
<1>19. ASSUME NEW l \in Loops, NEW e \in timer_queue, WaitForTop(l, e) PROVE CountInv'
  BY <1>19 DEF WaitForTop, Entries, IsTop
<1>20. ASSUME NEW l \in Loops, NEW e \in timer_queue, PopDue(l, e) PROVE CountInv'
  BY <1>20 DEF PopDue, Pop, Entries
<1>21. ASSUME NEW l \in Loops, SpuriousWake(l) PROVE CountInv'
  BY <1>21 DEF SpuriousWake, Waits, Wake
<1>26. ASSUME NEW c \in Clients, NotifyRun(c) PROVE CountInv'
  BY <1>26 DEF NotifyRun, Woken
<1>27. ASSUME NEW l \in Loops, PoolWaits(l) PROVE CountInv'
  BY <1>27 DEF PoolWaits
<1>28. ASSUME NEW l \in Loops, PoolBlocks(l) PROVE CountInv'
  BY <1>28 DEF PoolBlocks
<1>29. ASSUME NEW l \in Loops, PoolSpuriousWake(l) PROVE CountInv'
  BY <1>29 DEF PoolSpuriousWake
<1>22. CASE Tick
  BY <1>22 DEF Tick
<1>23. CASE StopStore \/ StopStep
  BY <1>23 DEF StopStore, StopStep, StopExecutor,
         StopExecutorNotify, JoinLoops, StopNotify, Woken, Vectors, Notified, Waits
<1>24. CASE UNCHANGED vars
  BY <1>24
<1>25. QED BY <1>1, <1>2, <1>3, <1>4, <1>5, <1>6, <1>7, <1>8, <1>9, <1>10, <1>11, <1>12,
      <1>13, <1>14, <1>15, <1>16, <1>17, <1>18, <1>19, <1>20, <1>21, <1>22, <1>23, <1>24,
      <1>26, <1>27, <1>28, <1>29 DEF Next, ClientStep, LoopStep, PostStep, Threads

\* After a cancellation one run is possible, by a thread that has checked.
LEMMA CancelStep ==
    ASSUME BaseInv, OneCopy, CancelInv, [Next]_vars PROVE CancelInv'
<1> USE DEF BaseInv, PlaceInv, Rest, Early, Busy, OneCopy, CancelInv, TypeOK, vars,
      poolVars, startVars, queueVars, localVars, history, Goto, Over, Home, Threads
<1>1. ASSUME NEW tag \in Tags, NewTaskExecutor(tag) PROVE CancelInv'
  BY <1>1 DEF NewTaskExecutor
<1>2. ASSUME NEW c \in Clients, StoreRunning(c) PROVE CancelInv'
  BY <1>2 DEF StoreRunning
<1>3. ASSUME NEW c \in Clients, NEW l \in Loops, StartExecutor(c, l) PROVE CancelInv'
  BY <1>3 DEF StartExecutor
<1>4. ASSUME NEW c \in Clients, AddRun(c) PROVE CancelInv'
  BY <1>4 DEF AddRun
<1>5. ASSUME NEW c \in Clients, Register(c) PROVE CancelInv'
  BY <1>5 DEF Register
<1>6. ASSUME NEW c \in Clients, NEW j \in Jobs, Call(c, j) PROVE CancelInv'
  BY <1>6 DEF Call
<1>7. ASSUME NEW p \in Threads, RepeatEnds(p) PROVE CancelInv'
  BY <1>7 DEF RepeatEnds, NoneLeft
<1>8. ASSUME NEW p \in Threads, RepeatChecks(p) PROVE CancelInv'
  BY <1>8 DEF RepeatChecks, NoneLeft, StillWanted
<1>9. ASSUME NEW p \in Threads, RunTask(p) PROVE CancelInv'
  <2>1. job[p] \in Jobs /\ job[p] \in made
    BY <1>9, HasJob DEF RunTask, Rest
  <2>2. /\ \A q \in Threads : q # p => job[q] # job[p]
        /\ \A e \in timer_queue : e.job # job[p]
    BY <2>1, JobFacts DEF OneCopy
  <2>3. /\ ran' = [ran EXCEPT ![job[p]] = ran[job[p]] + 1]
        /\ ran[job[p]] \in Nat
        /\ \A j \in Jobs : j # job[p] => ran'[j] = ran[j]
        /\ ran'[job[p]] = ran[job[p]] + 1
    BY <1>9, <2>1 DEF RunTask
  <2>4. \A q \in Threads : q # p => pc'[q] = pc[q] /\ job'[q] = job[q]
    BY <1>9 DEF RunTask
  <2>5. pc'[p] \in {"idle", "look", "stamp"}
    BY <1>9 DEF RunTask
  <2>6. ASSUME NEW j \in Jobs, NEW n \in ranAtCancel'[j]
        PROVE  /\ j \notin repeated_set'
               /\ ran'[j] <= n + 1
               /\ \A q \in Threads : job'[q] = j /\ pc'[q] = "run" => ran'[j] <= n
    <3>1. n \in ranAtCancel[j] /\ n \in Nat /\ j \notin repeated_set
      BY <1>9, <2>6 DEF RunTask
    <3>2. j = job[p] => ran[j] <= n
      BY <1>9, <3>1 DEF RunTask
    <3>3. QED BY <1>9, <2>1, <2>2, <2>3, <2>4, <2>5, <3>1, <3>2 DEF RunTask
  <2>7. ASSUME NEW q \in Threads, pc'[q] \in Early
        PROVE  ranAtCancel'[job'[q]] = {} /\ job'[q] \notin repeated_set'
    BY <1>9, <2>4, <2>5, <2>7 DEF RunTask
  <2>8. \A j \in Jobs \ made' : ranAtCancel'[j] = {} /\ j \notin repeated_set'
    BY <1>9 DEF RunTask
  <2>9. \A j \in Jobs : j.kind = "delayed" => ranAtCancel'[j] = {} /\ j \notin repeated_set'
    BY <1>9 DEF RunTask
  <2>10. QED BY <2>6, <2>7, <2>8, <2>9
<1>10. ASSUME NEW p \in Threads, TaskThrows(p) PROVE CancelInv'
  BY <1>10 DEF TaskThrows
<1>11. ASSUME NEW p \in Threads, Stamp(p) PROVE CancelInv'
  BY <1>11 DEF Stamp, Counted
<1>12. ASSUME NEW p \in Threads, Push(p) PROVE CancelInv'
  BY <1>12 DEF Push, Notified, Waits, Entries
<1>13. ASSUME NEW j \in Jobs, CancelRepeatedTask(j) PROVE CancelInv'
  BY <1>13 DEF CancelRepeatedTask
<1>14. ASSUME NEW l \in Loops, EnterRun(l) PROVE CancelInv'
  BY <1>14 DEF EnterRun
<1>15. ASSUME NEW l \in Loops, LeavePool(l) PROVE CancelInv'
  BY <1>15 DEF LeavePool
<1>16. ASSUME NEW l \in Loops, WaitForWork(l) PROVE CancelInv'
  BY <1>16 DEF WaitForWork
<1>17. ASSUME NEW l \in Loops, LeaveRun(l) PROVE CancelInv'
  BY <1>17 DEF LeaveRun, Stopped
<1>18. ASSUME NEW l \in Loops, TimeOut(l) PROVE CancelInv'
  BY <1>18 DEF TimeOut, Wake
<1>19. ASSUME NEW l \in Loops, NEW e \in timer_queue, WaitForTop(l, e) PROVE CancelInv'
  BY <1>19 DEF WaitForTop, Entries, IsTop
<1>20. ASSUME NEW l \in Loops, NEW e \in timer_queue, PopDue(l, e) PROVE CancelInv'
  <2>1. e.job \in Jobs /\ (e.job.kind # "repeated" => ranAtCancel[e.job] = {})
    BY <1>20, JobFacts DEF Entries, Kinds
  <2>2. /\ job' = [job EXCEPT ![l] = e.job]
        /\ pc' = [pc EXCEPT ![l] = IF e.job.kind = "repeated" THEN "repeat" ELSE "run"]
        /\ UNCHANGED <<ran, ranAtCancel, repeated_set, made>>
    BY <1>20 DEF PopDue
  <2>3. \A j \in Jobs : \A n \in ranAtCancel[j] : j \notin repeated_set /\ ran[j] <= n + 1
    OBVIOUS
  <2>4. ASSUME NEW j \in Jobs, NEW n \in ranAtCancel[j], NEW p \in Threads,
               job'[p] = j, pc'[p] = "run"
        PROVE  ran[j] <= n
    BY <2>1, <2>2, <2>4
  <2>5. \A p \in Threads : pc'[p] \in Early => pc[p] \in Early /\ job'[p] = job[p]
    BY <2>2
  <2>6. QED BY <2>2, <2>3, <2>4, <2>5
<1>21. ASSUME NEW l \in Loops, SpuriousWake(l) PROVE CancelInv'
  BY <1>21 DEF SpuriousWake, Waits, Wake
<1>26. ASSUME NEW c \in Clients, NotifyRun(c) PROVE CancelInv'
  BY <1>26 DEF NotifyRun, Woken
<1>27. ASSUME NEW l \in Loops, PoolWaits(l) PROVE CancelInv'
  BY <1>27 DEF PoolWaits
<1>28. ASSUME NEW l \in Loops, PoolBlocks(l) PROVE CancelInv'
  BY <1>28 DEF PoolBlocks
<1>29. ASSUME NEW l \in Loops, PoolSpuriousWake(l) PROVE CancelInv'
  BY <1>29 DEF PoolSpuriousWake
<1>22. CASE Tick
  BY <1>22 DEF Tick
<1>23. CASE StopStore \/ StopStep
  BY <1>23 DEF StopStore, StopStep, StopExecutor,
         StopExecutorNotify, JoinLoops, StopNotify, Woken, Vectors, Notified, Waits
<1>24. CASE UNCHANGED vars
  BY <1>24
<1>25. QED BY <1>1, <1>2, <1>3, <1>4, <1>5, <1>6, <1>7, <1>8, <1>9, <1>10, <1>11, <1>12,
      <1>13, <1>14, <1>15, <1>16, <1>17, <1>18, <1>19, <1>20, <1>21, <1>22, <1>23, <1>24,
      <1>26, <1>27, <1>28, <1>29 DEF Next, ClientStep, LoopStep, PostStep, Threads

\* No entry is due before its job may run.
LEMMA DueStep ==
    ASSUME BaseInv, OneCopy, DueInv, [Next]_vars PROVE DueInv'
<1> USE DEF BaseInv, PlaceInv, Rest, Early, Busy, OneCopy, DueInv, TypeOK, vars,
      poolVars, startVars, queueVars, localVars, history, Goto, Over, Home, Threads
<1>1. ASSUME NEW tag \in Tags, NewTaskExecutor(tag) PROVE DueInv'
  BY <1>1 DEF NewTaskExecutor
<1>2. ASSUME NEW c \in Clients, StoreRunning(c) PROVE DueInv'
  BY <1>2 DEF StoreRunning
<1>3. ASSUME NEW c \in Clients, NEW l \in Loops, StartExecutor(c, l) PROVE DueInv'
  BY <1>3 DEF StartExecutor
<1>4. ASSUME NEW c \in Clients, AddRun(c) PROVE DueInv'
  BY <1>4 DEF AddRun
<1>5. ASSUME NEW c \in Clients, Register(c) PROVE DueInv'
  BY <1>5 DEF Register
<1>6. ASSUME NEW c \in Clients, NEW j \in Jobs, Call(c, j) PROVE DueInv'
  BY <1>6, TimerAssumption, JobFacts, DeltaType DEF Call
<1>7. ASSUME NEW p \in Threads, RepeatEnds(p) PROVE DueInv'
  BY <1>7 DEF RepeatEnds, NoneLeft
<1>8. ASSUME NEW p \in Threads, RepeatChecks(p) PROVE DueInv'
  BY <1>8 DEF RepeatChecks, NoneLeft, StillWanted
<1>9. ASSUME NEW p \in Threads, RunTask(p) PROVE DueInv'
  BY <1>9, JobFacts, DeltaType DEF RunTask
<1>10. ASSUME NEW p \in Threads, TaskThrows(p) PROVE DueInv'
  BY <1>10 DEF TaskThrows
<1>11. ASSUME NEW p \in Threads, Stamp(p) PROVE DueInv'
  BY <1>11 DEF Stamp, Counted
<1>12. ASSUME NEW p \in Threads, Push(p) PROVE DueInv'
  BY <1>12 DEF Push, Notified, Waits, Entries
<1>13. ASSUME NEW j \in Jobs, CancelRepeatedTask(j) PROVE DueInv'
  BY <1>13 DEF CancelRepeatedTask
<1>14. ASSUME NEW l \in Loops, EnterRun(l) PROVE DueInv'
  BY <1>14 DEF EnterRun
<1>15. ASSUME NEW l \in Loops, LeavePool(l) PROVE DueInv'
  BY <1>15 DEF LeavePool
<1>16. ASSUME NEW l \in Loops, WaitForWork(l) PROVE DueInv'
  BY <1>16 DEF WaitForWork
<1>17. ASSUME NEW l \in Loops, LeaveRun(l) PROVE DueInv'
  BY <1>17 DEF LeaveRun, Stopped
<1>18. ASSUME NEW l \in Loops, TimeOut(l) PROVE DueInv'
  BY <1>18 DEF TimeOut, Wake
<1>19. ASSUME NEW l \in Loops, NEW e \in timer_queue, WaitForTop(l, e) PROVE DueInv'
  BY <1>19 DEF WaitForTop, Entries, IsTop
<1>20. ASSUME NEW l \in Loops, NEW e \in timer_queue, PopDue(l, e) PROVE DueInv'
  BY <1>20, TimerAssumption, JobFacts, DeltaType DEF PopDue, Pop, Entries, IsDue
<1>21. ASSUME NEW l \in Loops, SpuriousWake(l) PROVE DueInv'
  BY <1>21 DEF SpuriousWake, Waits, Wake
<1>26. ASSUME NEW c \in Clients, NotifyRun(c) PROVE DueInv'
  BY <1>26 DEF NotifyRun, Woken
<1>27. ASSUME NEW l \in Loops, PoolWaits(l) PROVE DueInv'
  BY <1>27 DEF PoolWaits
<1>28. ASSUME NEW l \in Loops, PoolBlocks(l) PROVE DueInv'
  BY <1>28 DEF PoolBlocks
<1>29. ASSUME NEW l \in Loops, PoolSpuriousWake(l) PROVE DueInv'
  BY <1>29 DEF PoolSpuriousWake
<1>22. CASE Tick
  BY <1>22, JobFacts, DeltaType, TimerAssumption DEF Tick
<1>23. CASE StopStore \/ StopStep
  BY <1>23 DEF StopStore, StopStep, StopExecutor,
         StopExecutorNotify, JoinLoops, StopNotify, Woken, Vectors, Notified, Waits
<1>24. CASE UNCHANGED vars
  BY <1>24
<1>25. QED BY <1>1, <1>2, <1>3, <1>4, <1>5, <1>6, <1>7, <1>8, <1>9, <1>10, <1>11, <1>12,
      <1>13, <1>14, <1>15, <1>16, <1>17, <1>18, <1>19, <1>20, <1>21, <1>22, <1>23, <1>24,
      <1>26, <1>27, <1>28, <1>29 DEF Next, ClientStep, LoopStep, PostStep, Threads

-----------------------------------------------------------------------------

IInv == BaseInv /\ OneCopy /\ SleepsForTop /\ CountInv /\ CancelInv /\ DueInv

LEMMA InitIInv == Init => IInv
<1> SUFFICES ASSUME Init PROVE IInv
  OBVIOUS
<1>1. BaseInv
  BY InitBase
<1>2. OneCopy /\ SleepsForTop
  BY DEF Init, OneCopy, SleepsForTop
<1>3. CountInv
  BY JobFacts DEF Init, CountInv, Early, Threads
<1>4. CancelInv
  BY DEF Init, CancelInv, Early, Threads
<1>5. DueInv
  BY DEF Init, DueInv, Early, Threads
<1>6. QED BY <1>1, <1>2, <1>3, <1>4, <1>5 DEF IInv

LEMMA IInvStep == IInv /\ [Next]_vars => IInv'
<1> SUFFICES ASSUME IInv, [Next]_vars PROVE IInv'
  OBVIOUS
<1>1. BaseInv'
  BY TypeStep, PlaceStep, LeftStep DEF IInv, BaseInv
<1>2. OneCopy' /\ SleepsForTop'
  BY CopyStep, SleepStep DEF IInv
<1>3. CountInv' /\ CancelInv' /\ DueInv'
  BY CountStep, CancelStep, DueStep DEF IInv
<1>4. QED BY <1>1, <1>2, <1>3 DEF IInv

LEMMA Invariance == Spec => []IInv
BY InitIInv, IInvStep, PTL DEF Spec

\* The timer's variables keep their types; repeat_num never goes below zero.
THEOREM TypeCorrect == Spec => []TypeOK
<1>1. IInv => TypeOK
  BY DEF IInv, BaseInv
<1>2. QED BY <1>1, Invariance, PTL

\* However many callers start the timer at the same time, and however many
\* loops it then has, no job is in two places (scheduler.cc 35-41, 51-76).
THEOREM NeverCopied == Spec => []OneCopy
<1>1. IInv => OneCopy
  BY DEF IInv
<1>2. QED BY <1>1, Invariance, PTL

\* No push is overlooked by a loop that sleeps or goes to sleep (scheduler.cc
\* 54-63 against 83-86 and 120-122).
THEOREM NeverOversleeps == Spec => []SleepsForTop
<1>1. IInv => SleepsForTop
  BY DEF IInv
<1>2. QED BY <1>1, Invariance, PTL

\* A job runs as often as asked at most, and at most once after its
\* cancellation (scheduler.cc 99-125, 133-136).
THEOREM CountedRuns == Spec => []RunsCounted
<1>1. IInv => RunsCounted
  BY DEF IInv, BaseInv, TypeOK, CountInv, CancelInv, RunsCounted
<1>2. QED BY <1>1, Invariance, PTL

\* Only RunTask makes a job run, and it finds the time of the job come.
LEMMA RunsWhenDue ==
    ASSUME IInv, [Next]_vars, NEW j \in Jobs, ran'[j] # ran[j]
    PROVE  earliest[j] < now + Micro
<1> USE DEF vars, history, poolVars, poolVars, startVars, queueVars, localVars
<1>1. PICK p \in Threads : RunTask(p)
  BY ZenonT(30) DEF Next, ClientStep, LoopStep, PostStep, StopStep, Threads, NewTaskExecutor,
         StoreRunning, StartExecutor, AddRun, Register, Call, RepeatEnds, RepeatChecks,
         TaskThrows, Stamp, Push, CancelRepeatedTask, EnterRun, LeavePool, WaitForWork,
         LeaveRun, TimeOut, WaitForTop, PopDue, SpuriousWake, Wake, Tick, StopStore,
         NotifyRun, PoolWaits, PoolBlocks, PoolSpuriousWake, StopExecutor,
         StopExecutorNotify, JoinLoops, StopNotify, Woken, Vectors, Notified, Waits
<1>2. j = job[p]
  BY <1>1 DEF RunTask, IInv, BaseInv, TypeOK
<1>3. QED BY <1>1, <1>2 DEF RunTask, IInv, DueInv

\* No job runs a microsecond or more before its time (scheduler.cc 60-65).
THEOREM NotBeforeTime == Spec => NeverEarly
<1>1. IInv /\ [Next]_vars => [\A j \in Jobs : ran'[j] # ran[j] => earliest[j] < now +
      Micro]_vars
  BY RunsWhenDue
<1>2. QED BY <1>1, Invariance, PTL DEF Spec, NeverEarly
=============================================================================
