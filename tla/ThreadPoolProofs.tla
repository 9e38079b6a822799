-------------------------- MODULE ThreadPoolProofs --------------------------
(* Proofs about ThreadPool for any numbers of threads, clients and tasks.     *)
EXTENDS ThreadPool, Integers, SequenceTheorems, TLAPS

-----------------------------------------------------------------------------
(* Facts about queues as sequences                                           *)

\* Appending adds one element.
LEMMA ElemsAppend ==
    ASSUME NEW S, NEW s \in Seq(S), NEW e \in S
    PROVE  Elems(Append(s, e)) = Elems(s) \cup {e}
<1>1. /\ Len(Append(s, e)) = Len(s) + 1 /\ Len(s) \in Nat
      /\ \A i \in 1 .. Len(s) : Append(s, e)[i] = s[i]
      /\ Append(s, e)[Len(s) + 1] = e
  OBVIOUS
<1>2. 1 .. Len(s) + 1 = (1 .. Len(s)) \cup {Len(s) + 1}
  BY <1>1
<1>3. QED BY <1>1, <1>2 DEF Elems

\* A sequence that is not empty has its head among its elements, and only
\* those elements besides that its tail has.
LEMMA ElemsHeadTail ==
    ASSUME NEW S, NEW s \in Seq(S), s # <<>>
    PROVE  Elems(s) = {Head(s)} \cup Elems(Tail(s))
<1>1. /\ Len(s) \in Nat /\ Len(s) >= 1
      /\ Len(Tail(s)) = Len(s) - 1
      /\ \A i \in 1 .. Len(s) - 1 : Tail(s)[i] = s[i + 1]
      /\ Head(s) = s[1]
  OBVIOUS
<1>2. Elems(s) \subseteq {Head(s)} \cup Elems(Tail(s))
  <2> SUFFICES ASSUME NEW i \in 1 .. Len(s), s[i] # Head(s)
               PROVE  s[i] \in Elems(Tail(s))
    BY DEF Elems
  <2>1. i - 1 \in 1 .. Len(Tail(s)) /\ Tail(s)[i - 1] = s[i]
    BY <1>1
  <2>2. QED BY <2>1 DEF Elems
<1>3. {Head(s)} \cup Elems(Tail(s)) \subseteq Elems(s)
  <2>1. Head(s) \in Elems(s)
    BY <1>1 DEF Elems
  <2>2. ASSUME NEW i \in 1 .. Len(Tail(s))
        PROVE  Tail(s)[i] \in Elems(s)
    <3>1. i + 1 \in 1 .. Len(s) /\ Tail(s)[i] = s[i + 1]
      BY <1>1
    <3>2. QED BY <3>1 DEF Elems
  <2>3. QED BY <2>1, <2>2 DEF Elems
<1>4. QED BY <1>2, <1>3

\* Moving the head of the right part to the end of the left part changes
\* nothing about the whole: a dispatch of a queue.
LEMMA MoveHead ==
    ASSUME NEW S, NEW s \in Seq(S), NEW q \in Seq(S), q # <<>>
    PROVE  Append(s, Head(q)) \o Tail(q) = s \o q
<1>1. /\ Head(q) \in S /\ Tail(q) \in Seq(S) /\ Len(q) \in Nat /\ Len(q) >= 1
      /\ Len(Tail(q)) = Len(q) - 1 /\ Head(q) = q[1]
      /\ \A i \in 1 .. Len(q) - 1 : Tail(q)[i] = q[i + 1]
  OBVIOUS
<1> DEFINE a == Append(s, Head(q))
<1>2. /\ a \in Seq(S) /\ Len(a) = Len(s) + 1 /\ Len(s) \in Nat
      /\ \A i \in 1 .. Len(s) : a[i] = s[i]
      /\ a[Len(s) + 1] = Head(q)
  BY <1>1
<1> HIDE DEF a
<1>3. /\ a \o Tail(q) \in Seq(S) /\ s \o q \in Seq(S)
      /\ Len(a \o Tail(q)) = Len(s) + Len(q)
      /\ Len(s \o q) = Len(s) + Len(q)
  BY <1>1, <1>2
<1>4. ASSUME NEW i \in 1 .. Len(s) + Len(q)
      PROVE  (a \o Tail(q))[i] = (s \o q)[i]
  <2>1. CASE i <= Len(s)
    BY <2>1, <1>1, <1>2, ConcatProperties
  <2>2. CASE i = Len(s) + 1
    <3>1. (a \o Tail(q))[i] = q[1]
      BY <2>2, <1>1, <1>2, ConcatProperties
    <3>2. (s \o q)[i] = q[1]
      BY <2>2, <1>1, <1>2, ConcatProperties
    <3>3. QED BY <3>1, <3>2
  <2>3. CASE i > Len(s) + 1
    <3>1. (a \o Tail(q))[i] = Tail(q)[i - (Len(s) + 1)]
      BY <2>3, <1>1, <1>2, ConcatProperties
    <3>2. (s \o q)[i] = q[i - Len(s)]
      BY <2>3, <1>1, <1>2, ConcatProperties
    <3>3. Tail(q)[i - (Len(s) + 1)] = q[i - Len(s)]
      BY <2>3, <1>1, <1>2
    <3>4. QED BY <3>1, <3>2, <3>3
  <2>4. QED BY <2>1, <2>2, <2>3, <1>2, <1>1
<1>5. a \o Tail(q) = s \o q
  BY <1>3, <1>4, SeqEqual
<1>6. QED BY <1>5 DEF a

\* Posting to a queue appends to the whole of what was posted.
LEMMA AppendToRight ==
    ASSUME NEW S, NEW s \in Seq(S), NEW q \in Seq(S), NEW e \in S
    PROVE  s \o Append(q, e) = Append(s \o q, e)
<1>1. <<e>> \in Seq(S) /\ s \o q \in Seq(S)
  OBVIOUS
<1>2. Append(q, e) = q \o <<e>> /\ Append(s \o q, e) = (s \o q) \o <<e>>
  BY <1>1, AppendIsConcat
<1>3. QED BY <1>1, <1>2, ConcatAssociative

-----------------------------------------------------------------------------

USE PoolAssumption

-----------------------------------------------------------------------------
(* The inductive invariant                                                    *)

\* mtx_ is held between two steps exactly by a worker inside cv_.wait.
MutexInv == \A w \in Workers : mtx = w <=> wpc[w] \in {"block", "chosen"}

\* thread_vector_ holds the threads that exist, once each, and a pool that is
\* idle and not running has none: Start never meets a thread of an earlier run.
ThreadInv ==
    /\ \A w \in Workers : wpc[w] # "absent" <=> w \in Elems(threads)
    /\ \A i, j \in 1 .. Len(threads) : threads[i] = threads[j] => i = j
    /\ opc = "adding" => is_running
    /\ opc \in {"notify", "join"} => ~is_running
    /\ opc = "idle" /\ ~is_running => threads = <<>>

\* A running worker has a task, and what was started and has not finished is
\* what the running workers have.
WorkInv ==
    /\ \A w \in Workers : wpc[w] = "run" => current[w] \in Tasks
    /\ Elems(started) = Elems(finished) \cup
                           {current[w] : w \in {x \in Workers : wpc[x] = "run"}}

IInv ==
    /\ TypeOK
    /\ MutexInv
    /\ ThreadInv
    /\ NoEmptyPop
    /\ InPostingOrder
    /\ WorkInv

-----------------------------------------------------------------------------

LEMMA InitIInv == Init => IInv
<1> SUFFICES ASSUME Init PROVE IInv
  OBVIOUS
<1> USE DEF Init
<1>1. TypeOK
  <2>1. <<>> \in Seq(Tasks) /\ <<>> \in Seq(Workers) /\ is_running \in BOOLEAN
    BY Zenon, EmptySeq
  <2>2. QED BY <2>1 DEF TypeOK, WorkerPCs
<1>2. MutexInv
  BY DEF MutexInv
<1>3. ThreadInv
  BY DEF ThreadInv, Elems
<1>4. NoEmptyPop
  BY DEF NoEmptyPop
<1>5. InPostingOrder
  BY DEF InPostingOrder
<1>6. WorkInv
  BY DEF WorkInv, Elems
<1>7. QED BY <1>1, <1>2, <1>3, <1>4, <1>5, <1>6 DEF IInv

LEMMA EvaluateIInv == ASSUME IInv, NEW w \in Workers, Evaluate(w) PROVE IInv'
<1> USE DEF IInv, Evaluate, ownerVars, callVars, history
<1>1. TypeOK'
  BY DEF TypeOK, WorkerPCs
<1>2. MutexInv'
  BY DEF MutexInv, TypeOK
<1>3. ThreadInv'
  BY DEF ThreadInv, TypeOK
<1>4. NoEmptyPop'
  BY DEF NoEmptyPop, MayProceed, TypeOK
<1>5. InPostingOrder'
  BY DEF InPostingOrder
<1>6. WorkInv'
  <2>1. \A x \in Workers : wpc'[x] = "run" <=> wpc[x] = "run"
    BY DEF TypeOK
  <2>2. QED BY <2>1 DEF WorkInv
<1>7. QED BY <1>1, <1>2, <1>3, <1>4, <1>5, <1>6

LEMMA BlockIInv == ASSUME IInv, NEW w \in Workers, Block(w) PROVE IInv'
<1> USE DEF IInv, Block, ownerVars, callVars, history
<1>1. TypeOK'
  BY DEF TypeOK, WorkerPCs
<1>2. MutexInv'
  BY DEF MutexInv, TypeOK
<1>3. ThreadInv'
  BY DEF ThreadInv, TypeOK
<1>4. NoEmptyPop'
  BY DEF NoEmptyPop, TypeOK
<1>5. InPostingOrder'
  BY DEF InPostingOrder
<1>6. WorkInv'
  <2>1. \A x \in Workers : wpc'[x] = "run" <=> wpc[x] = "run"
    BY DEF TypeOK
  <2>2. QED BY <2>1 DEF WorkInv
<1>7. QED BY <1>1, <1>2, <1>3, <1>4, <1>5, <1>6

LEMMA ExitIInv == ASSUME IInv, NEW w \in Workers, Exit(w) PROVE IInv'
<1> USE DEF IInv, Exit, ownerVars, callVars, history
<1>1. TypeOK'
  BY DEF TypeOK, WorkerPCs
<1>2. MutexInv'
  BY DEF MutexInv, TypeOK
<1>3. ThreadInv'
  BY DEF ThreadInv, TypeOK
<1>4. NoEmptyPop'
  BY DEF NoEmptyPop
<1>5. InPostingOrder'
  BY DEF InPostingOrder
<1>6. WorkInv'
  <2>1. \A x \in Workers : wpc'[x] = "run" <=> wpc[x] = "run"
    BY DEF TypeOK
  <2>2. QED BY <2>1 DEF WorkInv
<1>7. QED BY <1>1, <1>2, <1>3, <1>4, <1>5, <1>6

LEMMA TakeTaskIInv == ASSUME IInv, NEW w \in Workers, TakeTask(w) PROVE IInv'
<1> USE DEF IInv, TakeTask, Pop, ownerVars, callVars
<1>0. /\ queue # <<>> /\ queue \in Seq(Tasks) /\ started \in Seq(Tasks)
      /\ Head(queue) \in Tasks /\ Tail(queue) \in Seq(Tasks)
  BY DEF NoEmptyPop, TypeOK
<1>1. TypeOK'
  BY <1>0 DEF TypeOK, WorkerPCs
<1>2. MutexInv'
  BY DEF MutexInv, TypeOK
<1>3. ThreadInv'
  BY DEF ThreadInv, TypeOK
<1>4. NoEmptyPop'
  BY DEF NoEmptyPop, MutexInv, TypeOK
<1>5. InPostingOrder'
  BY <1>0, MoveHead DEF InPostingOrder
<1>6. WorkInv'
  <2>1. Elems(started') = Elems(started) \cup {Head(queue)}
    BY <1>0, ElemsAppend
  <2>2. current' = [current EXCEPT ![w] = Head(queue)] /\ wpc' = [wpc EXCEPT ![w] = "run"]
    OBVIOUS
  <2>3. wpc[w] = "chosen" /\ finished' = finished
    OBVIOUS
  <2>4. {current'[x] : x \in {y \in Workers : wpc'[y] = "run"}} =
            {current[x] : x \in {y \in Workers : wpc[y] = "run"}} \cup {Head(queue)}
    BY <2>2, <2>3 DEF TypeOK
  <2>5. \A x \in Workers : wpc'[x] = "run" => current'[x] \in Tasks
    BY <2>2, <1>0 DEF WorkInv, TypeOK
  <2>6. QED BY <2>1, <2>3, <2>4, <2>5 DEF WorkInv
<1>7. QED BY <1>1, <1>2, <1>3, <1>4, <1>5, <1>6

LEMMA FinishTaskIInv == ASSUME IInv, NEW w \in Workers, FinishTask(w) PROVE IInv'
<1> USE DEF IInv, FinishTask, Complete, poolVars, ownerVars, callVars
<1>0. current[w] \in Tasks /\ finished \in Seq(Tasks)
  BY DEF WorkInv, TypeOK
<1>1. TypeOK'
  BY <1>0 DEF TypeOK, WorkerPCs
<1>2. MutexInv'
  BY DEF MutexInv, TypeOK
<1>3. ThreadInv'
  BY DEF ThreadInv, TypeOK
<1>4. NoEmptyPop'
  BY DEF NoEmptyPop, TypeOK
<1>5. InPostingOrder'
  BY DEF InPostingOrder
<1>6. WorkInv'
  <2>1. Elems(finished') = Elems(finished) \cup {current[w]}
    BY <1>0, ElemsAppend
  <2>2. current' = [current EXCEPT ![w] = NoTask] /\ wpc' = [wpc EXCEPT ![w] = "ready"]
    OBVIOUS
  <2>3. wpc[w] = "run" /\ started' = started
    OBVIOUS
  <2>4. {current[x] : x \in {y \in Workers : wpc[y] = "run"}} =
            {current'[x] : x \in {y \in Workers : wpc'[y] = "run"}} \cup {current[w]}
    BY <2>2, <2>3 DEF TypeOK
  <2>5. \A x \in Workers : wpc'[x] = "run" => current'[x] \in Tasks
    BY <2>2 DEF WorkInv, TypeOK
  <2>6. QED BY <2>1, <2>3, <2>4, <2>5 DEF WorkInv
<1>7. QED BY <1>1, <1>2, <1>3, <1>4, <1>5, <1>6

LEMMA WorkerIInv ==
    ASSUME IInv, NEW w \in Workers, WorkerStep(w) \/ SpuriousWake(w)
    PROVE  IInv'
<1>1. CASE SpuriousWake(w)
  BY <1>1 DEF IInv, SpuriousWake, workVars, ownerVars, callVars, history,
              TypeOK, MutexInv, ThreadInv, NoEmptyPop, InPostingOrder, WorkInv
<1>2. CASE WorkerStep(w)
  BY <1>2, EvaluateIInv, BlockIInv, ExitIInv, TakeTaskIInv, FinishTaskIInv
     DEF WorkerStep
<1>3. QED BY <1>1, <1>2

LEMMA ClientIInv == ASSUME IInv, NEW c \in Clients, ClientStep(c) PROVE IInv'
<1>1. ASSUME NEW t \in Tasks, NEW call \in {"notify", "notifyR"}, Enqueue(c, t, call)
      PROVE  IInv'
  <2> USE <1>1 DEF IInv, Enqueue, workVars, ownerVars
  <2>1. TypeOK'
    BY DEF TypeOK
  <2>2. MutexInv' /\ ThreadInv' /\ WorkInv'
    BY DEF MutexInv, ThreadInv, WorkInv
  <2>0. queue \in Seq(Tasks) /\ started \in Seq(Tasks)
    BY DEF TypeOK
  <2>3. NoEmptyPop'
    BY <2>0, AppendProperties DEF NoEmptyPop
  <2>4. InPostingOrder'
    <3>1. started \o Append(queue, t) = Append(started \o queue, t)
      BY <2>0, AppendToRight
    <3>2. posted' = Append(started \o queue, t)
      BY DEF InPostingOrder
    <3>3. started' = started /\ queue' = Append(queue, t)
      OBVIOUS
    <3>4. QED BY <3>1, <3>2, <3>3 DEF InPostingOrder
  <2>5. QED BY <2>1, <2>2, <2>3, <2>4
<1>2. CASE NotifyAdd(c)
  BY <1>2 DEF IInv, NotifyAdd, NotifyAll, workVars, ownerVars, history,
              TypeOK, MutexInv, ThreadInv, NoEmptyPop, InPostingOrder, WorkInv
<1>3. CASE WaitReturns(c)
  BY <1>3 DEF IInv, WaitReturns, poolVars, workVars, ownerVars, history,
              TypeOK, MutexInv, ThreadInv, NoEmptyPop, InPostingOrder, WorkInv
<1>4. QED BY <1>1, <1>2, <1>3 DEF ClientStep

LEMMA AddThreadIInv == ASSUME IInv, NEW w \in Workers, AddThread(w) PROVE IInv'
<1> USE DEF IInv, AddThread, poolVars, callVars, history
<1>0. threads \in Seq(Workers) /\ Elems(threads') = Elems(threads) \cup {w}
  BY ElemsAppend DEF TypeOK
<1>1. TypeOK'
  BY DEF TypeOK, WorkerPCs
<1>2. MutexInv'
  BY DEF MutexInv, TypeOK
<1>3. ThreadInv'
  <2>1. \A x \in Workers : wpc'[x] # "absent" <=> x \in Elems(threads')
    BY <1>0 DEF ThreadInv, TypeOK
  <2>2. \A i \in 1 .. Len(threads) : threads[i] # w
    BY DEF ThreadInv, Elems
  <2>3. \A i, j \in 1 .. Len(threads') : threads'[i] = threads'[j] => i = j
    BY <1>0, <2>2 DEF ThreadInv
  <2>4. QED BY <2>1, <2>3 DEF ThreadInv
<1>4. NoEmptyPop'
  BY DEF NoEmptyPop, TypeOK
<1>5. InPostingOrder'
  BY DEF InPostingOrder
<1>6. WorkInv'
  <2>1. \A x \in Workers : wpc'[x] = "run" <=> wpc[x] = "run"
    BY DEF TypeOK
  <2>2. QED BY <2>1 DEF WorkInv
<1>7. QED BY <1>1, <1>2, <1>3, <1>4, <1>5, <1>6

LEMMA JoinIInv == ASSUME IInv, Join PROVE IInv'
<1> DEFINE w == Head(threads)
<1> USE DEF IInv, Join, poolVars, callVars, history
<1>0. /\ threads \in Seq(Workers) /\ threads # <<>> /\ w \in Workers
      /\ Elems(threads) = {w} \cup Elems(threads')
      /\ \A i \in 1 .. Len(threads') : threads'[i] = threads[i + 1] /\ i + 1 \in 1 .. Len(threads)
      /\ w = threads[1] /\ 1 \in 1 .. Len(threads)
  BY ElemsHeadTail DEF TypeOK
<1>1. TypeOK'
  BY <1>0 DEF TypeOK, WorkerPCs
<1>2. MutexInv'
  BY <1>0 DEF MutexInv, TypeOK
<1>3. ThreadInv'
  <2>1. w \notin Elems(threads')
    BY <1>0 DEF ThreadInv, Elems
  <2>2. \A x \in Workers : wpc'[x] # "absent" <=> x \in Elems(threads')
    BY <1>0, <2>1 DEF ThreadInv, TypeOK
  <2>3. \A i, j \in 1 .. Len(threads') : threads'[i] = threads'[j] => i = j
    BY <1>0 DEF ThreadInv
  <2>4. QED BY <2>2, <2>3 DEF ThreadInv
<1>4. NoEmptyPop'
  BY <1>0 DEF NoEmptyPop, TypeOK
<1>5. InPostingOrder'
  BY DEF InPostingOrder
<1>6. WorkInv'
  <2>1. \A x \in Workers : wpc'[x] = "run" <=> wpc[x] = "run"
    BY <1>0 DEF TypeOK
  <2>2. QED BY <2>1 DEF WorkInv
<1>7. QED BY <1>1, <1>2, <1>3, <1>4, <1>5, <1>6

LEMMA OwnerIInv == ASSUME IInv, OwnerStep PROVE IInv'
<1> USE DEF workVars, callVars, history, poolVars
<1>1. CASE Start
  <2>1. \A w \in Workers : wpc[w] = "absent"
    BY <1>1 DEF Start, IInv, ThreadInv, Elems
  <2>2. NoEmptyPop'
    BY <1>1, <2>1 DEF Start, NoEmptyPop
  <2>3. QED BY <1>1, <2>2 DEF Start, IInv, TypeOK, MutexInv, ThreadInv, InPostingOrder, WorkInv
<1>2. CASE StartReturns
  BY <1>2 DEF StartReturns, IInv, TypeOK, MutexInv, ThreadInv, NoEmptyPop, InPostingOrder, WorkInv
<1>3. CASE StopStore
  <2>1. TypeOK'
    BY <1>3 DEF StopStore, IInv, TypeOK
  <2>2. QED BY <1>3, <2>1 DEF StopStore, IInv, MutexInv, ThreadInv, NoEmptyPop,
                              InPostingOrder, WorkInv
<1>4. CASE StopNotify
  BY <1>4 DEF StopNotify, NotifyAll, IInv, TypeOK, MutexInv, ThreadInv, NoEmptyPop,
              InPostingOrder, WorkInv
<1>5. CASE StopReturns
  BY <1>5 DEF StopReturns, AllJoined, IInv, TypeOK, MutexInv, ThreadInv, NoEmptyPop,
              InPostingOrder, WorkInv
<1>6. QED BY <1>1, <1>2, <1>3, <1>4, <1>5, AddThreadIInv, JoinIInv DEF OwnerStep

LEMMA StepIInv == IInv /\ [Next]_vars => IInv'
<1> SUFFICES ASSUME IInv, [Next]_vars PROVE IInv'
  OBVIOUS
<1>1. CASE Next
  BY <1>1, WorkerIInv, ClientIInv, OwnerIInv DEF Next
<1>2. CASE UNCHANGED vars
  BY <1>2 DEF vars, poolVars, workVars, ownerVars, callVars, history, IInv, TypeOK,
              MutexInv, ThreadInv, NoEmptyPop, InPostingOrder, WorkInv
<1>3. QED BY <1>1, <1>2

LEMMA Invariance == Spec => []IInv
  BY InitIInv, StepIInv, PTL DEF Spec

-----------------------------------------------------------------------------
(* A pool of one thread                                                       *)

\* No task is posted twice. With one thread there is never a second worker,
\* and what was started is what has finished and then the task that runs.
StrandInv ==
    /\ \A i, j \in 1 .. Len(posted) : posted[i] = posted[j] => i = j
    /\ thread_count = 1 =>
         /\ Len(threads) <= 1
         /\ \A w \in Workers : wpc[w] = "run" => started = Append(finished, current[w])
         /\ (\A w \in Workers : wpc[w] # "run") => started = finished

\* The worker of a strand is alone.
LEMMA Alone ==
    ASSUME IInv, StrandInv, thread_count = 1,
           NEW v \in Workers, NEW w \in Workers, wpc[v] # "absent", wpc[w] # "absent"
    PROVE  v = w
<1>1. PICK i \in 1 .. Len(threads) : threads[i] = v
  BY DEF IInv, ThreadInv, Elems
<1>2. PICK j \in 1 .. Len(threads) : threads[j] = w
  BY DEF IInv, ThreadInv, Elems
<1>3. Len(threads) \in Nat /\ Len(threads) <= 1
  BY DEF IInv, TypeOK, StrandInv
<1>4. i = j
  BY <1>3
<1>5. QED BY <1>1, <1>2, <1>4

LEMMA InitStrandInv == Init => StrandInv
<1> SUFFICES ASSUME Init PROVE StrandInv
  OBVIOUS
<1>1. posted = <<>> /\ threads = <<>> /\ started = finished
  BY DEF Init
<1>2. \A w \in Workers : wpc[w] # "run"
  BY DEF Init
<1>3. QED BY <1>1, <1>2 DEF StrandInv

\* A step that starts and ends no task, posts none and adds no thread.
LEMMA QuietStep ==
    ASSUME IInv, StrandInv, posted' = posted, started' = started,
           finished' = finished, thread_count' = thread_count, current' = current,
           \A x \in Workers : wpc'[x] = "run" <=> wpc[x] = "run",
           Len(threads') <= 1 \/ threads' = threads
    PROVE  StrandInv'
  BY DEF StrandInv

LEMMA TakeTaskStrand ==
    ASSUME IInv, StrandInv, NEW w \in Workers, TakeTask(w)
    PROVE  StrandInv'
<1> USE DEF TakeTask, ownerVars, callVars
<1>1. wpc' = [wpc EXCEPT ![w] = "run"] /\ current' = [current EXCEPT ![w] = Head(queue)]
  OBVIOUS
<1>2. wpc'[w] = "run" /\ current'[w] = Head(queue) /\ wpc[w] = "chosen"
  BY <1>1 DEF IInv, TypeOK
<1>3. CASE thread_count = 1
  <2>1. \A x \in Workers : x # w => wpc[x] = "absent"
    BY <1>2, <1>3, Alone
  <2>2. \A x \in Workers : wpc[x] # "run"
    BY <1>2, <2>1
  <2>3. started' = Append(finished, Head(queue)) /\ finished' = finished
    BY <1>3, <2>2 DEF StrandInv
  <2>4. \A x \in Workers : wpc'[x] = "run" => x = w
    BY <1>1, <2>2 DEF IInv, TypeOK
  <2>5. \A x \in Workers : wpc'[x] = "run" => started' = Append(finished', current'[x])
    BY <1>2, <2>3, <2>4
  <2>6. QED BY <1>2, <1>3, <2>5 DEF StrandInv
<1>4. CASE thread_count # 1
  BY <1>4 DEF StrandInv
<1>5. QED BY <1>3, <1>4

LEMMA FinishTaskStrand ==
    ASSUME IInv, StrandInv, NEW w \in Workers, FinishTask(w)
    PROVE  StrandInv'
<1> USE DEF FinishTask, Complete, poolVars, ownerVars, callVars
<1>1. wpc[w] = "run" /\ wpc' = [wpc EXCEPT ![w] = "ready"]
  OBVIOUS
<1>2. CASE thread_count = 1
  <2>1. \A x \in Workers : x # w => wpc[x] = "absent"
    BY <1>1, <1>2, Alone
  <2>2. \A x \in Workers : wpc'[x] # "run"
    BY <1>1, <2>1 DEF IInv, TypeOK
  <2>3. started' = finished'
    BY <1>1, <1>2 DEF StrandInv
  <2>4. QED BY <1>2, <2>2, <2>3 DEF StrandInv
<1>3. CASE thread_count # 1
  BY <1>3 DEF StrandInv
<1>4. QED BY <1>2, <1>3

LEMMA EnqueueStrand ==
    ASSUME IInv, StrandInv, NEW c \in Clients, NEW t \in Tasks,
           NEW call \in {"notify", "notifyR"}, Enqueue(c, t, call)
    PROVE  StrandInv'
<1> USE DEF Enqueue, workVars, ownerVars
<1>1. posted \in Seq(Tasks) /\ posted' = Append(posted, t)
  BY DEF IInv, TypeOK
<1>2. \A i \in 1 .. Len(posted) : posted[i] # t
  BY DEF Elems
<1>3. /\ Len(posted) \in Nat /\ Len(posted') = Len(posted) + 1
      /\ posted'[Len(posted) + 1] = t
      /\ \A i \in 1 .. Len(posted) : posted'[i] = posted[i]
  BY <1>1
<1>4. ASSUME NEW i \in 1 .. Len(posted'), NEW j \in 1 .. Len(posted'),
             posted'[i] = posted'[j]
      PROVE  i = j
  <2>1. CASE i \in 1 .. Len(posted) /\ j \in 1 .. Len(posted)
    BY <1>3, <1>4, <2>1 DEF StrandInv
  <2>2. CASE i \notin 1 .. Len(posted)
    BY <1>2, <1>3, <1>4, <2>2
  <2>3. CASE j \notin 1 .. Len(posted)
    BY <1>2, <1>3, <1>4, <2>3
  <2>4. QED BY <2>1, <2>2, <2>3
<1>5. QED BY <1>4 DEF StrandInv

LEMMA ThreadsStrand ==
    ASSUME IInv, StrandInv, Join \/ \E w \in Workers : AddThread(w)
    PROVE  StrandInv'
<1> USE DEF poolVars, callVars, history
<1>1. CASE Join
  <2>1. threads \in Seq(Workers) /\ threads # <<>> /\ threads' = Tail(threads)
    BY <1>1 DEF Join, IInv, TypeOK
  <2>2. Head(threads) \in Workers /\ Len(threads) \in Nat /\ Len(threads') = Len(threads) - 1
    BY <2>1
  <2>3. thread_count = 1 => Len(threads') <= 1
    BY <2>2 DEF StrandInv
  <2>4. \A x \in Workers : wpc'[x] = "run" <=> wpc[x] = "run"
    BY <1>1, <2>2 DEF Join, IInv, TypeOK
  <2>5. QED BY <1>1, <2>3, <2>4 DEF Join, StrandInv
<1>2. ASSUME NEW w \in Workers, AddThread(w) PROVE StrandInv'
  <2>1. threads \in Seq(Workers) /\ threads' = Append(threads, w)
    BY <1>2 DEF AddThread, IInv, TypeOK
  <2>2. thread_count = 1 => Len(threads') <= 1
    BY <1>2, <2>1 DEF AddThread, MoreThreads
  <2>3. \A x \in Workers : wpc'[x] = "run" <=> wpc[x] = "run"
    BY <1>2 DEF AddThread, IInv, TypeOK
  <2>4. QED BY <1>2, <2>2, <2>3 DEF AddThread, StrandInv
<1>3. QED BY <1>1, <1>2

\* What every step but those of a task and of a thread leaves alone.
Undisturbed ==
    /\ UNCHANGED <<posted, started, finished, thread_count, current, threads, queue>>
    /\ \A x \in Workers : wpc'[x] = "run" <=> wpc[x] = "run"

\* The steps by what they do to the strand.
LEMMA Steps ==
    ASSUME IInv, [Next]_vars
    PROVE  \/ Undisturbed
           \/ \E w \in Workers : TakeTask(w) \/ FinishTask(w)
           \/ \E c \in Clients, t \in Tasks, call \in {"notify", "notifyR"} : Enqueue(c, t, call)
           \/ Join \/ \E w \in Workers : AddThread(w)
<1> USE DEF Undisturbed, poolVars, workVars, ownerVars, callVars, history
<1>1. ASSUME NEW w \in Workers, WorkerStep(w) \/ SpuriousWake(w)
      PROVE  Undisturbed \/ TakeTask(w) \/ FinishTask(w)
  BY <1>1 DEF WorkerStep, SpuriousWake, Evaluate, Block, Exit, IInv, TypeOK
<1>2. ASSUME NEW c \in Clients, NotifyAdd(c) \/ WaitReturns(c) PROVE Undisturbed
  BY <1>2 DEF NotifyAdd, WaitReturns
<1>3. CASE Start \/ StartReturns \/ StopStore \/ StopNotify \/ StopReturns
  BY <1>3 DEF Start, StartReturns, StopStore, StopNotify, StopReturns
<1>4. CASE UNCHANGED vars
  BY <1>4 DEF vars
<1>5. QED BY <1>1, <1>2, <1>3, <1>4 DEF Next, ClientStep, OwnerStep

LEMMA StepStrandInv == IInv /\ StrandInv /\ [Next]_vars => StrandInv'
<1> SUFFICES ASSUME IInv, StrandInv, [Next]_vars PROVE StrandInv'
  OBVIOUS
<1>1. CASE Undisturbed
  BY <1>1, QuietStep DEF Undisturbed
<1>2. QED BY <1>1, Steps, TakeTaskStrand, FinishTaskStrand, EnqueueStrand, ThreadsStrand

LEMMA StrandInvariance == Spec => [](IInv /\ StrandInv)
  BY InitIInv, StepIInv, InitStrandInv, StepStrandInv, PTL DEF Spec

\* What runs on a strand.
Active == IF \E w \in Workers : wpc[w] = "run"
          THEN current[CHOOSE w \in Workers : wpc[w] = "run"] ELSE NoTask

LEMMA Unique ==
    ASSUME NEW f, NEW w \in Workers, f[w] = "run",
           \A x \in Workers : f[x] = "run" => x = w
    PROVE  (CHOOSE x \in Workers : f[x] = "run") = w
  OBVIOUS

LEMMA ActiveTask ==
    ASSUME IInv, StrandInv, thread_count = 1, NEW w \in Workers, wpc[w] = "run"
    PROVE  Active = current[w]
<1>1. \A x \in Workers : wpc[x] = "run" => x = w
  BY Alone
<1>2. QED BY <1>1, Unique DEF Active

LEMMA TakeTaskBegins ==
    ASSUME IInv, StrandInv, IInv', StrandInv', thread_count = 1,
           NEW w \in Workers, TakeTask(w)
    PROVE  Active = NoTask /\ queue # <<>> /\ Active' = Head(queue)
<1> USE DEF TakeTask, ownerVars, callVars
<1>1. /\ wpc' = [wpc EXCEPT ![w] = "run"] /\ current' = [current EXCEPT ![w] = Head(queue)]
      /\ wpc[w] = "chosen"
  OBVIOUS
<1>2. \A x \in Workers : x # w => wpc[x] = "absent"
  BY <1>1, Alone
<1>3. Active = NoTask
  BY <1>1, <1>2 DEF Active
<1>4. wpc'[w] = "run" /\ current'[w] = Head(queue)
  BY <1>1 DEF IInv, TypeOK
<1>5. \A x \in Workers : wpc'[x] = "run" => x = w
  BY <1>1, <1>2 DEF IInv, TypeOK
<1>6. (CHOOSE x \in Workers : wpc'[x] = "run") = w
  BY <1>4, <1>5, Unique
<1>7. Active' = Head(queue)
  BY <1>4, <1>6 DEF Active
<1>8. QED BY <1>3, <1>7 DEF IInv, NoEmptyPop

LEMMA FinishTaskEnds ==
    ASSUME IInv, StrandInv, thread_count = 1, NEW w \in Workers, FinishTask(w)
    PROVE  Active = current[w] /\ current[w] # NoTask /\ Active' = NoTask
<1> USE DEF FinishTask, ownerVars, callVars
<1>1. wpc[w] = "run" /\ wpc' = [wpc EXCEPT ![w] = "ready"]
  OBVIOUS
<1>2. current[w] # NoTask
  BY <1>1 DEF IInv, WorkInv
<1>3. \A x \in Workers : x # w => wpc[x] = "absent"
  BY <1>1, Alone
<1>4. \A x \in Workers : wpc'[x] # "run"
  BY <1>1, <1>3 DEF IInv, TypeOK
<1>5. QED BY <1>1, <1>2, <1>4, ActiveTask DEF Active

\* As long as no task starts or ends, the strand is in the same one.
LEMMA ActiveStays ==
    ASSUME IInv, StrandInv, thread_count = 1, current' = current,
           \A x \in Workers : wpc'[x] = "run" <=> wpc[x] = "run"
    PROVE  Active' = Active
<1>1. CASE \E w \in Workers : wpc[w] = "run"
  <2>1. PICK w \in Workers : wpc[w] = "run"
    BY <1>1
  <2>2. \A x \in Workers : wpc'[x] = "run" => x = w
    BY <2>1, Alone
  <2>3. (CHOOSE x \in Workers : wpc'[x] = "run") = w
    BY <2>1, <2>2, Unique
  <2>4. Active' = current[w]
    BY <2>1, <2>3 DEF Active
  <2>5. QED BY <2>1, <2>4, ActiveTask
<1>2. CASE \A w \in Workers : wpc[w] # "run"
  BY <1>2 DEF Active
<1>3. QED BY <1>1, <1>2

\* Every step of a pool of one thread is a step of the strand or none.
LEMMA StrandStep ==
    ASSUME IInv, StrandInv, IInv', StrandInv', [Next]_vars
    PROVE  [thread_count = 1 => OneStrand!SNext]_(OneStrand!svars)
<1> SUFFICES ASSUME thread_count = 1
             PROVE  OneStrand!SNext \/ UNCHANGED <<queue, Active, finished>>
  BY DEF OneStrand!svars, Active
<1>1. ASSUME NEW w \in Workers, TakeTask(w) PROVE OneStrand!SNext
  <2>1. Active = NoTask /\ queue # <<>> /\ Active' = Head(queue)
    BY <1>1, TakeTaskBegins
  <2>2. queue' = Tail(queue) /\ finished' = finished
    BY <1>1 DEF TakeTask, Pop
  <2>3. QED BY <2>1, <2>2 DEF OneStrand!SNext, OneStrand!Begin, Active
<1>2. ASSUME NEW w \in Workers, FinishTask(w) PROVE OneStrand!SNext
  <2>1. Active = current[w] /\ current[w] # NoTask /\ Active' = NoTask
    BY <1>2, FinishTaskEnds
  <2>2. queue' = queue /\ finished' = Append(finished, current[w])
    BY <1>2 DEF FinishTask, Complete, poolVars
  <2>3. QED BY <2>1, <2>2 DEF OneStrand!SNext, OneStrand!End, Active
<1>3. ASSUME NEW c \in Clients, NEW t \in Tasks, NEW call \in {"notify", "notifyR"},
             Enqueue(c, t, call)
      PROVE  OneStrand!SNext
  <2>1. Active' = Active
    BY <1>3, ActiveStays DEF Enqueue, workVars, Active
  <2>2. queue' = Append(queue, t) /\ finished' = finished
    BY <1>3 DEF Enqueue
  <2>3. QED BY <2>1, <2>2 DEF OneStrand!SNext, OneStrand!Post, Active
<1>4. ASSUME Undisturbed \/ Join \/ \E w \in Workers : AddThread(w)
      PROVE  UNCHANGED <<queue, Active, finished>>
  <2>1. UNCHANGED <<queue, finished, current>>
    BY <1>4 DEF Undisturbed, Join, AddThread, poolVars, history
  <2>2. Join => Head(threads) \in Workers /\ wpc[Head(threads)] = "exited"
    BY DEF Join, IInv, TypeOK
  <2>3. \A x \in Workers : wpc'[x] = "run" <=> wpc[x] = "run"
    BY <1>4, <2>2 DEF Undisturbed, Join, AddThread, IInv, TypeOK
  <2>4. Active' = Active
    BY <2>1, <2>3, ActiveStays DEF Active
  <2>5. QED BY <2>1, <2>4
<1>5. QED BY <1>1, <1>2, <1>3, <1>4, Steps

LEMMA InitStrand == Init => OneStrand!SInit
<1> SUFFICES ASSUME Init PROVE OneStrand!SInit
  OBVIOUS
<1>1. \A w \in Workers : wpc[w] # "run"
  BY DEF Init
<1>2. QED BY <1>1 DEF Init, OneStrand!SInit

-----------------------------------------------------------------------------
(* Results                                                                    *)

\* The variables keep their types, for every pool.
THEOREM TypeCorrect == Spec => []TypeOK
<1>1. IInv => TypeOK
  BY DEF IInv
<1>2. QED BY <1>1, Invariance, PTL

\* Tasks are dispatched in posting order, none lost and none twice, and none is
\* taken from an empty queue (thread_pool.cc 36-45), whatever the number of
\* workers and through any sequence of Start and Stop.
THEOREM DispatchOrder == Spec => []DispatchFIFO
<1>1. IInv => DispatchFIFO
  BY DEF IInv, DispatchFIFO
<1>2. QED BY <1>1, Invariance, PTL

\* When Stop has returned the workers are gone, mtx_ is free and no task is
\* half done (thread_pool.cc 20-26).
THEOREM StopIsQuiet == Spec => []QuietAfterStop
<1>1. IInv => QuietAfterStop
  <2> SUFFICES ASSUME IInv, opc = "idle", ~is_running
               PROVE  /\ \A w \in Workers : wpc[w] = "absent"
                      /\ mtx = NoOne
                      /\ Elems(started) = Elems(finished)
    BY DEF QuietAfterStop
  <2>1. \A w \in Workers : wpc[w] = "absent"
    BY DEF IInv, ThreadInv, Elems
  <2>2. mtx = NoOne
    BY <2>1 DEF IInv, MutexInv, TypeOK
  <2>3. Elems(started) = Elems(finished)
    BY <2>1 DEF IInv, WorkInv
  <2>4. QED BY <2>1, <2>2, <2>3
<1>2. QED BY <1>1, Invariance, PTL

\* With one thread a barrier is one: once it has finished, so has everything
\* posted before it (scheduler.h 174-175), through any stops and restarts.
THEOREM BarrierWaits == Spec => []BarrierOrder
<1>1. IInv /\ StrandInv => BarrierOrder
  <2> SUFFICES ASSUME IInv, StrandInv, thread_count = 1,
                      NEW i \in 1 .. Len(posted), NEW j \in 1 .. Len(posted),
                      i < j, posted[j] \in Elems(finished)
               PROVE  posted[i] \in Elems(finished)
    BY DEF BarrierOrder
  <2>1. /\ finished \in Seq(Tasks) /\ started \in Seq(Tasks) /\ queue \in Seq(Tasks)
        /\ Len(finished) \in Nat /\ Len(queue) \in Nat
    BY DEF IInv, TypeOK
  <2>2. Len(finished) <= Len(started) /\ \A k \in 1 .. Len(finished) : started[k] = finished[k]
    <3>1. CASE \E w \in Workers : wpc[w] = "run"
      <4>1. PICK w \in Workers : wpc[w] = "run"
        BY <3>1
      <4>2. started = Append(finished, current[w]) /\ current[w] \in Tasks
        BY <4>1 DEF StrandInv, IInv, WorkInv
      <4>3. QED BY <2>1, <4>2
    <3>2. CASE \A w \in Workers : wpc[w] # "run"
      BY <2>1, <3>2 DEF StrandInv
    <3>3. QED BY <3>1, <3>2
  <2>3. posted = started \o queue
    BY DEF IInv, InPostingOrder
  <2>4. \A k \in 1 .. Len(finished) : k \in 1 .. Len(posted) /\ posted[k] = finished[k]
    BY <2>1, <2>2, <2>3, ConcatProperties
  <2>5. PICK k \in 1 .. Len(finished) : finished[k] = posted[j]
    BY DEF Elems
  <2>6. k = j
    BY <2>4, <2>5 DEF StrandInv
  <2>7. i \in 1 .. Len(finished) /\ posted[i] = finished[i]
    BY <2>1, <2>4, <2>5, <2>6
  <2>8. QED BY <2>7 DEF Elems
<1>2. QED BY <1>1, StrandInvariance, PTL

\* A pool of one thread implements Strand, which the sinks rely on.
THEOREM PoolIsStrand == Spec => ImplementsStrand
<1>1. IInv /\ StrandInv /\ IInv' /\ StrandInv' /\ [Next]_vars
          => [thread_count = 1 => OneStrand!SNext]_(OneStrand!svars)
  BY StrandStep
<1>2. QED BY <1>1, InitStrand, StrandInvariance, PTL DEF Spec, ImplementsStrand
=============================================================================
