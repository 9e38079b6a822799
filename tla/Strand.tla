------------------------------- MODULE Strand -------------------------------
(* What the sinks and the WAIT_TASKS_COMPLETED macro expect of an executor    *)
(* obtained with NEW_STRAND_EXECUTOR (scheduler.h 165-175): the tasks that    *)
(* are posted run one at a time, each once, in the order of their posting.    *)
(* ThreadPool with a single thread is shown to implement this module.         *)
EXTENDS Sequences

CONSTANTS Tasks,   \* the closures that can be posted
          NoTask   \* stands for "nothing is running"

VARIABLES pending,  \* posted tasks that have not begun, in posting order
          active,   \* the task that runs now, or NoTask
          done      \* the tasks that ended, in the order of their ends

svars == <<pending, active, done>>

SInit == /\ pending = <<>>
         /\ active = NoTask
         /\ done = <<>>

\* POST_TASK / PostTaskAndGetResult: the task goes behind all pending ones.
Post(t) == /\ pending' = Append(pending, t)
           /\ UNCHANGED <<active, done>>

\* The oldest pending task begins, and only when no other one is running.
Begin == /\ active = NoTask
         /\ pending # <<>>
         /\ active' = Head(pending)
         /\ pending' = Tail(pending)
         /\ UNCHANGED done

\* The running task returns.
End == /\ active # NoTask
       /\ done' = Append(done, active)
       /\ active' = NoTask
       /\ UNCHANGED pending

SNext == Begin \/ End \/ \E t \in Tasks : Post(t)

SSpec == SInit /\ [][SNext]_svars
=============================================================================
