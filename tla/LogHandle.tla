----------------------------- MODULE LogHandle ------------------------------
(* logger::LogHandle with VariadicLogHandle, and LogFactory with the LOG_*    *)
(* macros (handler/, logger.h): threads log and flush through the registered  *)
(* handle while the program replaces it, drops handles and sets levels.       *)
(*                                                                            *)
(* The macros name their handler twice, in the test and in the call, and get  *)
(* a plain pointer: each is a step.  A handle is destroyed with its last      *)
(* shared_ptr, the program's or that of LogFactory.  (SetLevel is defined     *)
(* inline in a source file, where other files do not find it; it is modelled  *)
(* as the header declares it.)                                                *)
EXTENDS Naturals, Sequences, FiniteSets

CONSTANTS Threads, Handles, NoHandle,
          Sinks,        \* of each handle: the sequence of its sinks
          FromRange,    \* the handles constructed from a pair of iterators
          Levels,       \* kTrace = 0 to kOff = 6
          MaxCalls,     \* bound: calls of Log and Flush
          MaxSets       \* bound: calls of SetLevel and SetLogHandle, and drops

kTrace == 0
kInfo == 2

ASSUME HandleAssumption ==
    /\ NoHandle \notin Handles
    /\ FromRange \subseteq Handles
    /\ Levels \subseteq 0..6 /\ {kTrace, kInfo} \subseteq Levels
    /\ \A h \in Handles : Len(Sinks[h]) \in Nat /\ DOMAIN Sinks[h] = 1..Len(Sinks[h])
    /\ {MaxCalls, MaxSets} \subseteq Nat

VARIABLES
    log_handle, \* of LogFactory
    owned,      \* the handles to which the program has a shared_ptr
    level,      \* level_ of each handle
    pc,         \* of each thread: "idle", "test", "call", "filter", "sink"
    call,       \* of each thread: the number, kind and level of its call, and
                \* whether it is made with a shared_ptr of the program
    handle,     \* of each thread: this
    i,          \* of each thread: the sinks it has called
    got,        \* history: the calls each handle's sinks have seen, by position
    fault,      \* history: of each thread: what its call did to a handle that is not there
    replaced,   \* history: of each thread: SetLogHandle was called during its call
    seen,       \* history: of each thread: the levels of its handle during its call
    results,    \* history: what became of the calls that have returned
    calls, sets \* history: for the bounds

vars == <<log_handle, owned, level, pc, call, handle, i, got, fault, replaced, seen,
          results, calls, sets>>

NoCall == [id |-> 0, kind |-> "none", level |-> kTrace, own |-> FALSE]

Init ==
    /\ log_handle = NoHandle
    /\ owned = Handles
    /\ level = [h \in Handles |-> IF h \in FromRange THEN kTrace ELSE kInfo]
    /\ pc = [t \in Threads |-> "idle"]
    /\ call = [t \in Threads |-> NoCall]
    /\ handle = [t \in Threads |-> NoHandle]
    /\ i = [t \in Threads |-> 0]
    /\ got = [h \in Handles |-> [k \in DOMAIN Sinks[h] |-> <<>>]]
    /\ fault = [t \in Threads |-> "none"]
    /\ replaced = [t \in Threads |-> FALSE]
    /\ seen = [t \in Threads |-> {}]
    /\ results = {}
    /\ calls = 0 /\ sets = 0

Alive == owned \cup {log_handle} \cup {handle[t] : t \in {u \in Threads : call[u].own}}

Goto(t, l) == pc' = [pc EXCEPT ![t] = l]

Return(t) ==
    /\ Goto(t, "idle")
    /\ call' = [call EXCEPT ![t] = NoCall]
    /\ handle' = [handle EXCEPT ![t] = NoHandle]
    /\ i' = [i EXCEPT ![t] = 0]
    /\ replaced' = [replaced EXCEPT ![t] = FALSE]
    /\ seen' = [seen EXCEPT ![t] = {}]

Result(t, passed) ==
    results' = results \cup
        {[call |-> call[t], handle |-> handle[t], seen |-> seen[t], passed |-> passed]}

\* A member function is called through a pointer to nothing.
Fault(t, what) ==
    /\ fault' = [fault EXCEPT ![t] = what]
    /\ Goto(t, "dead")
    /\ UNCHANGED <<call, handle, i, replaced, seen>>

-----------------------------------------------------------------------------
(* Calls                                                                      *)

\* LOG_INFO and the like, with the level of the macro.
BeginMacro(t) ==
    /\ pc[t] = "idle"
    /\ calls < MaxCalls
    /\ calls' = calls + 1
    /\ \E l \in Levels : call' = [call EXCEPT ![t] =
            [id |-> calls', kind |-> "log", level |-> l, own |-> FALSE]]
    /\ Goto(t, "test")
    /\ UNCHANGED <<log_handle, owned, level, handle, i, got, fault, replaced, seen, results, sets>>

\* Log or Flush of a handle that the program has, and keeps until they return.
BeginOwn(t) ==
    /\ pc[t] = "idle"
    /\ calls < MaxCalls
    /\ calls' = calls + 1
    /\ \E h \in owned, kind \in {"log", "flush"}, l \in Levels :
          /\ kind = "flush" => l = kTrace
          /\ call' = [call EXCEPT ![t] = [id |-> calls', kind |-> kind, level |-> l, own |-> TRUE]]
          /\ handle' = [handle EXCEPT ![t] = h]
          /\ seen' = [seen EXCEPT ![t] = {level[h]}]
          /\ Goto(t, IF kind = "log" THEN "filter" ELSE "sink")
    /\ UNCHANGED <<log_handle, owned, level, i, got, fault, replaced, results, sets>>

\* if (handler)
NoTest(t) == Goto(t, "call") /\ UNCHANGED <<call, handle, i, replaced, seen>>
Test(t) == IF log_handle = NoHandle THEN Return(t)
           ELSE Goto(t, "call") /\ UNCHANGED <<call, handle, i, replaced, seen>>

TestHandle(t) ==
    /\ pc[t] = "test"
    /\ Test(t)
    /\ UNCHANGED <<log_handle, owned, level, got, fault, results, calls, sets>>

\* handler->Log(...): the handle is asked for again.
CallHandle(t) ==
    /\ pc[t] = "call"
    /\ IF log_handle = NoHandle
       THEN Fault(t, "null")
       ELSE /\ handle' = [handle EXCEPT ![t] = log_handle]
            /\ seen' = [seen EXCEPT ![t] = {level[log_handle]}]
            /\ Goto(t, "filter")
            /\ UNCHANGED <<call, i, fault, replaced>>
    /\ UNCHANGED <<log_handle, owned, level, got, results, calls, sets>>

\* LogHandle::Log and VariadicLogHandle::Log_ load level_ once.
ShouldLog(t) == call[t].level >= level[handle[t]]

Filter(t) ==
    /\ pc[t] = "filter"
    /\ IF handle[t] \notin Alive THEN Fault(t, "dangling") /\ UNCHANGED results
       ELSE IF ShouldLog(t)
       THEN Goto(t, "sink") /\ UNCHANGED <<call, handle, i, fault, replaced, seen, results>>
       ELSE /\ Result(t, FALSE)
            /\ Return(t)
            /\ UNCHANGED fault
    /\ UNCHANGED <<log_handle, owned, level, got, calls, sets>>

\* Log_ and Flush: the sinks in their order.
FilterEach(t) == i[t] < Len(Sinks[handle[t]]) /\ (call[t].kind = "flush" \/ ShouldLog(t))
More(t) == i[t] < Len(Sinks[handle[t]])

CallSink(t) ==
    /\ pc[t] = "sink"
    /\ IF handle[t] \notin Alive THEN Fault(t, "dangling") /\ UNCHANGED <<got, results>>
       ELSE IF More(t)
       THEN /\ got' = [got EXCEPT ![handle[t]][i[t] + 1] = Append(@, call[t].id)]
            /\ i' = [i EXCEPT ![t] = @ + 1]
            /\ UNCHANGED <<pc, call, handle, fault, replaced, seen, results>>
       ELSE /\ Result(t, TRUE)
            /\ Return(t)
            /\ UNCHANGED <<got, fault>>
    /\ UNCHANGED <<log_handle, owned, level, calls, sets>>

-----------------------------------------------------------------------------
(* What the program does meanwhile                                            *)

\* LOGGER_INIT, with one of the program's handles or with an empty pointer.
SetLogHandle ==
    /\ sets < MaxSets
    /\ \E h \in owned \cup {NoHandle} : h # log_handle /\ log_handle' = h
    /\ replaced' = [t \in Threads |-> pc[t] # "idle"]
    /\ sets' = sets + 1
    /\ UNCHANGED <<owned, level, pc, call, handle, i, got, fault, seen, results, calls>>

\* The program gives up its own pointer.
DropHandle ==
    /\ sets < MaxSets
    /\ \E h \in owned : owned' = owned \ {h}
    /\ sets' = sets + 1
    /\ UNCHANGED <<log_handle, level, pc, call, handle, i, got, fault, replaced, seen, results, calls>>

SetLevel ==
    /\ sets < MaxSets
    /\ \E h \in owned, l \in Levels :
          /\ level[h] # l
          /\ level' = [level EXCEPT ![h] = l]
          /\ seen' = [t \in Threads |-> IF handle[t] = h THEN seen[t] \cup {l} ELSE seen[t]]
    /\ sets' = sets + 1
    /\ UNCHANGED <<log_handle, owned, pc, call, handle, i, got, fault, replaced, results, calls>>

Next ==
    \/ \E t \in Threads : BeginMacro(t) \/ BeginOwn(t) \/ TestHandle(t) \/ CallHandle(t)
                         \/ Filter(t) \/ CallSink(t)
    \/ SetLogHandle \/ DropHandle \/ SetLevel

Spec == Init /\ [][Next]_vars

-----------------------------------------------------------------------------
(* Properties                                                                 *)

Calls == [id : Nat, kind : {"none", "log", "flush"}, level : Levels, own : BOOLEAN]

\* The variables have their types.
TypeOK ==
    /\ log_handle \in Handles \cup {NoHandle} /\ owned \subseteq Handles
    /\ level \in [Handles -> Levels]
    /\ pc \in [Threads -> {"idle", "test", "call", "filter", "sink", "dead"}]
    /\ call \in [Threads -> Calls]
    /\ handle \in [Threads -> Handles \cup {NoHandle}]
    /\ \A t \in Threads : pc[t] \in {"filter", "sink"} => handle[t] \in Handles
    /\ i \in [Threads -> Nat]
    /\ DOMAIN got = Handles
    /\ \A h \in Handles : got[h] \in [1..Len(Sinks[h]) -> Seq(Nat)]
    /\ fault \in [Threads -> {"none", "null", "dangling"}]
    /\ replaced \in [Threads -> BOOLEAN]
    /\ seen \in [Threads -> SUBSET Levels]
    /\ results \subseteq [call : Calls, handle : Handles, seen : SUBSET Levels, passed : BOOLEAN]
    /\ {calls, sets} \subseteq Nat

\* How often a call appears in what a sink has seen.
Times(s, id) == Cardinality({k \in 1..Len(s) : s[k] = id})

\* When a Log has returned, its message went once to every sink of its handle,
\* or to none, also when the level was set while the sinks were being called; and
\* the level that decided is one the handle had during the call.  A Flush has
\* flushed every sink.
AllOrNone ==
    \A r \in results :
        /\ \A k \in DOMAIN Sinks[r.handle] :
              Times(got[r.handle][k], r.call.id) = IF r.passed THEN 1 ELSE 0
        /\ IF r.call.kind = "log"
           THEN \E l \in r.seen : r.passed <=> r.call.level >= l
           ELSE r.passed

\* The macros go through a plain pointer that they read twice; they use a
\* handle that is not there only if LOGGER_INIT was called during the call,
\* never because the program gave up a handle that is still registered, and never
\* in a call through a pointer of their own.
ReplacedOnly == \A t \in Threads : fault[t] # "none" => replaced[t] /\ ~call[t].own
=============================================================================
