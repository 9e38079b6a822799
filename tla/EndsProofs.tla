----------------------------- MODULE EndsProofs -----------------------------
(* Theorems about the two ends of the library: LogHandle, through which every *)
(* message comes in, for any threads, handles, sinks and levels, and Decode,  *)
(* which writes the log files and prints them again, for any patterns,        *)
(* messages, sessions and codecs.                                             *)
EXTENDS LogHandle, Decode, FiniteSetTheorems, SequenceTheorems, WellFoundedInduction, TLAPS

\* What a thread that is in a call knows of its handle.
CallOk(t) ==
    /\ pc[t] \in {"test", "call"} => ~call[t].own
    /\ pc[t] \in {"test", "call", "filter"} => call[t].kind = "log"
    /\ pc[t] = "call" => log_handle # NoHandle \/ replaced[t]
    /\ pc[t] \in {"filter", "sink"} =>
          /\ level[handle[t]] \in seen[t]
          /\ call[t].own \/ handle[t] = log_handle \/ replaced[t]
    /\ fault[t] # "none" => pc[t] = "dead" /\ replaced[t] /\ ~call[t].own
    /\ pc[t] = "sink" /\ call[t].kind = "log" => \E l \in seen[t] : call[t].level >= l
    /\ pc[t] \notin {"sink", "dead"} => i[t] = 0

CallInv == \A t \in Threads : CallOk(t)

\* No two calls have the same number.
IdInv ==
    /\ \A t \in Threads : pc[t] # "idle" => call[t].id \in 1..calls
    /\ \A t, u \in Threads :
          t # u /\ pc[t] # "idle" /\ pc[u] # "idle" => call[t].id # call[u].id
    /\ \A r \in results :
          /\ r.call.id \in 1..calls
          /\ \A t \in Threads : pc[t] # "idle" => call[t].id # r.call.id
    /\ \A h \in Handles : \A k \in 1..Len(Sinks[h]) :
          \A n \in 1..Len(got[h][k]) : got[h][k][n] <= calls

\* A call under way has been to the sinks that it has counted, once.
GotInv ==
    \A t \in Threads, h \in Handles : \A k \in 1..Len(Sinks[h]) :
        pc[t] \notin {"idle", "dead"} =>
        Times(got[h][k], call[t].id)
            = IF pc[t] = "sink" /\ h = handle[t] /\ k <= i[t] THEN 1 ELSE 0

Inv == TypeOK /\ CallInv /\ IdInv /\ GotInv /\ AllOrNone

-----------------------------------------------------------------------------
(* How often a call appears                                                   *)

LEMMA TimesAppend ==
    ASSUME NEW s \in Seq(Nat), NEW m \in Nat, NEW id \in Nat
    PROVE  /\ Times(s, id) \in Nat
           /\ Times(Append(s, m), id) = IF m = id THEN Times(s, id) + 1 ELSE Times(s, id)
<1> DEFINE a == Append(s, m)
           T == {k \in 1..Len(s) : s[k] = id}
           U == {k \in 1..Len(a) : a[k] = id}
<1>1. /\ Len(a) = Len(s) + 1 /\ Len(s) \in Nat
      /\ \A k \in 1..Len(s) : a[k] = s[k]
      /\ a[Len(s) + 1] = m
  OBVIOUS
<1> HIDE DEF a
<1>2. IsFiniteSet(1..Len(s)) /\ T \subseteq 1..Len(s)
  BY <1>1, FS_Interval
<1>3. IsFiniteSet(T) /\ Cardinality(T) \in Nat
  BY <1>2, FS_Subset, FS_CardinalityType
<1>4. CASE m = id
  <2>1. U = T \cup {Len(s) + 1} /\ Len(s) + 1 \notin T
    BY <1>1, <1>4
  <2>2. Cardinality(U) = Cardinality(T) + 1
    BY <2>1, <1>3, FS_AddElement
  <2>3. QED BY <2>2, <1>3, <1>4 DEF Times, a
<1>5. CASE m # id
  <2>1. U = T
    BY <1>1, <1>5
  <2>2. QED BY <2>1, <1>3, <1>5 DEF Times, a
<1>6. QED BY <1>4, <1>5

\* A call that is later than all in a sequence does not appear in it.
LEMMA TimesNone ==
    ASSUME NEW s, NEW id, \A k \in 1..Len(s) : s[k] # id
    PROVE  Times(s, id) = 0
<1>1. {k \in 1..Len(s) : s[k] = id} = {}
  OBVIOUS
<1>2. QED BY <1>1, FS_EmptySet DEF Times

\* Levels are numbers.
LEMMA LevelNat == Levels \subseteq Nat /\ kTrace \in Levels /\ kInfo \in Levels
  BY HandleAssumption

-----------------------------------------------------------------------------
(* Types                                                                      *)

LEMMA TypeInit == Init => TypeOK
<1> SUFFICES ASSUME Init PROVE TypeOK
  OBVIOUS
<1>1. \A h \in Handles : got[h] \in [1..Len(Sinks[h]) -> Seq(Nat)]
  <2> SUFFICES ASSUME NEW h \in Handles PROVE got[h] \in [1..Len(Sinks[h]) -> Seq(Nat)]
    OBVIOUS
  <2>1. got[h] = [k \in 1..Len(Sinks[h]) |-> <<>>]
    BY HandleAssumption DEF Init
  <2>2. <<>> \in Seq(Nat)
    BY Zenon, EmptySeq
  <2>3. QED BY <2>1, <2>2
<1>2. NoCall \in Calls
  BY LevelNat DEF NoCall, Calls
<1>3. QED BY <1>1, <1>2, LevelNat DEF Init, TypeOK

\* What a call does to the log of a sink.
LEMMA GotFacts ==
    ASSUME TypeOK, NEW t \in Threads, CallSink(t), handle[t] \in Alive, More(t)
    PROVE  /\ pc[t] = "sink" /\ handle[t] \in Handles /\ pc' = pc /\ call' = call /\ handle' = handle
           /\ i[t] + 1 \in 1..Len(Sinks[handle[t]]) /\ i' = [i EXCEPT ![t] = i[t] + 1]
           /\ UNCHANGED <<replaced, seen, results, fault>>
           /\ DOMAIN got' = Handles
           /\ \A h \in Handles : got'[h] \in [1..Len(Sinks[h]) -> Seq(Nat)]
           /\ \A h \in Handles : \A k \in 1..Len(Sinks[h]) :
                 got'[h][k] = IF h = handle[t] /\ k = i[t] + 1
                              THEN Append(got[h][k], call[t].id) ELSE got[h][k]
<1> DEFINE H == handle[t]
           K == i[t] + 1
<1>1. /\ pc[t] = "sink" /\ More(t)
      /\ got' = [got EXCEPT ![H][K] = Append(@, call[t].id)]
      /\ i' = [i EXCEPT ![t] = @ + 1]
      /\ UNCHANGED <<pc, call, handle, fault, replaced, seen, results>>
  BY DEF CallSink
<1>2. H \in Handles
  BY <1>1 DEF TypeOK
<1>3. K \in 1..Len(Sinks[H]) /\ call[t].id \in Nat
  BY <1>1, <1>2, HandleAssumption DEF More, TypeOK, Calls
<1> HIDE DEF H, K
<1>4. DOMAIN got = Handles /\ \A h \in Handles : got[h] \in [1..Len(Sinks[h]) -> Seq(Nat)]
  BY DEF TypeOK
<1> DEFINE row == [got[H] EXCEPT ![K] = Append(@, call[t].id)]
<1>5. got' = [got EXCEPT ![H] = row]
  BY <1>1
<1>6. /\ row \in [1..Len(Sinks[H]) -> Seq(Nat)]
      /\ \A k \in 1..Len(Sinks[H]) :
            row[k] = IF k = K THEN Append(got[H][k], call[t].id) ELSE got[H][k]
  BY <1>2, <1>3, <1>4
<1> HIDE DEF row
<1>7. /\ DOMAIN got' = Handles
      /\ \A h \in Handles : got'[h] = IF h = H THEN row ELSE got[h]
  BY <1>2, <1>4, <1>5
<1>8. QED BY <1>1, <1>2, <1>3, <1>4, <1>6, <1>7 DEF H, K

LEMMA TypeReturn ==
    ASSUME TypeOK, NEW t \in Threads, Return(t),
           results' \subseteq [call : Calls, handle : Handles, seen : SUBSET Levels, passed : BOOLEAN],
           UNCHANGED <<log_handle, owned, level, got, fault, calls, sets>>
    PROVE  TypeOK'
<1>1. NoCall \in Calls
  BY LevelNat DEF NoCall, Calls
<1>2. /\ pc' = [pc EXCEPT ![t] = "idle"] /\ call' = [call EXCEPT ![t] = NoCall]
      /\ handle' = [handle EXCEPT ![t] = NoHandle] /\ i' = [i EXCEPT ![t] = 0]
      /\ replaced' = [replaced EXCEPT ![t] = FALSE] /\ seen' = [seen EXCEPT ![t] = {}]
  BY DEF Return, Goto
<1>3. /\ pc' \in [Threads -> {"idle", "test", "call", "filter", "sink", "dead"}]
      /\ call' \in [Threads -> Calls]
      /\ handle' \in [Threads -> Handles \cup {NoHandle}]
      /\ i' \in [Threads -> Nat]
      /\ replaced' \in [Threads -> BOOLEAN]
      /\ seen' \in [Threads -> SUBSET Levels]
  BY <1>1, <1>2 DEF TypeOK
<1>4. \A u \in Threads : pc'[u] \in {"filter", "sink"} => handle'[u] \in Handles
  BY <1>2 DEF TypeOK
<1>5. QED BY <1>3, <1>4 DEF TypeOK

LEMMA TypeFault ==
    ASSUME TypeOK, NEW t \in Threads, NEW what \in {"null", "dangling"}, Fault(t, what),
           UNCHANGED <<log_handle, owned, level, got, results, calls, sets>>
    PROVE  TypeOK'
<1>1. /\ pc' = [pc EXCEPT ![t] = "dead"] /\ fault' = [fault EXCEPT ![t] = what]
      /\ UNCHANGED <<call, handle, i, replaced, seen>>
  BY DEF Fault, Goto
<1>2. QED BY <1>1 DEF TypeOK

LEMMA TypeResult ==
    ASSUME TypeOK, NEW t \in Threads, handle[t] \in Handles, NEW passed \in BOOLEAN,
           Result(t, passed)
    PROVE  results' \subseteq [call : Calls, handle : Handles, seen : SUBSET Levels, passed : BOOLEAN]
  BY DEF TypeOK, Result

LEMMA TypeCall ==
    ASSUME TypeOK, NEW t \in Threads,
           BeginMacro(t) \/ BeginOwn(t) \/ TestHandle(t) \/ CallHandle(t) \/ Filter(t) \/ CallSink(t)
    PROVE  TypeOK'
<1>1. CASE BeginMacro(t)
  <2>1. PICK l \in Levels : call' = [call EXCEPT ![t] =
                               [id |-> calls', kind |-> "log", level |-> l, own |-> FALSE]]
    BY <1>1 DEF BeginMacro
  <2>2. calls' = calls + 1 /\ pc' = [pc EXCEPT ![t] = "test"]
        /\ UNCHANGED <<log_handle, owned, level, handle, i, got, fault, replaced, seen, results, sets>>
    BY <1>1 DEF BeginMacro, Goto
  <2>3. calls' \in Nat
    BY <2>2 DEF TypeOK
  <2>4. [id |-> calls', kind |-> "log", level |-> l, own |-> FALSE] \in Calls
    BY <2>3 DEF Calls
  <2>5. call' \in [Threads -> Calls]
    BY <2>1, <2>4 DEF TypeOK
  <2>6. QED BY <2>2, <2>3, <2>5 DEF TypeOK
<1>2. CASE BeginOwn(t)
  <2>1. PICK h \in owned, kind \in {"log", "flush"}, l \in Levels :
          /\ kind = "flush" => l = kTrace
          /\ call' = [call EXCEPT ![t] = [id |-> calls', kind |-> kind, level |-> l, own |-> TRUE]]
          /\ handle' = [handle EXCEPT ![t] = h]
          /\ seen' = [seen EXCEPT ![t] = {level[h]}]
          /\ Goto(t, IF kind = "log" THEN "filter" ELSE "sink")
    BY <1>2 DEF BeginOwn
  <2>2. calls' = calls + 1
        /\ UNCHANGED <<log_handle, owned, level, i, got, fault, replaced, results, sets>>
    BY <1>2 DEF BeginOwn
  <2>3. calls' \in Nat /\ h \in Handles /\ level[h] \in Levels
    BY <2>2 DEF TypeOK
  <2>4. [id |-> calls', kind |-> kind, level |-> l, own |-> TRUE] \in Calls
    BY <2>3 DEF Calls
  <2>5. call' \in [Threads -> Calls] /\ seen' \in [Threads -> SUBSET Levels]
        /\ handle' \in [Threads -> Handles \cup {NoHandle}]
    BY <2>1, <2>3, <2>4 DEF TypeOK
  <2>6. pc' \in [Threads -> {"idle", "test", "call", "filter", "sink", "dead"}]
    BY <2>1 DEF TypeOK, Goto
  <2>7. \A u \in Threads : pc'[u] \in {"filter", "sink"} => handle'[u] \in Handles
    BY <2>1, <2>3 DEF TypeOK, Goto
  <2>8. QED BY <2>2, <2>3, <2>5, <2>6, <2>7 DEF TypeOK
<1>3. CASE TestHandle(t)
  <2>1. UNCHANGED <<log_handle, owned, level, got, fault, results, calls, sets>>
    BY <1>3 DEF TestHandle
  <2>2. CASE Return(t)
    BY <2>1, <2>2, TypeReturn DEF TypeOK
  <2>3. CASE Goto(t, "call") /\ UNCHANGED <<call, handle, i, replaced, seen>>
    BY <2>1, <2>3 DEF TypeOK, Goto
  <2>4. QED BY <1>3, <2>2, <2>3 DEF TestHandle, Test
<1>4. CASE CallHandle(t)
  <2>1. UNCHANGED <<log_handle, owned, level, got, results, calls, sets>>
    BY <1>4 DEF CallHandle
  <2>2. CASE log_handle = NoHandle
    BY <1>4, <2>1, <2>2, TypeFault DEF CallHandle
  <2>3. CASE log_handle # NoHandle
    <3>1. /\ handle' = [handle EXCEPT ![t] = log_handle]
          /\ seen' = [seen EXCEPT ![t] = {level[log_handle]}]
          /\ pc' = [pc EXCEPT ![t] = "filter"]
          /\ UNCHANGED <<call, i, fault, replaced>>
      BY <1>4, <2>3 DEF CallHandle, Goto
    <3>2. log_handle \in Handles /\ level[log_handle] \in Levels
      BY <2>3 DEF TypeOK
    <3>3. QED BY <2>1, <3>1, <3>2 DEF TypeOK
  <2>4. QED BY <2>2, <2>3
<1>5. CASE Filter(t)
  <2>1. UNCHANGED <<log_handle, owned, level, got, calls, sets>> /\ pc[t] = "filter"
    BY <1>5 DEF Filter
  <2>2. handle[t] \in Handles
    BY <2>1 DEF TypeOK
  <2>3. CASE Fault(t, "dangling") /\ UNCHANGED results
    BY <2>1, <2>3, TypeFault
  <2>4. CASE Goto(t, "sink") /\ UNCHANGED <<call, handle, i, fault, replaced, seen, results>>
    BY <2>1, <2>2, <2>4 DEF TypeOK, Goto
  <2>5. CASE Result(t, FALSE) /\ Return(t) /\ UNCHANGED fault
    BY <2>1, <2>2, <2>5, TypeResult, TypeReturn
  <2>6. QED BY <1>5, <2>3, <2>4, <2>5 DEF Filter
<1>6. CASE CallSink(t)
  <2>1. UNCHANGED <<log_handle, owned, level, calls, sets>> /\ pc[t] = "sink"
    BY <1>6 DEF CallSink
  <2>2. handle[t] \in Handles
    BY <2>1 DEF TypeOK
  <2>3. CASE handle[t] \in Alive /\ More(t)
    <3>1. /\ DOMAIN got' = Handles
          /\ \A h \in Handles : got'[h] \in [1..Len(Sinks[h]) -> Seq(Nat)]
          /\ i' = [i EXCEPT ![t] = i[t] + 1]
          /\ UNCHANGED <<pc, call, handle, replaced, seen, results, fault>>
      BY <1>6, <2>3, GotFacts
    <3>2. i' \in [Threads -> Nat]
      BY <3>1 DEF TypeOK
    <3>3. QED BY <2>1, <3>1, <3>2 DEF TypeOK
  <2>4. CASE Fault(t, "dangling") /\ UNCHANGED <<got, results>>
    BY <2>1, <2>4, TypeFault
  <2>5. CASE Result(t, TRUE) /\ Return(t) /\ UNCHANGED <<got, fault>>
    BY <2>1, <2>2, <2>5, TypeResult, TypeReturn
  <2>6. QED BY <1>6, <2>3, <2>4, <2>5 DEF CallSink
<1>7. QED BY <1>1, <1>2, <1>3, <1>4, <1>5, <1>6

LEMMA TypeNext == TypeOK /\ [Next]_vars => TypeOK'
<1> SUFFICES ASSUME TypeOK, [Next]_vars PROVE TypeOK'
  OBVIOUS
<1>1. CASE SetLogHandle
  BY <1>1 DEF TypeOK, SetLogHandle
<1>2. CASE DropHandle
  BY <1>2 DEF TypeOK, DropHandle
<1>3. CASE SetLevel
  <2>1. PICK h \in owned, l \in Levels :
           /\ level' = [level EXCEPT ![h] = l]
           /\ seen' = [t \in Threads |-> IF handle[t] = h THEN seen[t] \cup {l} ELSE seen[t]]
    BY <1>3 DEF SetLevel
  <2>2. sets' = sets + 1
        /\ UNCHANGED <<log_handle, owned, pc, call, handle, i, got, fault, replaced, results, calls>>
    BY <1>3 DEF SetLevel
  <2>3. level' \in [Handles -> Levels] /\ seen' \in [Threads -> SUBSET Levels]
    BY <2>1 DEF TypeOK
  <2>4. QED BY <2>2, <2>3 DEF TypeOK
<1>4. CASE UNCHANGED vars
  BY <1>4 DEF TypeOK, vars
<1>5. QED BY <1>1, <1>2, <1>3, <1>4, TypeCall DEF Next

\* The variables have their types in every reachable state.
THEOREM TypeCorrect == Spec => []TypeOK
<1>1. QED BY TypeInit, TypeNext, PTL DEF Spec

-----------------------------------------------------------------------------
(* A call and its handle                                                      *)

\* A step of one thread leaves the others where they are.
LEMMA Others ==
    ASSUME TypeOK, NEW t \in Threads,
           BeginMacro(t) \/ BeginOwn(t) \/ TestHandle(t) \/ CallHandle(t) \/ Filter(t) \/ CallSink(t)
    PROVE  /\ UNCHANGED <<log_handle, owned, level>>
           /\ \A u \in Threads \ {t} :
                 /\ pc'[u] = pc[u] /\ call'[u] = call[u] /\ handle'[u] = handle[u]
                 /\ i'[u] = i[u] /\ fault'[u] = fault[u] /\ replaced'[u] = replaced[u]
                 /\ seen'[u] = seen[u]
<1>1. CASE BeginMacro(t)
  BY <1>1 DEF TypeOK, BeginMacro, Goto
<1>2. CASE BeginOwn(t)
  BY <1>2 DEF TypeOK, BeginOwn, Goto
<1>3. CASE TestHandle(t)
  BY <1>3 DEF TypeOK, TestHandle, Test, Return, Goto
<1>4. CASE CallHandle(t)
  BY <1>4 DEF TypeOK, CallHandle, Fault, Goto
<1>5. CASE Return(t) /\ fault' = fault
  BY <1>5 DEF TypeOK, BeginMacro, BeginOwn, TestHandle, CallHandle, Filter, CallSink, Return, Goto
<1>6. CASE Fault(t, "dangling")
  BY <1>6 DEF TypeOK, BeginMacro, BeginOwn, TestHandle, CallHandle, Filter, CallSink, Fault, Goto
<1>7. CASE Filter(t)
  <2>1. CASE Goto(t, "sink") /\ UNCHANGED <<call, handle, i, fault, replaced, seen, results>>
    BY <1>7, <2>1 DEF TypeOK, Filter, Goto
  <2>2. QED BY <1>5, <1>6, <1>7, <2>1 DEF Filter
<1>8. CASE CallSink(t)
  <2>1. CASE /\ i' = [i EXCEPT ![t] = @ + 1]
             /\ UNCHANGED <<pc, call, handle, fault, replaced, seen, results>>
    BY <1>8, <2>1 DEF TypeOK, CallSink
  <2>2. QED BY <1>5, <1>6, <1>8, <2>1 DEF CallSink
<1>9. QED BY <1>1, <1>2, <1>3, <1>4, <1>7, <1>8

LEMMA CallOkOfOthers ==
    ASSUME TypeOK, CallInv, NEW t \in Threads,
           BeginMacro(t) \/ BeginOwn(t) \/ TestHandle(t) \/ CallHandle(t) \/ Filter(t) \/ CallSink(t),
           NEW u \in Threads, u # t
    PROVE  CallOk(u)'
<1>1. CallOk(u)
  BY DEF CallInv
<1>2. QED BY <1>1, Others DEF CallOk

\* A call that returns leaves nothing behind.
LEMMA CallOkReturn ==
    ASSUME TypeOK, NEW t \in Threads, CallOk(t), pc[t] # "dead", Return(t), fault' = fault
    PROVE  CallOk(t)'
<1>1. pc'[t] = "idle" /\ i'[t] = 0 /\ fault[t] = "none"
  BY DEF TypeOK, Return, Goto, CallOk
<1>2. QED BY <1>1 DEF CallOk

LEMMA CallStep ==
    ASSUME TypeOK, TypeOK', CallInv, [Next]_vars
    PROVE  CallInv'
<1>1. ASSUME NEW t \in Threads, BeginMacro(t) PROVE CallOk(t)'
  <2>1. PICK l \in Levels : call' = [call EXCEPT ![t] =
                               [id |-> calls', kind |-> "log", level |-> l, own |-> FALSE]]
    BY <1>1 DEF BeginMacro
  <2>2. pc[t] = "idle" /\ pc' = [pc EXCEPT ![t] = "test"] /\ UNCHANGED <<i, fault>>
    BY <1>1 DEF BeginMacro, Goto
  <2>3. pc'[t] = "test" /\ call'[t].kind = "log" /\ call'[t].own = FALSE
    BY <2>1, <2>2 DEF TypeOK
  <2>4. QED BY <2>2, <2>3 DEF CallInv, CallOk
<1>2. ASSUME NEW t \in Threads, BeginOwn(t) PROVE CallOk(t)'
  <2>1. PICK h \in owned, kind \in {"log", "flush"}, l \in Levels :
          /\ call' = [call EXCEPT ![t] = [id |-> calls', kind |-> kind, level |-> l, own |-> TRUE]]
          /\ handle' = [handle EXCEPT ![t] = h]
          /\ seen' = [seen EXCEPT ![t] = {level[h]}]
          /\ pc' = [pc EXCEPT ![t] = IF kind = "log" THEN "filter" ELSE "sink"]
    BY <1>2 DEF BeginOwn, Goto
  <2>2. pc[t] = "idle" /\ UNCHANGED <<level, i, fault>>
    BY <1>2 DEF BeginOwn
  <2>3. /\ call'[t].kind = kind /\ call'[t].own = TRUE /\ handle'[t] = h
        /\ seen'[t] = {level[h]} /\ pc'[t] = IF kind = "log" THEN "filter" ELSE "sink"
    BY <2>1 DEF TypeOK
  <2>4. i[t] = 0 /\ fault[t] = "none"
    BY <2>2 DEF CallInv, CallOk
  <2>5. QED BY <2>2, <2>3, <2>4 DEF CallOk
<1>3. ASSUME NEW t \in Threads, TestHandle(t) PROVE CallOk(t)'
  <2>1. CASE Return(t)
    BY <1>3, <2>1, CallOkReturn DEF TestHandle, CallInv
  <2>2. CASE log_handle # NoHandle /\ pc' = [pc EXCEPT ![t] = "call"]
             /\ UNCHANGED <<call, handle, i, replaced, seen>>
    <3>1. pc[t] = "test" /\ pc'[t] = "call" /\ UNCHANGED <<log_handle, fault>>
      BY <1>3, <2>2 DEF TestHandle, TypeOK
    <3>2. QED BY <2>2, <3>1 DEF CallInv, CallOk
  <2>3. QED BY <1>3, <2>1, <2>2 DEF TestHandle, Test, Goto
<1>4. ASSUME NEW t \in Threads, CallHandle(t) PROVE CallOk(t)'
  <2>1. pc[t] = "call" /\ UNCHANGED <<log_handle, level>> /\ CallOk(t)
    BY <1>4 DEF CallHandle, CallInv
  <2>2. CASE log_handle = NoHandle
    <3>1. /\ pc'[t] = "dead" /\ fault'[t] = "null"
          /\ UNCHANGED <<call, handle, i, replaced, seen>>
      BY <1>4, <2>2 DEF CallHandle, Fault, Goto, TypeOK
    <3>2. QED BY <2>1, <2>2, <3>1 DEF CallOk
  <2>3. CASE log_handle # NoHandle
    <3>1. /\ handle'[t] = log_handle /\ seen'[t] = {level[log_handle]} /\ pc'[t] = "filter"
          /\ UNCHANGED <<call, i, fault, replaced>>
      BY <1>4, <2>3 DEF CallHandle, Goto, TypeOK
    <3>2. QED BY <2>1, <3>1 DEF CallOk
  <2>4. QED BY <2>2, <2>3
<1>5. ASSUME NEW t \in Threads, handle[t] \notin Alive, pc[t] \in {"filter", "sink"},
             Fault(t, "dangling"), UNCHANGED <<log_handle, level>>
      PROVE  CallOk(t)'
  <2>1. ~call[t].own /\ handle[t] # log_handle
    BY <1>5 DEF Alive
  <2>2. replaced[t]
    BY <1>5, <2>1 DEF CallInv, CallOk
  <2>3. /\ pc'[t] = "dead" /\ fault'[t] = "dangling"
        /\ UNCHANGED <<call, handle, i, replaced, seen>>
    BY <1>5 DEF Fault, Goto, TypeOK
  <2>4. QED BY <2>1, <2>2, <2>3 DEF CallOk
<1>6. ASSUME NEW t \in Threads, Filter(t) PROVE CallOk(t)'
  <2>1. pc[t] = "filter" /\ UNCHANGED <<log_handle, level>> /\ CallOk(t)
    BY <1>6 DEF Filter, CallInv
  <2>2. CASE handle[t] \notin Alive
    BY <1>6, <2>1, <2>2, <1>5 DEF Filter
  <2>3. CASE Return(t) /\ fault' = fault
    BY <2>1, <2>3, CallOkReturn
  <2>4. CASE ShouldLog(t) /\ Goto(t, "sink")
             /\ UNCHANGED <<call, handle, i, fault, replaced, seen, results>>
    <3>1. pc'[t] = "sink"
      BY <2>4 DEF Goto, TypeOK
    <3>2. \E l \in seen[t] : call[t].level >= l
      BY <2>1, <2>4 DEF CallOk, ShouldLog
    <3>3. QED BY <2>1, <2>4, <3>1, <3>2 DEF CallOk
  <2>5. QED BY <1>6, <2>2, <2>3, <2>4 DEF Filter
<1>7. ASSUME NEW t \in Threads, CallSink(t) PROVE CallOk(t)'
  <2>1. pc[t] = "sink" /\ UNCHANGED <<log_handle, level>> /\ CallOk(t)
    BY <1>7 DEF CallSink, CallInv
  <2>2. CASE handle[t] \notin Alive
    BY <1>7, <2>1, <2>2, <1>5 DEF CallSink
  <2>3. CASE Return(t) /\ fault' = fault
    BY <2>1, <2>3, CallOkReturn
  <2>4. CASE UNCHANGED <<pc, call, handle, fault, replaced, seen, results>>
    BY <2>1, <2>4 DEF CallOk
  <2>5. QED BY <1>7, <2>2, <2>3, <2>4 DEF CallSink
<1>8. CASE SetLogHandle
  <2>1. replaced' = [t \in Threads |-> pc[t] # "idle"]
        /\ UNCHANGED <<level, pc, call, handle, i, fault, seen>>
    BY <1>8 DEF SetLogHandle
  <2>2. ASSUME NEW t \in Threads PROVE CallOk(t)'
    <3>1. CallOk(t) /\ replaced'[t] = (pc[t] # "idle")
      BY <2>1 DEF CallInv
    <3>2. QED BY <2>1, <3>1 DEF CallOk
  <2>3. QED BY <2>2 DEF CallInv
<1>9. CASE DropHandle \/ UNCHANGED vars
  <2>1. UNCHANGED <<log_handle, level, pc, call, handle, i, fault, replaced, seen>>
    BY <1>9 DEF DropHandle, vars
  <2>2. QED BY <2>1 DEF CallInv, CallOk
<1>10. CASE SetLevel
  <2>1. PICK h \in owned, l \in Levels :
           /\ level' = [level EXCEPT ![h] = l]
           /\ seen' = [t \in Threads |-> IF handle[t] = h THEN seen[t] \cup {l} ELSE seen[t]]
    BY <1>10 DEF SetLevel
  <2>2. UNCHANGED <<log_handle, pc, call, handle, i, fault, replaced>>
    BY <1>10 DEF SetLevel
  <2>3. ASSUME NEW t \in Threads PROVE CallOk(t)'
    <3>1. CallOk(t) /\ seen[t] \subseteq seen'[t]
      BY <2>1 DEF CallInv
    <3>2. pc[t] \in {"filter", "sink"} => level'[handle[t]] \in seen'[t]
      BY <2>1, <3>1 DEF CallOk, TypeOK
    <3>3. QED BY <2>2, <3>1, <3>2 DEF CallOk
  <2>4. QED BY <2>3 DEF CallInv
<1>11. ASSUME NEW t \in Threads,
              BeginMacro(t) \/ BeginOwn(t) \/ TestHandle(t) \/ CallHandle(t) \/ Filter(t) \/ CallSink(t)
       PROVE  CallInv'
  <2>1. CallOk(t)'
    BY <1>11, <1>1, <1>2, <1>3, <1>4, <1>6, <1>7
  <2>2. \A u \in Threads : u # t => CallOk(u)'
    BY <1>11, CallOkOfOthers
  <2>3. QED BY <2>1, <2>2 DEF CallInv
<1>12. QED BY <1>8, <1>9, <1>10, <1>11 DEF Next

-----------------------------------------------------------------------------
(* Calls and their numbers                                                    *)

\* A call begins with a number of its own.
LEMMA BeginFacts ==
    ASSUME TypeOK, NEW t \in Threads, BeginMacro(t) \/ BeginOwn(t)
    PROVE  /\ pc[t] = "idle" /\ pc'[t] \in {"test", "filter", "sink"}
           /\ call'[t].id = calls + 1 /\ calls' = calls + 1 /\ calls \in Nat
           /\ UNCHANGED <<got, results, i>>
<1>1. CASE BeginMacro(t)
  <2>1. PICK l \in Levels : call' = [call EXCEPT ![t] =
                               [id |-> calls', kind |-> "log", level |-> l, own |-> FALSE]]
    BY <1>1 DEF BeginMacro
  <2>2. QED BY <1>1, <2>1 DEF BeginMacro, TypeOK, Goto
<1>2. CASE BeginOwn(t)
  <2>1. PICK h \in owned, kind \in {"log", "flush"}, l \in Levels :
          /\ call' = [call EXCEPT ![t] = [id |-> calls', kind |-> kind, level |-> l, own |-> TRUE]]
          /\ pc' = [pc EXCEPT ![t] = IF kind = "log" THEN "filter" ELSE "sink"]
    BY <1>2 DEF BeginOwn, Goto
  <2>2. QED BY <1>2, <2>1 DEF BeginOwn, TypeOK
<1>3. QED BY <1>1, <1>2

\* A call keeps its number until it returns.
LEMMA GoFacts ==
    ASSUME TypeOK, NEW t \in Threads,
           TestHandle(t) \/ CallHandle(t) \/ Filter(t) \/ CallSink(t)
    PROVE  /\ pc[t] # "idle" /\ pc[t] # "dead" /\ calls' = calls
           /\ \/ pc'[t] # "idle" /\ call'[t] = call[t] /\ results' = results
              \/ /\ pc'[t] = "idle"
                 /\ results' = results \/ \E passed \in BOOLEAN : Result(t, passed)
<1>1. CASE TestHandle(t)
  BY <1>1 DEF TestHandle, Test, Return, Goto, TypeOK
<1>2. CASE CallHandle(t)
  BY <1>2 DEF CallHandle, Fault, Goto, TypeOK
<1>3. CASE Filter(t)
  <2>1. pc[t] = "filter" /\ calls' = calls
    BY <1>3 DEF Filter
  <2>2. CASE Fault(t, "dangling") /\ UNCHANGED results
    BY <2>1, <2>2 DEF Fault, Goto, TypeOK
  <2>3. CASE Goto(t, "sink") /\ UNCHANGED <<call, handle, i, fault, replaced, seen, results>>
    BY <2>1, <2>3 DEF Goto, TypeOK
  <2>4. CASE Result(t, FALSE) /\ Return(t)
    BY <2>1, <2>4 DEF Return, Goto, TypeOK
  <2>5. QED BY <1>3, <2>2, <2>3, <2>4 DEF Filter
<1>4. CASE CallSink(t)
  <2>1. pc[t] = "sink" /\ calls' = calls
    BY <1>4 DEF CallSink
  <2>2. CASE Fault(t, "dangling") /\ UNCHANGED results
    BY <2>1, <2>2 DEF Fault, Goto, TypeOK
  <2>3. CASE UNCHANGED <<pc, call, handle, fault, replaced, seen, results>>
    BY <2>1, <2>3
  <2>4. CASE Result(t, TRUE) /\ Return(t)
    BY <2>1, <2>4 DEF Return, Goto, TypeOK
  <2>5. QED BY <1>4, <2>2, <2>3, <2>4 DEF CallSink
<1>5. QED BY <1>1, <1>2, <1>3, <1>4

\* What the sinks have seen changes in one way only.
LEMMA GotChange ==
    ASSUME TypeOK, [Next]_vars
    PROVE  \/ got' = got
           \/ \E t \in Threads :
                 /\ CallSink(t) /\ handle[t] \in Alive /\ More(t)
<1>1. ASSUME NEW t \in Threads, CallSink(t), ~(handle[t] \in Alive /\ More(t))
      PROVE  got' = got
  BY <1>1 DEF CallSink
<1>2. QED BY <1>1 DEF Next, BeginMacro, BeginOwn, TestHandle, CallHandle, Filter,
                      SetLogHandle, DropHandle, SetLevel, vars

LEMMA IdStep ==
    ASSUME TypeOK, IdInv, [Next]_vars
    PROVE  IdInv'
<1>1. calls \in Nat
  BY DEF TypeOK
<1>2. calls' = calls \/ calls' = calls + 1
  <2>1. ASSUME NEW t \in Threads, BeginMacro(t) \/ BeginOwn(t) PROVE calls' = calls + 1
    BY <2>1 DEF BeginMacro, BeginOwn
  <2>2. ASSUME NEW t \in Threads, TestHandle(t) \/ CallHandle(t) \/ Filter(t) \/ CallSink(t)
        PROVE  calls' = calls
    BY <2>2 DEF TestHandle, CallHandle, Filter, CallSink
  <2>3. CASE SetLogHandle \/ DropHandle \/ SetLevel \/ UNCHANGED vars
    BY <2>3 DEF SetLogHandle, DropHandle, SetLevel, vars
  <2>4. QED BY <2>1, <2>2, <2>3 DEF Next
<1>3. \A h \in Handles : \A k \in 1..Len(Sinks[h]) :
         \A n \in 1..Len(got'[h][k]) : got'[h][k][n] <= calls'
  <2>1. \A h \in Handles : \A k \in 1..Len(Sinks[h]) :
           /\ got[h][k] \in Seq(Nat)
           /\ \A n \in 1..Len(got[h][k]) : got[h][k][n] <= calls
    BY DEF TypeOK, IdInv
  <2>2. ASSUME NEW h \in Handles, NEW k \in 1..Len(Sinks[h]), NEW n \in 1..Len(got[h][k])
        PROVE  got[h][k][n] <= calls'
    <3>1. got[h][k] \in Seq(Nat) /\ got[h][k][n] <= calls
      BY <2>1
    <3>2. got[h][k][n] \in Nat
      BY <3>1
    <3>3. QED BY <3>1, <3>2, <1>1, <1>2
  <2>3. ASSUME NEW t \in Threads, CallSink(t), handle[t] \in Alive, More(t),
               NEW h \in Handles, NEW k \in 1..Len(Sinks[h]), NEW n \in 1..Len(got'[h][k])
        PROVE  got'[h][k][n] <= calls'
    <3>1. /\ pc[t] = "sink"
          /\ got'[h][k] = IF h = handle[t] /\ k = i[t] + 1
                          THEN Append(got[h][k], call[t].id) ELSE got[h][k]
      BY <2>3, GotFacts
    <3>2. call[t].id \in 1..calls
      BY <3>1 DEF IdInv
    <3> DEFINE s == got[h][k]
    <3>3. s \in Seq(Nat) /\ \A m \in 1..Len(s) : s[m] <= calls'
      BY <2>1, <2>2
    <3> HIDE DEF s
    <3>4. \A m \in 1..Len(Append(s, call[t].id)) : Append(s, call[t].id)[m] <= calls'
      BY <3>2, <3>3, <1>1, <1>2
    <3>5. QED BY <3>1, <3>3, <3>4 DEF s
  <2>4. QED BY <2>2, <2>3, GotChange
<1>4. ASSUME UNCHANGED <<pc, call, results>> PROVE IdInv'
  <2>1. \A n \in 1..calls : n \in 1..calls'
    BY <1>1, <1>2
  <2>2. /\ \A t \in Threads : pc[t] # "idle" => call[t].id \in 1..calls'
        /\ \A rec \in results : rec.call.id \in 1..calls'
    BY <2>1 DEF IdInv
  <2>3. /\ \A t, u \in Threads :
              t # u /\ pc'[t] # "idle" /\ pc'[u] # "idle" => call'[t].id # call'[u].id
        /\ \A rec \in results' : \A t \in Threads : pc'[t] # "idle" => call'[t].id # rec.call.id
    BY <1>4 DEF IdInv
  <2>4. QED BY <1>3, <1>4, <2>2, <2>3 DEF IdInv
<1>5. ASSUME NEW t \in Threads, BeginMacro(t) \/ BeginOwn(t) PROVE IdInv'
  <2>1. /\ call'[t].id = calls + 1 /\ calls' = calls + 1 /\ results' = results
        /\ \A u \in Threads \ {t} : pc'[u] = pc[u] /\ call'[u] = call[u]
    BY <1>5, BeginFacts, Others
  <2>2. \A u \in Threads : pc'[u] # "idle" => call'[u].id \in 1..calls'
    BY <1>1, <2>1 DEF IdInv
  <2>3. \A u, v \in Threads :
           u # v /\ pc'[u] # "idle" /\ pc'[v] # "idle" => call'[u].id # call'[v].id
    BY <1>1, <2>1 DEF IdInv
  <2>4. \A r \in results' :
           /\ r.call.id \in 1..calls'
           /\ \A u \in Threads : pc'[u] # "idle" => call'[u].id # r.call.id
    BY <1>1, <2>1 DEF IdInv
  <2>5. QED BY <1>3, <2>2, <2>3, <2>4 DEF IdInv
<1>6. ASSUME NEW t \in Threads, TestHandle(t) \/ CallHandle(t) \/ Filter(t) \/ CallSink(t)
      PROVE  IdInv'
  <2>1. /\ pc[t] # "idle" /\ calls' = calls
        /\ \/ pc'[t] # "idle" /\ call'[t] = call[t] /\ results' = results
           \/ /\ pc'[t] = "idle"
              /\ results' = results \/ \E passed \in BOOLEAN : Result(t, passed)
    BY <1>6, GoFacts
  <2>2. \A u \in Threads \ {t} : pc'[u] = pc[u] /\ call'[u] = call[u]
    BY <1>6, Others
  <2>3. CASE results' = results
    BY <1>3, <2>1, <2>2, <2>3 DEF IdInv
  <2>4. ASSUME NEW passed \in BOOLEAN, pc'[t] = "idle", Result(t, passed) PROVE IdInv'
    <3>1. \A r \in results' : r \in results \/ r.call = call[t]
      BY <2>4 DEF Result
    <3>2. \A r \in results' :
             /\ r.call.id \in 1..calls'
             /\ \A u \in Threads : pc'[u] # "idle" => call'[u].id # r.call.id
      BY <2>1, <2>2, <2>4, <3>1 DEF IdInv
    <3>3. \A u \in Threads : pc'[u] # "idle" => call'[u].id \in 1..calls'
      BY <2>1, <2>2, <2>4 DEF IdInv
    <3>4. \A u, v \in Threads :
             u # v /\ pc'[u] # "idle" /\ pc'[v] # "idle" => call'[u].id # call'[v].id
      BY <2>2, <2>4 DEF IdInv
    <3>5. QED BY <1>3, <3>2, <3>3, <3>4 DEF IdInv
  <2>5. QED BY <2>1, <2>3, <2>4
<1>7. CASE SetLogHandle \/ DropHandle \/ SetLevel \/ UNCHANGED vars
  BY <1>4, <1>7 DEF SetLogHandle, DropHandle, SetLevel, vars
<1>8. QED BY <1>5, <1>6, <1>7 DEF Next

-----------------------------------------------------------------------------
(* What the sinks have seen                                                   *)

\* Calling a sink counts for the call that does it and for no other.
LEMMA TimesGot ==
    ASSUME TypeOK, NEW t \in Threads, CallSink(t), handle[t] \in Alive, More(t),
           NEW h \in Handles, NEW k \in 1..Len(Sinks[h]), NEW id \in Nat
    PROVE  /\ Times(got[h][k], id) \in Nat
           /\ Times(got'[h][k], id)
                 = IF id = call[t].id /\ h = handle[t] /\ k = i[t] + 1
                   THEN Times(got[h][k], id) + 1 ELSE Times(got[h][k], id)
<1>1. got[h][k] \in Seq(Nat) /\ call[t].id \in Nat
  BY DEF TypeOK, Calls
<1>2. got'[h][k] = IF h = handle[t] /\ k = i[t] + 1
                   THEN Append(got[h][k], call[t].id) ELSE got[h][k]
  BY GotFacts
<1> DEFINE s == got[h][k]
           m == call[t].id
<1>3. /\ Times(s, id) \in Nat
      /\ Times(Append(s, m), id) = IF m = id THEN Times(s, id) + 1 ELSE Times(s, id)
  <2>1. s \in Seq(Nat) /\ m \in Nat
    BY <1>1
  <2> HIDE DEF s, m
  <2>2. QED BY <2>1, TimesAppend
<1>4. CASE h = handle[t] /\ k = i[t] + 1
  BY <1>2, <1>3, <1>4
<1>5. CASE ~(h = handle[t] /\ k = i[t] + 1)
  BY <1>2, <1>3, <1>5
<1>6. QED BY <1>4, <1>5

LEMMA GotStep ==
    ASSUME TypeOK, CallInv, IdInv, GotInv, [Next]_vars
    PROVE  GotInv'
<1> SUFFICES ASSUME NEW u \in Threads, NEW h \in Handles, NEW k \in 1..Len(Sinks[h]),
                    pc'[u] \notin {"idle", "dead"}
             PROVE  Times(got'[h][k], call'[u].id)
                    = IF pc'[u] = "sink" /\ h = handle'[u] /\ k <= i'[u] THEN 1 ELSE 0
  BY DEF GotInv
<1>1. pc[u] \notin {"idle", "dead"} =>
         Times(got[h][k], call[u].id)
            = IF pc[u] = "sink" /\ h = handle[u] /\ k <= i[u] THEN 1 ELSE 0
  BY DEF GotInv
<1>2. k \in Nat /\ k >= 1 /\ i \in [Threads -> Nat]
  <2>1. Len(Sinks[h]) \in Nat
    BY HandleAssumption
  <2>2. QED BY <2>1 DEF TypeOK
<1>3. ASSUME NEW t \in Threads, CallSink(t), handle[t] \in Alive, More(t)
      PROVE  Times(got'[h][k], call'[u].id)
             = IF pc'[u] = "sink" /\ h = handle'[u] /\ k <= i'[u] THEN 1 ELSE 0
  <2>1. /\ pc[t] = "sink" /\ pc' = pc /\ call' = call /\ handle' = handle
        /\ i' = [i EXCEPT ![t] = i[t] + 1]
    BY <1>3, GotFacts
  <2>2. call[u].id \in Nat
    BY DEF TypeOK, Calls
  <2>3. /\ Times(got[h][k], call[u].id) \in Nat
        /\ Times(got'[h][k], call[u].id)
              = IF call[u].id = call[t].id /\ h = handle[t] /\ k = i[t] + 1
                THEN Times(got[h][k], call[u].id) + 1 ELSE Times(got[h][k], call[u].id)
    BY <1>3, <2>2, TimesGot, SMTT(20)
  <2>4. CASE u = t
    <3>1. i'[u] = i[u] + 1 /\ i[u] \in Nat
      BY <1>2, <2>1, <2>4
    <3>2. QED BY <3>1, <2>1, <2>3, <2>4, <1>1, <1>2
  <2>5. CASE u # t
    <3>1. call[u].id # call[t].id /\ i'[u] = i[u]
      BY <1>2, <2>1, <2>5 DEF IdInv
    <3>2. QED BY <3>1, <2>1, <2>3, <1>1
  <2>6. QED BY <2>4, <2>5
<1>4. ASSUME got' = got, pc'[u] = pc[u], call'[u] = call[u], handle'[u] = handle[u], i'[u] = i[u]
      PROVE  Times(got'[h][k], call'[u].id)
             = IF pc'[u] = "sink" /\ h = handle'[u] /\ k <= i'[u] THEN 1 ELSE 0
  BY <1>1, <1>4
<1>5. ASSUME NEW t \in Threads, t # u, got' = got,
             BeginMacro(t) \/ BeginOwn(t) \/ TestHandle(t) \/ CallHandle(t) \/ Filter(t) \/ CallSink(t)
      PROVE  Times(got'[h][k], call'[u].id)
             = IF pc'[u] = "sink" /\ h = handle'[u] /\ k <= i'[u] THEN 1 ELSE 0
  BY <1>4, <1>5, Others
<1>6. ASSUME BeginMacro(u) \/ BeginOwn(u)
      PROVE  Times(got'[h][k], call'[u].id)
             = IF pc'[u] = "sink" /\ h = handle'[u] /\ k <= i'[u] THEN 1 ELSE 0
  <2>1. /\ pc[u] = "idle" /\ call'[u].id = calls + 1 /\ calls \in Nat
        /\ got' = got /\ i' = i
    BY <1>6, BeginFacts
  <2>2. \A n \in 1..Len(got[h][k]) : got[h][k][n] # calls + 1
    <3>1. got[h][k] \in Seq(Nat)
      BY DEF TypeOK
    <3>2. \A n \in 1..Len(got[h][k]) : got[h][k][n] <= calls
      BY DEF IdInv
    <3> DEFINE s == got[h][k]
    <3>3. s \in Seq(Nat) /\ \A n \in 1..Len(s) : s[n] <= calls
      BY <3>1, <3>2
    <3> HIDE DEF s
    <3>4. \A n \in 1..Len(s) : s[n] \in Nat
      BY <3>3
    <3>5. \A n \in 1..Len(s) : s[n] # calls + 1
      BY <3>3, <3>4, <2>1
    <3>6. QED BY <3>5 DEF s
  <2>3. Times(got[h][k], calls + 1) = 0
    BY <2>2, TimesNone
  <2>4. i[u] = 0
    BY <2>1 DEF CallInv, CallOk
  <2>5. QED BY <2>1, <2>3, <2>4, <1>2
<1>7. ASSUME TestHandle(u) \/ CallHandle(u), got' = got
      PROVE  Times(got'[h][k], call'[u].id)
             = IF pc'[u] = "sink" /\ h = handle'[u] /\ k <= i'[u] THEN 1 ELSE 0
  <2>1. pc[u] \in {"test", "call"} /\ pc'[u] # "sink"
    BY <1>7 DEF TestHandle, Test, CallHandle, Return, Fault, Goto, TypeOK
  <2>2. call'[u] = call[u]
    BY <1>7, GoFacts
  <2>3. QED BY <1>1, <1>7, <2>1, <2>2
<1>8. ASSUME Filter(u), got' = got
      PROVE  Times(got'[h][k], call'[u].id)
             = IF pc'[u] = "sink" /\ h = handle'[u] /\ k <= i'[u] THEN 1 ELSE 0
  <2>1. pc[u] = "filter" /\ i[u] = 0 /\ call'[u] = call[u]
    BY <1>8, GoFacts DEF Filter, CallInv, CallOk
  <2>2. i'[u] = 0
    BY <1>8, <2>1 DEF Filter, Fault, Return, TypeOK
  <2>3. QED BY <1>1, <1>2, <1>8, <2>1, <2>2
<1>9. ASSUME CallSink(u), got' = got, ~(handle[u] \in Alive /\ More(u))
      PROVE  FALSE
  BY <1>9 DEF CallSink, Fault, Return, Goto, TypeOK
<1>10. CASE SetLogHandle \/ DropHandle \/ SetLevel \/ UNCHANGED vars
  BY <1>4, <1>10 DEF SetLogHandle, DropHandle, SetLevel, vars
<1>11. CASE \E t \in Threads : CallSink(t) /\ handle[t] \in Alive /\ More(t)
  BY <1>3, <1>11
<1>12. CASE got' = got /\ ~(\E t \in Threads : CallSink(t) /\ handle[t] \in Alive /\ More(t))
  BY <1>5, <1>6, <1>7, <1>8, <1>9, <1>10, <1>12 DEF Next
<1>13. QED BY <1>11, <1>12, GotChange

\* What is true of one result.
ResultOk(r) ==
    /\ \A k \in 1..Len(Sinks[r.handle]) :
          Times(got[r.handle][k], r.call.id) = IF r.passed THEN 1 ELSE 0
    /\ IF r.call.kind = "log"
       THEN \E l \in r.seen : r.passed <=> r.call.level >= l
       ELSE r.passed

LEMMA AllOrNoneOk ==
    ASSUME TypeOK
    PROVE  AllOrNone <=> \A r \in results : ResultOk(r)
<1>1. \A r \in results : DOMAIN Sinks[r.handle] = 1..Len(Sinks[r.handle])
  BY HandleAssumption DEF TypeOK
<1>2. QED BY <1>1 DEF AllOrNone, ResultOk

LEMMA ResultStep ==
    ASSUME TypeOK, TypeOK', CallInv, IdInv, GotInv, AllOrNone, [Next]_vars
    PROVE  AllOrNone'
<1>1. \A r \in results : ResultOk(r) /\ r.handle \in Handles /\ r.call.id \in Nat
  BY AllOrNoneOk DEF TypeOK, Calls
<1>2. SUFFICES \A r \in results' : ResultOk(r)'
  <2>1. \A r \in results' : DOMAIN Sinks[r.handle] = 1..Len(Sinks[r.handle])
    BY HandleAssumption DEF TypeOK
  <2>2. QED BY <2>1 DEF AllOrNone, ResultOk
\* Old results stay true.
<1>3. ASSUME NEW r \in results PROVE ResultOk(r)'
  <2>1. CASE got' = got
    BY <2>1, <1>1 DEF ResultOk
  <2>2. ASSUME NEW t \in Threads, CallSink(t), handle[t] \in Alive, More(t)
        PROVE  ResultOk(r)'
    <3>1. pc[t] = "sink" /\ call[t].id # r.call.id
      BY <2>2, GotFacts DEF IdInv
    <3>2. \A k \in 1..Len(Sinks[r.handle]) :
             Times(got'[r.handle][k], r.call.id) = Times(got[r.handle][k], r.call.id)
      <4> DEFINE h == r.handle
                 id == r.call.id
      <4>1. h \in Handles /\ id \in Nat /\ id # call[t].id
        BY <1>1, <3>1
      <4> HIDE DEF h, id
      <4>2. \A k \in 1..Len(Sinks[h]) : Times(got'[h][k], id) = Times(got[h][k], id)
        BY <2>2, <4>1, TimesGot
      <4>3. QED BY <4>2 DEF h, id
    <3>3. QED BY <3>2, <1>1 DEF ResultOk
  <2>3. QED BY <2>1, <2>2, GotChange
\* A Log that was filtered has been to no sink.
<1>4. ASSUME NEW t \in Threads, Filter(t), results' # results,
             NEW r \in results', r \notin results
      PROVE  ResultOk(r)'
  <2>1. /\ pc[t] = "filter" /\ ~ShouldLog(t) /\ Result(t, FALSE) /\ got' = got
    BY <1>4 DEF Filter
  <2>2. r = [call |-> call[t], handle |-> handle[t], seen |-> seen[t], passed |-> FALSE]
    BY <1>4, <2>1 DEF Result
  <2>3. r.call = call[t] /\ r.handle = handle[t] /\ r.seen = seen[t] /\ r.passed = FALSE
    BY <2>2
  <2>4. /\ level[handle[t]] \in seen[t] /\ call[t].kind = "log" /\ handle[t] \in Handles
        /\ ~(call[t].level >= level[handle[t]])
    BY <2>1 DEF CallInv, CallOk, TypeOK, ShouldLog
  <2>5. \A k \in 1..Len(Sinks[handle[t]]) : Times(got[handle[t]][k], call[t].id) = 0
    BY <2>1, <2>4 DEF GotInv
  <2>6. \A k \in 1..Len(Sinks[r.handle]) :
           Times(got'[r.handle][k], r.call.id) = IF r.passed THEN 1 ELSE 0
    BY <2>1, <2>3, <2>5
  <2>7. \E l \in r.seen : r.passed <=> r.call.level >= l
    <3>1. \E l \in seen[t] : ~(call[t].level >= l)
      BY <2>4
    <3>2. QED BY <2>3, <3>1
  <2>8. r.call.kind = "log"
    BY <2>3, <2>4
  <2>9. QED BY <2>6, <2>7, <2>8 DEF ResultOk
\* A call that has passed has been to all.
<1>5. ASSUME NEW t \in Threads, CallSink(t), results' # results,
             NEW r \in results', r \notin results
      PROVE  ResultOk(r)'
  <2>1. /\ pc[t] = "sink" /\ ~More(t) /\ Result(t, TRUE) /\ got' = got
    BY <1>5 DEF CallSink
  <2>2. r = [call |-> call[t], handle |-> handle[t], seen |-> seen[t], passed |-> TRUE]
    BY <1>5, <2>1 DEF Result
  <2>3. r.call = call[t] /\ r.handle = handle[t] /\ r.seen = seen[t] /\ r.passed = TRUE
    BY <2>2
  <2>4. handle[t] \in Handles /\ i[t] \in Nat
    BY <2>1 DEF TypeOK
  <2>5. Len(Sinks[handle[t]]) <= i[t] /\ Len(Sinks[handle[t]]) \in Nat
    BY <2>1, <2>4, HandleAssumption DEF More
  <2>6. \A k \in 1..Len(Sinks[handle[t]]) : Times(got[handle[t]][k], call[t].id) = 1
    BY <2>1, <2>4, <2>5 DEF GotInv
  <2>7. call[t].kind = "log" => \E l \in seen[t] : call[t].level >= l
    BY <2>1 DEF CallInv, CallOk
  <2>8. QED BY <2>1, <2>3, <2>6, <2>7 DEF ResultOk
<1>6. ASSUME NEW t \in Threads, TestHandle(t) \/ CallHandle(t) \/ BeginMacro(t) \/ BeginOwn(t)
      PROVE  results' = results
  BY <1>6 DEF TestHandle, CallHandle, BeginMacro, BeginOwn
<1>7. CASE SetLogHandle \/ DropHandle \/ SetLevel \/ UNCHANGED vars
  BY <1>3, <1>7 DEF SetLogHandle, DropHandle, SetLevel, vars
<1>8. QED BY <1>3, <1>4, <1>5, <1>6, <1>7 DEF Next

-----------------------------------------------------------------------------
(* The theorems                                                               *)

LEMMA InvInit == Init => Inv
<1> SUFFICES ASSUME Init PROVE Inv
  OBVIOUS
<1>1. TypeOK
  BY TypeInit
<1>2. CallInv
  BY DEF CallInv, CallOk, Init
<1>3. IdInv
  <2>1. \A h \in Handles : \A k \in 1..Len(Sinks[h]) : got[h][k] = <<>>
    BY HandleAssumption DEF Init
  <2>2. QED BY <2>1 DEF IdInv, Init
<1>4. GotInv
  BY DEF GotInv, Init
<1>5. AllOrNone
  BY DEF AllOrNone, Init
<1>6. QED BY <1>1, <1>2, <1>3, <1>4, <1>5 DEF Inv

LEMMA InvNext == Inv /\ [Next]_vars => Inv'
<1> SUFFICES ASSUME Inv, [Next]_vars PROVE Inv'
  OBVIOUS
<1>1. TypeOK'
  BY TypeNext DEF Inv
<1>2. CallInv' /\ IdInv' /\ GotInv' /\ AllOrNone'
  BY <1>1, CallStep, IdStep, GotStep, ResultStep DEF Inv
<1>3. QED BY <1>1, <1>2 DEF Inv

\* A Log that has returned has been to every sink of its handle once or to none,
\* as a level says that the handle had during the call.
THEOREM Delivered == Spec => []AllOrNone
<1>1. Inv => AllOrNone
  BY DEF Inv
<1>2. QED BY <1>1, InvInit, InvNext, PTL DEF Spec

\* Only LOGGER_INIT during a call of a macro can take the handle away from it.
THEOREM HandleKept == Spec => []ReplacedOnly
<1>1. Inv => ReplacedOnly
  BY DEF Inv, CallInv, CallOk, ReplacedOnly
<1>2. QED BY <1>1, InvInit, InvNext, PTL DEF Spec

-----------------------------------------------------------------------------
(* Decode: what the file and the decoder have                                 *)

Blocks == [msg : Nat, prev : Nat, long : BOOLEAN]
ItemRecords == [key : Nat, whole : BOOLEAN, block : Blocks]
CellRecords == [kind : {"chunk"}, key : Nat, size : Nat \ {0}]
               \cup [kind : {"head", "data"}, item : ItemRecords]
LineRecords == [item : ItemRecords, key : Nat,
                text : {Format(ParsePattern(input.pattern), m) : m \in Nat}]
Statuses == {"log", "file", "chunk", "end", "throw"}

DTypeOK ==
    /\ input \in [pattern : Seq(STRING), codec : Codecs, msgs : Nat]
    /\ file \in Seq(CellRecords) /\ mmap \in Seq(ItemRecords)
    /\ cctx \in Nat \cup {NoStream} /\ session \in Nat /\ next \in Nat \ {0}
    /\ frameOK \in BOOLEAN /\ clean \subseteq Nat
    /\ status \in Statuses
    /\ dctx \in Int
    /\ offset \in Nat /\ pos \in Nat
    /\ output_buf \in Seq(LineRecords) /\ output \in Seq(LineRecords)

IsChunk(c) == c.kind = "chunk"
ChunkAt(f, p) == p \in 1..Len(f) /\ IsChunk(f[p])
Ends(f, p) == p = Len(f) \/ IsChunk(f[p + 1])

\* y is the item that its frame has in front of x.
Follows(x, y) == y.block.msg = x.block.prev /\ y.block.msg \in clean /\ y.key = x.key

\* The k-th cell of the chunk at p.
CellOk(f, p, k) ==
    /\ f[p + k].kind = IF k % 2 = 1 THEN "head" ELSE "data"
    /\ f[p + k].item.key <= f[p].key
    /\ f[p + k].item.key = f[p].key => f[p + k].item.whole
    /\ k % 2 = 0 => f[p + k].item = f[p + k - 1].item
    /\ k % 2 = 1 => (f[p + k].item.whole <=> k # f[p].size)

\* Where the item in front of the k-th cell is.
Back(p, k) == IF k = 1 THEN p - 1 ELSE p + k - 1

LinkOk(f, p, k) ==
    k % 2 = 1 /\ f[p + k].item.key = f[p].key /\ f[p + k].item.block.msg \in clean =>
        /\ ~f[p + k].item.block.long
        /\ f[p + k].item.block.prev # NoMsg =>
              /\ Back(p, k) >= 1 /\ ~IsChunk(f[Back(p, k)])
              /\ Follows(f[p + k].item, f[Back(p, k)].item)

Full(f, p) ==
    /\ p + f[p].size <= Len(f) /\ Ends(f, p + f[p].size)
    /\ \A k \in 1..f[p].size : CellOk(f, p, k) /\ LinkOk(f, p, k)

\* A chunk has its header alone, or all its items.
ChunkInv ==
    /\ file = <<>> \/ IsChunk(file[1])
    /\ \A p \in 1..Len(file) : IsChunk(file[p]) =>
          /\ file[p].key <= session
          /\ Ends(file, p) \/ Full(file, p)
    /\ \A p, q \in 1..Len(file) :
          p < q /\ IsChunk(file[p]) /\ IsChunk(file[q]) => file[p].key <= file[q].key

\* What the mapping has is to be a chunk.
MmapInv ==
    /\ \A k \in 1..Len(mmap) :
          /\ mmap[k].key <= session
          /\ mmap[k].key = session => mmap[k].whole
          /\ k # Len(mmap) => mmap[k].whole
          /\ mmap[k].key = session /\ mmap[k].block.msg \in clean =>
                /\ ~mmap[k].block.long
                /\ mmap[k].block.prev # NoMsg =>
                      IF k > 1 THEN Follows(mmap[k], mmap[k - 1])
                      ELSE /\ file # <<>> /\ ~IsChunk(file[Len(file)])
                           /\ Follows(mmap[k], file[Len(file)].item)

HasLast == mmap # <<>> \/ (file # <<>> /\ ~IsChunk(file[Len(file)]))
LastItem == IF mmap # <<>> THEN mmap[Len(mmap)] ELSE file[Len(file)].item

\* The stream of the sink goes on behind the last item.
StreamInv ==
    frameOK /\ cctx \notin {NoMsg, NoStream} =>
        HasLast /\ LastItem.block.msg = cctx /\ cctx \in clean /\ LastItem.key = session

\* Messages are new.
FreshInv ==
    /\ \A m \in clean : m < next
    /\ \A p \in 1..Len(file) : ~IsChunk(file[p]) => file[p].item.block.msg < next
    /\ \A k \in 1..Len(mmap) : mmap[k].block.msg < next

\* They are stored in their order.
OrderInv == \A j, k \in 1..Len(mmap) : j < k => mmap[j].block.msg < mmap[k].block.msg

SinkInv == ChunkInv /\ MmapInv /\ StreamInv /\ FreshInv /\ OrderInv

-----------------------------------------------------------------------------

\* A line whose message must be read.
Due(line) == line.item.key = line.key /\ line.item.block.msg \in clean

LineOk(line) ==
    /\ line.item.key <= line.key
    /\ line.item.key = line.key => line.item.whole
    /\ Due(line) => line.text = Meaning(input.pattern, line.item.block.msg)

\* The cell p has the item of a line, behind which the stream is.
Behind(line, p) ==
    /\ p \in 1..Len(file) /\ ~IsChunk(file[p]) /\ line.item = file[p].item
    /\ Due(line) => dctx = line.item.block.msg

\* The cells of the chunk that are done.
Done == IF pos < file[offset + 1].size THEN pos ELSE file[offset + 1].size

AtInv ==
    /\ offset <= Len(file)
    /\ status = "log" => offset = 0 /\ pos = 0 /\ output = <<>> /\ output_buf = <<>>
    /\ status = "file" => offset = Len(file) \/ ChunkAt(file, offset + 1)
    /\ status = "chunk" =>
          /\ ChunkAt(file, offset + 1) /\ pos % 2 = 0
          /\ pos = 0 => output_buf = <<>>
          /\ pos > 0 => Full(file, offset + 1)
    /\ status = "throw" /\ file # <<>> => ChunkAt(file, offset + 1) /\ ~Intact(offset)
    /\ status = "end" => offset = Len(file)

OutInv ==
    /\ Items(output) = HeadItems[offset]
    /\ status = "chunk" => Items(output \o output_buf) = HeadItems[offset + 1 + Done]

LineInv ==
    /\ \A k \in 1..Len(output) : LineOk(output[k])
    /\ \A k \in 1..Len(output_buf) : LineOk(output_buf[k])

BehindInv ==
    /\ (status = "file" \/ (status = "chunk" /\ pos = 0)) /\ offset # 0 =>
          /\ output # <<>> /\ Behind(output[Len(output)], offset)
          /\ \A p \in 1..Len(file) :
                p > offset /\ IsChunk(file[p]) => output[Len(output)].key <= file[p].key
    /\ status = "chunk" /\ pos # 0 =>
          /\ output_buf # <<>> /\ Behind(output_buf[Len(output_buf)], offset + 1 + Done)
          /\ output_buf[Len(output_buf)].key = file[offset + 1].key

DecoderInv == AtInv /\ OutInv /\ LineInv /\ BehindInv

FormatInv == status # "log" => formatters = ParsePattern(input.pattern)

DInv == DTypeOK /\ SinkInv /\ DecoderInv /\ FormatInv
-----------------------------------------------------------------------------
(* Induction, and the recursive functions of DecodeFormatter                  *)

\* Induction, of which a set tells for what it holds.
LEMMA Induction ==
    ASSUME NEW T, 0 \in T, \A n \in Nat : n \in T => n + 1 \in T
    PROVE  Nat \subseteq T
<1> DEFINE R == OpToRel(<, Nat)
           D == Nat \ T
<1>1. IsWellFoundedOn(R, Nat)
  BY NatLessThanWellFounded
<1>2. \A x, y \in Nat : y < x => <<y, x>> \in R
  BY DEF OpToRel
<1>3. SUFFICES ASSUME D # {} PROVE FALSE
  OBVIOUS
<1>4. D \subseteq Nat
  OBVIOUS
<1> HIDE DEF R, D
<1>5. PICK x \in D : \A y \in D : ~(<<y, x>> \in R)
  BY <1>1, <1>3, <1>4, WFMin
<1>6. x \in Nat /\ x \notin T
  BY DEF D
<1>7. x # 0 /\ x - 1 \in Nat /\ x - 1 < x /\ (x - 1) + 1 = x
  BY <1>6
<1>8. x - 1 \notin T
  BY <1>6, <1>7
<1>9. x - 1 \in D
  BY <1>7, <1>8 DEF D
<1>10. QED BY <1>2, <1>5, <1>6, <1>7, <1>9

\* What the definition of Joined says of first[n].
Joint(s, f, n) == IF n = 0 THEN <<>> ELSE f[n - 1] \o s[n]

\* There is such a function: one for fewer places can be extended.
LEMMA JoinedExists ==
    ASSUME NEW s, NEW m \in Nat
    PROVE  \E f : f = [n \in 0..m |-> Joint(s, f, n)]
<1> DEFINE T == {k \in Nat : \E f : f = [n \in 0..k |-> Joint(s, f, n)]}
<1>1. 0 \in T
  <2> DEFINE f == [n \in {0} |-> <<>>]
  <2>1. 0..0 = {0}
    OBVIOUS
  <2>2. f = [n \in 0..0 |-> Joint(s, f, n)]
    BY <2>1 DEF Joint
  <2>3. QED BY <2>2
<1>2. ASSUME NEW k \in Nat, k \in T
      PROVE  k + 1 \in T
  <2>1. PICK f : f = [n \in 0..k |-> Joint(s, f, n)]
    BY <1>2
  <2> DEFINE g == [n \in 0..k + 1 |-> IF n = k + 1 THEN Joint(s, f, k + 1) ELSE f[n]]
  <2>2. ASSUME NEW n \in 0..k + 1
        PROVE  g[n] = Joint(s, g, n)
    <3>1. n # 0 => n - 1 \in 0..k /\ n - 1 \in 0..k + 1 /\ n - 1 # k + 1
      OBVIOUS
    <3>2. n # 0 => g[n - 1] = f[n - 1]
      BY <3>1
    <3>3. Joint(s, g, n) = Joint(s, f, n)
      BY <3>2 DEF Joint
    <3>4. n # k + 1 => n \in 0..k
      OBVIOUS
    <3>5. n # k + 1 => f[n] = Joint(s, f, n)
      BY <2>1, <3>4
    <3>6. QED BY <3>3, <3>5
  <2>3. g = [n \in 0..k + 1 |-> g[n]]
    OBVIOUS
  <2> HIDE DEF g
  <2>4. g = [n \in 0..k + 1 |-> Joint(s, g, n)]
    BY <2>2, <2>3
  <2>5. QED BY <2>4
<1> HIDE DEF T
<1>3. Nat \subseteq T
  BY <1>1, <1>2, Induction
<1>4. m \in T
  BY <1>3
<1>5. QED BY <1>4 DEF T

\* Nothing is joined up to 0, and the next sequence goes behind the others.
LEMMA JoinedIs ==
    ASSUME NEW s, Len(s) \in Nat
    PROVE  /\ Joined(s)[0] = <<>>
           /\ \A n \in 1..Len(s) : Joined(s)[n] = Joined(s)[n - 1] \o s[n]
<1> DEFINE P(f) == f = [n \in 0..Len(s) |-> Joint(s, f, n)]
           f == Joined(s)
<1>1. \E g : P(g)
  BY JoinedExists
<1>2. f = CHOOSE g : P(g)
  BY DEF Joined, Joint
<1>3. P(f)
  BY <1>1, <1>2
<1> HIDE DEF f
<1>4. \A n \in 0..Len(s) : f[n] = Joint(s, f, n)
  BY <1>3
<1>5. f[0] = <<>>
  BY <1>4 DEF Joint
<1>6. ASSUME NEW n \in 1..Len(s)
      PROVE  f[n] = f[n - 1] \o s[n]
  <2>1. n \in 0..Len(s) /\ n # 0
    OBVIOUS
  <2>2. QED BY <1>4, <2>1 DEF Joint
<1>7. QED BY <1>5, <1>6 DEF f

\* What is joined has the type of its parts.
LEMMA JoinedType ==
    ASSUME NEW S, NEW s \in Seq(Seq(S)), NEW m \in 0..Len(s)
    PROVE  Joined(s)[m] \in Seq(S)
<1> DEFINE T == {k \in Nat : k <= Len(s) => Joined(s)[k] \in Seq(S)}
<1>0. Len(s) \in Nat
  OBVIOUS
<1>1. 0 \in T
  <2>1. Joined(s)[0] = <<>>
    BY <1>0, JoinedIs
  <2>2. <<>> \in Seq(S)
    OBVIOUS
  <2>3. QED BY <2>1, <2>2
<1>2. ASSUME NEW k \in Nat, k \in T
      PROVE  k + 1 \in T
  <2>1. SUFFICES ASSUME k + 1 <= Len(s) PROVE Joined(s)[k + 1] \in Seq(S)
    OBVIOUS
  <2>2. k + 1 \in 1..Len(s) /\ (k + 1) - 1 = k /\ s[k + 1] \in Seq(S)
    BY <2>1
  <2>3. Joined(s)[k + 1] = Joined(s)[k] \o s[k + 1]
    BY <1>0, <2>2, JoinedIs
  <2>4. Joined(s)[k] \in Seq(S)
    BY <1>2, <2>1
  <2>5. QED BY <2>2, <2>3, <2>4
<1> HIDE DEF T
<1>3. Nat \subseteq T
  BY <1>1, <1>2, Induction
<1>4. QED BY <1>3 DEF T

\* What is behind a place does not matter for what is joined up to it.
LEMMA JoinedSame ==
    ASSUME NEW s, NEW t, Len(s) \in Nat, Len(t) \in Nat, NEW m \in 0..Len(s), m <= Len(t),
           \A n \in 1..m : s[n] = t[n]
    PROVE  Joined(s)[m] = Joined(t)[m]
<1> DEFINE T == {k \in Nat : k <= m => Joined(s)[k] = Joined(t)[k]}
<1>1. 0 \in T
  BY JoinedIs
<1>2. ASSUME NEW k \in Nat, k \in T
      PROVE  k + 1 \in T
  <2>1. SUFFICES ASSUME k + 1 <= m PROVE Joined(s)[k + 1] = Joined(t)[k + 1]
    OBVIOUS
  <2>2. k + 1 \in 1..Len(s) /\ k + 1 \in 1..Len(t) /\ k + 1 \in 1..m /\ (k + 1) - 1 = k
    BY <2>1
  <2>3. Joined(s)[k + 1] = Joined(s)[k] \o s[k + 1] /\ Joined(t)[k + 1] = Joined(t)[k] \o t[k + 1]
    BY <2>2, JoinedIs
  <2>4. Joined(s)[k] = Joined(t)[k]
    BY <1>2, <2>1
  <2>5. QED BY <2>2, <2>3, <2>4
<1> HIDE DEF T
<1>3. Nat \subseteq T
  BY <1>1, <1>2, Induction
<1>4. QED BY <1>3 DEF T

LEMMA JoinedAppend ==
    ASSUME NEW S, NEW s \in Seq(Seq(S)), NEW x \in Seq(S)
    PROVE  Joined(Append(s, x))[Len(s) + 1] = Joined(s)[Len(s)] \o x
<1> DEFINE a == Append(s, x)
<1>1. a \in Seq(Seq(S)) /\ Len(a) = Len(s) + 1 /\ Len(s) \in Nat /\ a[Len(s) + 1] = x
      /\ \A n \in 1..Len(s) : a[n] = s[n]
  OBVIOUS
<1> HIDE DEF a
<1>2. Joined(s)[Len(s)] = Joined(a)[Len(s)]
  <2>1. Len(s) \in 0..Len(s) /\ Len(a) \in Nat /\ Len(s) <= Len(a)
        /\ \A n \in 1..Len(s) : s[n] = a[n]
    BY <1>1
  <2>2. QED BY <1>1, <2>1, JoinedSame
<1>3. Len(s) + 1 \in 1..Len(a) /\ (Len(s) + 1) - 1 = Len(s) /\ Len(a) \in Nat
  BY <1>1
<1>4. Joined(a)[Len(s) + 1] = Joined(a)[Len(s)] \o a[Len(s) + 1]
  BY <1>3, JoinedIs
<1>5. QED BY <1>1, <1>2, <1>4 DEF a

-----------------------------------------------------------------------------
(* DecodeFormatter: what a pattern means                                      *)

\* The strings that come up are named; the provers do not know that they are.
Words == STRING \cup {"%", "#", "line", "level", "date", "seconds", "milliseconds",
                      "pid", "tid", "file_name", "func_name", "log_info"}

Pieces == [what : Words, of : Nat]
Formatters == [kind : {"chars"}, str : Seq(Words) \ {<<>>}] \cup [kind : {"field"}, name : Words]

LEMMA FieldString == \A x \in Flags : FieldOf(x) \in Words
<1>1. DOMAIN Letter = {"l", "D", "S", "M", "p", "t", "F", "f", "v"}
  BY DEF Letter
<1>2. \A x \in DOMAIN Letter : Letter[x] \in Words
  BY <1>1 DEF Letter, Words
<1>3. "line" \in Words
  BY DEF Words
<1>4. QED BY <1>2, <1>3 DEF Flags, FieldOf

LEMMA PairType ==
    ASSUME NEW S, NEW a \in S, NEW b \in S
    PROVE  <<a, b>> \in Seq(S) /\ <<a, b>> # <<>>
OBVIOUS

\* Characters are as many pieces.
LEMMA CharsType ==
    ASSUME NEW str \in Seq(Words)
    PROVE  /\ Chars(str) \in Seq(Pieces) /\ Len(Chars(str)) = Len(str)
           /\ \A n \in 1..Len(str) : Chars(str)[n] = Piece(str[n], 0)
<1>1. \A n \in 1..Len(str) : Piece(str[n], 0) \in Pieces
  BY DEF Piece, Pieces
<1>2. Len(str) \in Nat
  OBVIOUS
<1>3. QED BY <1>1, <1>2 DEF Chars

\* Every formatter appends something.
LEMMA FormatOneType ==
    ASSUME NEW f \in Formatters, NEW m \in Nat
    PROVE  FormatOne(f, m) \in Seq(Pieces) /\ FormatOne(f, m) # <<>>
<1>1. CASE f.kind = "chars"
  <2>1. f.str \in Seq(Words) /\ f.str # <<>> /\ FormatOne(f, m) = Chars(f.str)
    BY <1>1 DEF Formatters, FormatOne
  <2>2. Len(f.str) # 0
    BY <2>1
  <2>3. Chars(f.str) \in Seq(Pieces) /\ Len(Chars(f.str)) # 0
    BY <2>1, <2>2, CharsType
  <2>4. QED BY <2>1, <2>3
<1>2. CASE f.kind # "chars"
  <2>1. f.name \in Words /\ FormatOne(f, m) = <<Piece(f.name, m)>>
    BY <1>2 DEF Formatters, FormatOne
  <2>2. Piece(f.name, m) \in Pieces
    BY <2>1 DEF Piece, Pieces
  <2>3. QED BY <2>1, <2>2
<1>3. QED BY <1>1, <1>2

\* The formatter of a flag.
LEMMA FlagFormatter ==
    ASSUME NEW ch \in Words, NEW m \in Nat
    PROVE  /\ GetFormatterByFlag(ch) \in Formatters
           /\ FormatOne(GetFormatterByFlag(ch), m)
              = IF ch \in Flags THEN <<Piece(FieldOf(ch), m)>> ELSE Chars(<<"%", ch>>)
<1>1. CASE ch \in Flags
  BY <1>1, FieldString DEF GetFormatterByFlag, Formatters, Field, FormatOne
<1>2. CASE ch \notin Flags
  <2>1. <<"%", ch>> \in Seq(Words) /\ <<"%", ch>> # <<>>
    <3>1. "%" \in Words
      BY DEF Words
    <3>2. QED BY <3>1, PairType
  <2>2. GetFormatterByFlag(ch) = [kind |-> "chars", str |-> <<"%", ch>>]
    BY <1>2 DEF GetFormatterByFlag, Aggregate
  <2>3. QED BY <1>2, <2>1, <2>2 DEF Formatters, FormatOne
<1>3. QED BY <1>1, <1>2

\* What the formatters append, one by one.
Texts(fs, m) == [n \in 1..Len(fs) |-> FormatOne(fs[n], m)]

LEMMA TextIs ==
    ASSUME NEW fs, NEW m
    PROVE  Text(fs, m) = Joined(Texts(fs, m))[Len(fs)]
BY DEF Text, Texts

LEMMA TextsType ==
    ASSUME NEW fs \in Seq(Formatters), NEW m \in Nat
    PROVE  Texts(fs, m) \in Seq(Seq(Pieces)) /\ Len(Texts(fs, m)) = Len(fs)
<1>1. ASSUME NEW n \in 1..Len(fs)
      PROVE  FormatOne(fs[n], m) \in Seq(Pieces)
  <2>1. fs[n] \in Formatters
    OBVIOUS
  <2>2. QED BY <2>1, FormatOneType
<1>2. Len(fs) \in Nat
  OBVIOUS
<1>3. QED BY <1>1, <1>2 DEF Texts

LEMMA TextType ==
    ASSUME NEW fs \in Seq(Formatters), NEW m \in Nat
    PROVE  /\ Text(fs, m) \in Seq(Pieces)
           /\ Text(fs, m) = <<>> <=> fs = <<>>
<1> DEFINE ts == Texts(fs, m)
<1>1. ts \in Seq(Seq(Pieces)) /\ Len(ts) = Len(fs) /\ Len(fs) \in Nat
  BY TextsType
<1>2. Text(fs, m) = Joined(ts)[Len(ts)]
  BY <1>1, TextIs
<1>3. ASSUME NEW n \in 1..Len(fs)
      PROVE  ts[n] # <<>>
  <2>1. fs[n] \in Formatters
    OBVIOUS
  <2>2. ts[n] = FormatOne(fs[n], m)
    BY DEF Texts
  <2>3. QED BY <2>1, <2>2, FormatOneType
<1> HIDE DEF ts
<1>4. Joined(ts)[Len(ts)] \in Seq(Pieces)
  BY <1>1, JoinedType
<1>5. CASE fs = <<>>
  BY <1>1, <1>2, <1>4, <1>5, JoinedIs
<1>6. CASE fs # <<>>
  <2>1. Len(ts) \in 1..Len(ts) /\ Len(ts) - 1 \in 0..Len(ts)
    BY <1>1, <1>6
  <2>2. Joined(ts)[Len(ts)] = Joined(ts)[Len(ts) - 1] \o ts[Len(ts)]
    BY <1>1, <2>1, JoinedIs
  <2>3. Joined(ts)[Len(ts) - 1] \in Seq(Pieces)
    BY <1>1, <2>1, JoinedType
  <2>4. ts[Len(ts)] \in Seq(Pieces) /\ ts[Len(ts)] # <<>>
    BY <1>1, <1>3, <2>1
  <2>5. Joined(ts)[Len(ts)] # <<>>
    BY <2>2, <2>3, <2>4
  <2>6. QED BY <1>2, <1>4, <1>6, <2>5
<1>7. QED BY <1>5, <1>6

LEMMA TextAppend ==
    ASSUME NEW fs \in Seq(Formatters), NEW f \in Formatters, NEW m \in Nat
    PROVE  Text(Append(fs, f), m) = Text(fs, m) \o FormatOne(f, m)
<1> DEFINE a == Append(fs, f)
<1>1. /\ a \in Seq(Formatters) /\ Len(a) = Len(fs) + 1 /\ Len(fs) \in Nat
      /\ a[Len(fs) + 1] = f /\ \A n \in 1..Len(fs) : a[n] = fs[n]
  OBVIOUS
<1> HIDE DEF a
<1>2. /\ Texts(fs, m) \in Seq(Seq(Pieces)) /\ Len(Texts(fs, m)) = Len(fs)
      /\ FormatOne(f, m) \in Seq(Pieces)
  BY TextsType, FormatOneType
<1>3. Texts(a, m) = Append(Texts(fs, m), FormatOne(f, m))
  <2> DEFINE b == Append(Texts(fs, m), FormatOne(f, m))
             t == Texts(a, m)
  <2>1. t \in Seq(Seq(Pieces)) /\ Len(t) = Len(fs) + 1
    BY <1>1, TextsType
  <2>2. b \in Seq(Seq(Pieces)) /\ Len(b) = Len(fs) + 1 /\ b[Len(fs) + 1] = FormatOne(f, m)
        /\ \A n \in 1..Len(fs) : b[n] = Texts(fs, m)[n]
    BY <1>1, <1>2
  <2>3. \A n \in 1..Len(fs) + 1 : t[n] = FormatOne(a[n], m)
    BY <1>1 DEF Texts
  <2>4. \A n \in 1..Len(fs) : Texts(fs, m)[n] = FormatOne(fs[n], m)
    BY DEF Texts
  <2> HIDE DEF b, t
  <2>5. \A n \in 1..Len(fs) + 1 : t[n] = b[n]
    <3>1. ASSUME NEW n \in 1..Len(fs) + 1, n # Len(fs) + 1
          PROVE  t[n] = b[n]
      <4>1. n \in 1..Len(fs)
        BY <1>1, <3>1
      <4>2. QED BY <1>1, <2>2, <2>3, <2>4, <4>1
    <3>2. t[Len(fs) + 1] = b[Len(fs) + 1]
      <4>1. Len(fs) + 1 \in 1..Len(fs) + 1
        BY <1>1
      <4>2. QED BY <1>1, <2>2, <2>3, <4>1
    <3>3. QED BY <3>1, <3>2
  <2>6. t = b
    BY <1>1, <2>1, <2>2, <2>5, SeqEqual
  <2>7. QED BY <2>6 DEF t, b
<1>4. Joined(Texts(a, m))[Len(fs) + 1] = Joined(Texts(fs, m))[Len(fs)] \o FormatOne(f, m)
  BY <1>2, <1>3, JoinedAppend
<1>5. QED BY <1>1, <1>4, TextIs DEF a

\* What the definition of Parsed says of st[n].
NoneParsed == [flag |-> FALSE, user_chars |-> <<>>, formatters |-> <<>>]
ParsedTo(p, f, n) == IF n = 0 THEN NoneParsed ELSE Parse(f[n - 1], p[n])

LEMMA ParsedExists ==
    ASSUME NEW p, NEW m \in Nat
    PROVE  \E f : f = [n \in 0..m |-> ParsedTo(p, f, n)]
<1> DEFINE T == {k \in Nat : \E f : f = [n \in 0..k |-> ParsedTo(p, f, n)]}
<1>1. 0 \in T
  <2> DEFINE f == [n \in {0} |-> NoneParsed]
  <2>1. 0..0 = {0}
    OBVIOUS
  <2>2. f = [n \in 0..0 |-> ParsedTo(p, f, n)]
    BY <2>1 DEF ParsedTo
  <2>3. QED BY <2>2
<1>2. ASSUME NEW k \in Nat, k \in T
      PROVE  k + 1 \in T
  <2>1. PICK f : f = [n \in 0..k |-> ParsedTo(p, f, n)]
    BY <1>2
  <2> DEFINE g == [n \in 0..k + 1 |-> IF n = k + 1 THEN ParsedTo(p, f, k + 1) ELSE f[n]]
  <2>2. ASSUME NEW n \in 0..k + 1
        PROVE  g[n] = ParsedTo(p, g, n)
    <3>1. n # 0 => n - 1 \in 0..k /\ n - 1 \in 0..k + 1 /\ n - 1 # k + 1
      OBVIOUS
    <3>2. n # 0 => g[n - 1] = f[n - 1]
      BY <3>1
    <3>3. ParsedTo(p, g, n) = ParsedTo(p, f, n)
      BY <3>2 DEF ParsedTo
    <3>4. n # k + 1 => n \in 0..k
      OBVIOUS
    <3>5. n # k + 1 => f[n] = ParsedTo(p, f, n)
      BY <2>1, <3>4
    <3>6. QED BY <3>3, <3>5
  <2>3. g = [n \in 0..k + 1 |-> g[n]]
    OBVIOUS
  <2> HIDE DEF g
  <2>4. g = [n \in 0..k + 1 |-> ParsedTo(p, g, n)]
    BY <2>2, <2>3
  <2>5. QED BY <2>4
<1> HIDE DEF T
<1>3. Nat \subseteq T
  BY <1>1, <1>2, Induction
<1>4. m \in T
  BY <1>3
<1>5. QED BY <1>4 DEF T

\* The loop begins with nothing and takes one character after the other.
LEMMA ParsedIs ==
    ASSUME NEW p, Len(p) \in Nat
    PROVE  /\ Parsed(p)[0] = NoneParsed
           /\ \A n \in 1..Len(p) : Parsed(p)[n] = Parse(Parsed(p)[n - 1], p[n])
<1> DEFINE P(f) == f = [n \in 0..Len(p) |-> ParsedTo(p, f, n)]
           f == Parsed(p)
<1>1. \E g : P(g)
  BY ParsedExists
<1>2. f = CHOOSE g : P(g)
  BY DEF Parsed, ParsedTo, NoneParsed
<1>3. P(f)
  BY <1>1, <1>2
<1> HIDE DEF f
<1>4. \A n \in 0..Len(p) : f[n] = ParsedTo(p, f, n)
  BY <1>3
<1>5. f[0] = NoneParsed
  BY <1>4 DEF ParsedTo
<1>6. ASSUME NEW n \in 1..Len(p)
      PROVE  f[n] = Parse(f[n - 1], p[n])
  <2>1. n \in 0..Len(p) /\ n # 0
    OBVIOUS
  <2>2. QED BY <1>4, <2>1 DEF ParsedTo
<1>7. QED BY <1>5, <1>6 DEF f

\* The '%' directly before e begin behind k.
Begins(p, e, k) == /\ k \in 0..e - 1 /\ (k = 0 \/ p[k] # "%")
                   /\ \A j \in k + 1..e - 1 : p[j] = "%"

LEMMA BeginsOnce ==
    ASSUME NEW p, NEW n \in Nat, NEW a, NEW b, Begins(p, n, a), Begins(p, n, b)
    PROVE  a = b
<1>1. a \in Nat /\ b \in Nat /\ a <= n - 1 /\ b <= n - 1
  BY DEF Begins
<1>2. ~(a < b)
  <2>1. SUFFICES ASSUME a < b PROVE FALSE
    OBVIOUS
  <2>2. b \in a + 1..n - 1 /\ b # 0
    BY <1>1, <2>1
  <2>3. QED BY <2>2 DEF Begins
<1>3. ~(b < a)
  <2>1. SUFFICES ASSUME b < a PROVE FALSE
    OBVIOUS
  <2>2. a \in b + 1..n - 1 /\ a # 0
    BY <1>1, <2>1
  <2>3. QED BY <2>2 DEF Begins
<1>4. QED BY <1>1, <1>2, <1>3

LEMMA RunIs ==
    ASSUME NEW p, NEW n \in Nat, NEW k, Begins(p, n, k)
    PROVE  Run(p, n) = n - 1 - k
<1> DEFINE c == CHOOSE a \in 0..n - 1 : (a = 0 \/ p[a] # "%") /\ \A j \in a + 1..n - 1 : p[j] = "%"
<1>1. Begins(p, n, c)
  BY DEF Begins
<1> HIDE DEF c
<1>2. c = k
  BY <1>1, BeginsOnce
<1>3. Run(p, n) = n - 1 - c
  BY DEF Run, c
<1>4. QED BY <1>2, <1>3

LEMMA BeginsStep ==
    ASSUME NEW p, NEW n \in Nat \ {0}, NEW k, Begins(p, n, k)
    PROVE  Begins(p, n + 1, IF p[n] = "%" THEN k ELSE n)
<1>1. CASE p[n] = "%"
  <2>1. k \in 0..(n + 1) - 1
    BY DEF Begins
  <2>2. ASSUME NEW j \in k + 1..(n + 1) - 1
        PROVE  p[j] = "%"
    <3>1. j = n \/ j \in k + 1..n - 1
      BY DEF Begins
    <3>2. QED BY <1>1, <3>1 DEF Begins
  <2>3. QED BY <1>1, <2>1, <2>2 DEF Begins
<1>2. CASE p[n] # "%"
  BY <1>2 DEF Begins
<1>3. QED BY <1>1, <1>2

LEMMA SomewhereBegins ==
    ASSUME NEW p, NEW m \in Nat \ {0}
    PROVE  \E k : Begins(p, m, k)
<1> DEFINE T == {n \in Nat : \E k : Begins(p, n + 1, k)}
<1>1. 0 \in T
  <2>1. Begins(p, 0 + 1, 0)
    BY DEF Begins
  <2>2. QED BY <2>1
<1>2. ASSUME NEW n \in Nat, n \in T
      PROVE  n + 1 \in T
  <2>1. PICK k : Begins(p, n + 1, k)
    BY <1>2
  <2>2. n + 1 \in Nat \ {0}
    OBVIOUS
  <2>3. \E b : Begins(p, (n + 1) + 1, b)
    BY <2>1, <2>2, BeginsStep
  <2>4. QED BY <2>2, <2>3
<1> HIDE DEF T
<1>3. Nat \subseteq T
  BY <1>1, <1>2, Induction
<1>4. m - 1 \in T /\ (m - 1) + 1 = m
  BY <1>3
<1>5. QED BY <1>4 DEF T

\* A '%' adds to a run, and anything else ends it.
LEMMA RunStep ==
    ASSUME NEW p, NEW n \in Nat \ {0}
    PROVE  /\ Run(p, n) \in Nat
           /\ Run(p, n + 1) = IF p[n] = "%" THEN Run(p, n) + 1 ELSE 0
<1>1. PICK k : Begins(p, n, k)
  BY SomewhereBegins
<1>2. k \in Nat /\ k <= n - 1
  BY <1>1 DEF Begins
<1>3. Run(p, n) = n - 1 - k
  BY <1>1, RunIs
<1>4. Run(p, n + 1) = (n + 1) - 1 - (IF p[n] = "%" THEN k ELSE n)
  <2>1. n + 1 \in Nat
    OBVIOUS
  <2>2. QED BY <1>1, <2>1, BeginsStep, RunIs
<1>5. QED BY <1>2, <1>3, <1>4

LEMMA RunFirst ==
    ASSUME NEW p
    PROVE  Run(p, 1) = 0
<1>1. Begins(p, 1, 0)
  BY DEF Begins
<1>2. QED BY <1>1, RunIs

\* A flag is announced by a '%' that is not the flag of another one.
LEMMA AnnouncesIs ==
    ASSUME NEW p
    PROVE  /\ Announces(p, 1) <=> p[1] = "%"
           /\ \A n \in Nat \ {0} : Announces(p, n + 1) <=> p[n + 1] = "%" /\ ~Announces(p, n)
<1>1. Announces(p, 1) <=> p[1] = "%"
  BY RunFirst DEF Announces
<1>2. ASSUME NEW n \in Nat \ {0}
      PROVE  Announces(p, n + 1) <=> p[n + 1] = "%" /\ ~Announces(p, n)
  <2> DEFINE r == Run(p, n)
  <2>1. r \in Nat /\ Run(p, n + 1) = IF p[n] = "%" THEN r + 1 ELSE 0
    BY RunStep
  <2> HIDE DEF r
  <2>2. (r + 1) % 2 = 0 <=> r % 2 # 0
    BY <2>1
  <2>3. (Announces(p, n) <=> p[n] = "%" /\ r % 2 = 0)
        /\ (Announces(p, n + 1) <=> p[n + 1] = "%" /\ Run(p, n + 1) % 2 = 0)
    BY DEF Announces, r
  <2>4. QED BY <2>1, <2>2, <2>3
<1>3. QED BY <1>1, <1>2

ParseStates == [flag : BOOLEAN, user_chars : Seq(Words), formatters : Seq(Formatters)]

LEMMA CharsAppend ==
    ASSUME NEW str \in Seq(Words), NEW ch \in Words
    PROVE  Chars(Append(str, ch)) = Chars(str) \o Chars(<<ch>>)
<1> DEFINE a == Chars(Append(str, ch))
           b == Chars(str)
           c == Chars(<<ch>>)
<1>1. <<ch>> \in Seq(Words) /\ Len(<<ch>>) = 1 /\ <<ch>>[1] = ch /\ 1 \in 1..1
  OBVIOUS
<1>2. /\ Append(str, ch) \in Seq(Words) /\ Len(Append(str, ch)) = Len(str) + 1 /\ Len(str) \in Nat
      /\ Append(str, ch)[Len(str) + 1] = ch
      /\ \A n \in 1..Len(str) : Append(str, ch)[n] = str[n]
  OBVIOUS
<1>3. /\ b \in Seq(Pieces) /\ Len(b) = Len(str)
      /\ \A n \in 1..Len(str) : b[n] = Piece(str[n], 0)
  BY CharsType
<1>4. c \in Seq(Pieces) /\ Len(c) = 1 /\ c[1] = Piece(ch, 0)
  BY <1>1, CharsType
<1>5. /\ a \in Seq(Pieces) /\ Len(a) = Len(str) + 1
      /\ \A n \in 1..Len(str) + 1 : a[n] = Piece(Append(str, ch)[n], 0)
  BY <1>2, CharsType
<1> HIDE DEF a, b, c
<1>6. \A n \in 1..Len(str) : a[n] = b[n]
  <2>1. \A n \in 1..Len(str) : n \in 1..Len(str) + 1
    BY <1>2
  <2>2. QED BY <1>2, <1>3, <1>5, <2>1
<1>7. a[Len(str) + 1] = c[1]
  <2>1. Len(str) + 1 \in 1..Len(str) + 1
    BY <1>2
  <2>2. QED BY <1>2, <1>4, <1>5, <2>1
<1>8. b \o c \in Seq(Pieces) /\ Len(b \o c) = Len(str) + 1
      /\ (\A n \in 1..Len(str) : (b \o c)[n] = b[n]) /\ (b \o c)[Len(str) + 1] = c[1]
  <2>1. \A n \in 1..Len(b) + Len(c) : (b \o c)[n] = IF n <= Len(b) THEN b[n] ELSE c[n - Len(b)]
    BY <1>3, <1>4, ConcatProperties
  <2>2. \A n \in 1..Len(str) : n \in 1..Len(b) + Len(c) /\ n <= Len(b)
    BY <1>2, <1>3, <1>4
  <2>3. /\ Len(str) + 1 \in 1..Len(b) + Len(c) /\ ~(Len(str) + 1 <= Len(b))
        /\ (Len(str) + 1) - Len(b) = 1
    BY <1>2, <1>3, <1>4, SMTT(20)
  <2>4. b \o c \in Seq(Pieces) /\ Len(b \o c) = Len(str) + 1
    BY <1>3, <1>4, ConcatProperties, SMTT(20)
  <2>5. QED BY <2>1, <2>2, <2>3, <2>4
<1>9. \A n \in 1..Len(str) + 1 : a[n] = (b \o c)[n]
  <2>1. \A n \in 1..Len(str) + 1 : n \in 1..Len(str) \/ n = Len(str) + 1
    BY <1>2
  <2>2. QED BY <1>6, <1>7, <1>8, <2>1
<1>10. a = b \o c
  BY <1>5, <1>8, <1>9, SeqEqual
<1>11. QED BY <1>10 DEF a, b, c

\* The characters collected so far are pushed, or there are none.
LEMMA PushedText ==
    ASSUME NEW st \in ParseStates, NEW m \in Nat
    PROVE  /\ Pushed(st) \in Seq(Formatters)
           /\ Text(Pushed(st), m) = Text(st.formatters, m) \o Chars(st.user_chars)
<1>1. st.user_chars \in Seq(Words) /\ st.formatters \in Seq(Formatters)
  BY DEF ParseStates
<1>2. Text(st.formatters, m) \in Seq(Pieces)
  BY <1>1, TextType
<1>3. Chars(st.user_chars) \in Seq(Pieces) /\ Len(Chars(st.user_chars)) = Len(st.user_chars)
  BY <1>1, CharsType
<1>4. CASE st.user_chars = <<>>
  <2>1. Chars(st.user_chars) = <<>>
    BY <1>3, <1>4
  <2>2. QED BY <1>1, <1>2, <1>4, <2>1 DEF Pushed
<1>5. CASE st.user_chars # <<>>
  <2> DEFINE f == Aggregate(st.user_chars)
  <2>1. f \in Formatters /\ FormatOne(f, m) = Chars(st.user_chars)
    BY <1>1, <1>5 DEF Aggregate, Formatters, FormatOne
  <2>2. Pushed(st) = Append(st.formatters, f)
    BY <1>5 DEF Pushed
  <2> HIDE DEF f
  <2>3. Text(Pushed(st), m) = Text(st.formatters, m) \o FormatOne(f, m)
    BY <1>1, <2>1, <2>2, TextAppend
  <2>4. QED BY <1>1, <2>1, <2>2, <2>3
<1>6. QED BY <1>4, <1>5

\* What a character adds to the text, behind a '%' that announces it or not.
Added(announced, ch, m) ==
    IF announced
    THEN IF ch \in Flags THEN <<Piece(FieldOf(ch), m)>> ELSE Chars(<<"%", ch>>)
    ELSE IF ch = "%" THEN <<>> ELSE Chars(<<ch>>)

LEMMA ParseStep ==
    ASSUME NEW st \in ParseStates, NEW ch \in Words, st.flag => st.user_chars = <<>>
    PROVE  /\ Parse(st, ch) \in ParseStates
           /\ Parse(st, ch).flag <=> ch = "%" /\ ~st.flag
           /\ Parse(st, ch).flag => Parse(st, ch).user_chars = <<>>
           /\ \A m \in Nat : Text(Pushed(Parse(st, ch)), m) = Text(Pushed(st), m) \o Added(st.flag, ch, m)
<1> DEFINE nt == Parse(st, ch)
<1>1. st.user_chars \in Seq(Words) /\ st.formatters \in Seq(Formatters) /\ st.flag \in BOOLEAN
  BY DEF ParseStates
<1>2. CASE st.flag
  <2> DEFINE f == GetFormatterByFlag(ch)
  <2>1. nt = [flag |-> FALSE, user_chars |-> <<>>, formatters |-> Append(st.formatters, f)]
    BY <1>2 DEF Parse, ParseStates
  <2>2. f \in Formatters /\ \A m \in Nat : FormatOne(f, m) = Added(st.flag, ch, m)
    <3>1. 0 \in Nat
      OBVIOUS
    <3>2. QED BY <1>2, <3>1, FlagFormatter DEF Added
  <2> HIDE DEF f
  <2>3. nt \in ParseStates
    <3>1. Append(st.formatters, f) \in Seq(Formatters) /\ <<>> \in Seq(Words)
      BY <1>1, <2>2
    <3>2. QED BY <2>1, <3>1 DEF ParseStates
  <2>4. Pushed(nt) = Append(st.formatters, f) /\ Pushed(st) = st.formatters
    BY <1>2, <2>1 DEF Pushed
  <2>5. \A m \in Nat : Text(Pushed(nt), m) = Text(Pushed(st), m) \o Added(st.flag, ch, m)
    BY <1>1, <2>2, <2>4, TextAppend
  <2>6. nt.flag = FALSE /\ nt.user_chars = <<>>
    BY <2>1
  <2> HIDE DEF nt
  <2>7. (nt.flag <=> ch = "%" /\ ~st.flag) /\ (nt.flag => nt.user_chars = <<>>)
    BY <1>2, <2>6
  <2>8. QED BY <2>3, <2>5, <2>7 DEF nt
<1>3. CASE ~st.flag /\ ch = "%"
  <2>1. nt = [flag |-> TRUE, user_chars |-> <<>>, formatters |-> Pushed(st)]
    BY <1>3 DEF Parse
  <2>2. 0 \in Nat
    OBVIOUS
  <2>3. Pushed(st) \in Seq(Formatters) /\ <<>> \in Seq(Words)
    BY <2>2, PushedText
  <2>4. nt \in ParseStates
    BY <2>1, <2>3 DEF ParseStates
  <2>5. Pushed(nt) = Pushed(st)
    BY <2>1 DEF Pushed
  <2>6. ASSUME NEW m \in Nat
        PROVE  Text(Pushed(nt), m) = Text(Pushed(st), m) \o Added(st.flag, ch, m)
    <3>1. Text(Pushed(st), m) \in Seq(Pieces)
      BY <2>3, TextType
    <3>2. Added(st.flag, ch, m) = <<>>
      BY <1>3 DEF Added
    <3>3. QED BY <2>5, <3>1, <3>2
  <2>7. nt.flag = TRUE /\ nt.user_chars = <<>>
    BY <2>1
  <2> HIDE DEF nt
  <2>8. (nt.flag <=> ch = "%" /\ ~st.flag) /\ (nt.flag => nt.user_chars = <<>>)
    BY <1>3, <2>7
  <2>9. QED BY <2>4, <2>6, <2>8 DEF nt
<1>4. CASE ~st.flag /\ ch # "%"
  <2>1. nt = [flag |-> FALSE, user_chars |-> Append(st.user_chars, ch), formatters |-> st.formatters]
    BY <1>1, <1>4 DEF Parse, ParseStates
  <2>2. nt \in ParseStates
    <3>1. Append(st.user_chars, ch) \in Seq(Words)
      BY <1>1
    <3>2. QED BY <1>1, <2>1, <3>1 DEF ParseStates
  <2>3. ASSUME NEW m \in Nat
        PROVE  Text(Pushed(nt), m) = Text(Pushed(st), m) \o Added(st.flag, ch, m)
    <3> DEFINE t == Text(st.formatters, m)
               u == Chars(st.user_chars)
               c == Chars(<<ch>>)
    <3>1. t \in Seq(Pieces)
      BY <1>1, TextType
    <3>2. u \in Seq(Pieces)
      BY <1>1, CharsType
    <3>3. c \in Seq(Pieces)
      <4>1. <<ch>> \in Seq(Words)
        OBVIOUS
      <4>2. QED BY <4>1, CharsType
    <3>4. Text(Pushed(st), m) = t \o u
      BY PushedText
    <3>5. Text(Pushed(nt), m) = t \o Chars(Append(st.user_chars, ch))
      BY <2>1, <2>2, PushedText
    <3>6. Chars(Append(st.user_chars, ch)) = u \o c
      BY <1>1, CharsAppend
    <3>7. Added(st.flag, ch, m) = c
      BY <1>4 DEF Added
    <3> HIDE DEF t, u, c
    <3>8. t \o (u \o c) = (t \o u) \o c
      BY <3>1, <3>2, <3>3, ConcatAssociative
    <3>9. QED BY <3>4, <3>5, <3>6, <3>7, <3>8
  <2>4. nt.flag = FALSE
    BY <2>1
  <2> HIDE DEF nt
  <2>5. (nt.flag <=> ch = "%" /\ ~st.flag) /\ (nt.flag => nt.user_chars = <<>>)
    BY <1>4, <2>4
  <2>6. QED BY <2>2, <2>3, <2>5 DEF nt
<1>5. QED BY <1>1, <1>2, <1>3, <1>4

\* What is meant at each place.
MeantOf(p, m) == [n \in 1..Len(p) |-> Meant(p, n, m)]

\* At each place the parser has announced flags as the pattern does, and its
\* formatters append what the pattern means so far.
ParseOk(p, n) ==
    /\ Parsed(p)[n] \in ParseStates
    /\ Parsed(p)[n].flag <=> n # 0 /\ Announces(p, n)
    /\ Parsed(p)[n].flag => Parsed(p)[n].user_chars = <<>>
    /\ \A m \in Nat : Text(Pushed(Parsed(p)[n]), m) = Joined(MeantOf(p, m))[n]

LEMMA MeantIs ==
    ASSUME NEW p \in Seq(Words), NEW n \in Nat, n + 1 <= Len(p), NEW m
    PROVE  MeantOf(p, m)[n + 1] = Added(n # 0 /\ Announces(p, n), p[n + 1], m)
<1>1. n + 1 \in 1..Len(p) /\ (n + 1) - 1 = n /\ (n + 1 > 1 <=> n # 0)
  OBVIOUS
<1>2. MeantOf(p, m)[n + 1] = Meant(p, n + 1, m)
  BY <1>1 DEF MeantOf
<1>3. Announces(p, n + 1) <=> p[n + 1] = "%" /\ ~(n # 0 /\ Announces(p, n))
  <2>1. CASE n = 0
    BY <2>1, AnnouncesIs
  <2>2. CASE n # 0
    BY <2>2, AnnouncesIs
  <2>3. QED BY <2>1, <2>2
<1>4. CASE n # 0 /\ Announces(p, n)
  BY <1>1, <1>2, <1>4 DEF Meant, Added
<1>5. CASE ~(n # 0 /\ Announces(p, n))
  BY <1>1, <1>2, <1>3, <1>5 DEF Meant, Added
<1>6. QED BY <1>4, <1>5

LEMMA ParsedOk ==
    ASSUME NEW p \in Seq(Words), NEW k \in 0..Len(p)
    PROVE  ParseOk(p, k)
<1> DEFINE T == {n \in Nat : n <= Len(p) => ParseOk(p, n)}
<1>1. Len(p) \in Nat /\ \A m : Len(MeantOf(p, m)) = Len(p)
  BY DEF MeantOf
<1>2. 0 \in T
  <2>1. Parsed(p)[0] = NoneParsed
    BY <1>1, ParsedIs
  <2>2. NoneParsed \in ParseStates
    <3>1. <<>> \in Seq(Words) /\ <<>> \in Seq(Formatters)
      OBVIOUS
    <3>2. QED BY <3>1 DEF NoneParsed, ParseStates
  <2>3. ASSUME NEW m \in Nat
        PROVE  Text(Pushed(NoneParsed), m) = Joined(MeantOf(p, m))[0]
    <3>1. Pushed(NoneParsed) = <<>> /\ <<>> \in Seq(Formatters)
      BY DEF Pushed, NoneParsed
    <3>2. Text(<<>>, m) = <<>>
      BY <3>1, TextType
    <3>3. Joined(MeantOf(p, m))[0] = <<>>
      BY <1>1, JoinedIs
    <3>4. QED BY <3>1, <3>2, <3>3
  <2>4. QED BY <2>1, <2>2, <2>3 DEF ParseOk, NoneParsed
<1>3. ASSUME NEW n \in Nat, n \in T
      PROVE  n + 1 \in T
  <2>1. SUFFICES ASSUME n + 1 <= Len(p) PROVE ParseOk(p, n + 1)
    OBVIOUS
  <2>2. ParseOk(p, n)
    BY <1>1, <1>3, <2>1
  <2>3. n + 1 \in 1..Len(p) /\ (n + 1) - 1 = n /\ n + 1 # 0 /\ p[n + 1] \in Words
    BY <1>1, <2>1
  <2> DEFINE st == Parsed(p)[n]
             nt == Parsed(p)[n + 1]
             an == n # 0 /\ Announces(p, n)
  <2>4. nt = Parse(st, p[n + 1])
    BY <1>1, <2>3, ParsedIs
  <2>5. st \in ParseStates /\ (st.flag => st.user_chars = <<>>) /\ (st.flag <=> an)
        /\ \A m \in Nat : Text(Pushed(st), m) = Joined(MeantOf(p, m))[n]
    BY <2>2 DEF ParseOk
  <2>6. st.flag \in BOOLEAN
    BY <2>5 DEF ParseStates
  <2>7. Announces(p, n + 1) <=> p[n + 1] = "%" /\ ~an
    <3>1. CASE n = 0
      BY <3>1, AnnouncesIs
    <3>2. CASE n # 0
      BY <3>2, AnnouncesIs
    <3>3. QED BY <3>1, <3>2
  <2>8. ASSUME NEW m \in Nat
        PROVE  Joined(MeantOf(p, m))[n + 1] = Joined(MeantOf(p, m))[n] \o Added(st.flag, p[n + 1], m)
    <3>1. Joined(MeantOf(p, m))[n + 1] = Joined(MeantOf(p, m))[n] \o MeantOf(p, m)[n + 1]
      BY <1>1, <2>3, JoinedIs
    <3>2. MeantOf(p, m)[n + 1] = Added(an, p[n + 1], m)
      BY <2>1, MeantIs
    <3>3. Added(an, p[n + 1], m) = Added(st.flag, p[n + 1], m)
      BY <2>5, <2>6 DEF Added
    <3>4. QED BY <3>1, <3>2, <3>3
  <2> HIDE DEF st, nt, an
  <2>9. /\ nt \in ParseStates /\ (nt.flag <=> p[n + 1] = "%" /\ ~st.flag)
        /\ nt.flag => nt.user_chars = <<>>
        /\ \A m \in Nat : Text(Pushed(nt), m) = Text(Pushed(st), m) \o Added(st.flag, p[n + 1], m)
    BY <2>3, <2>4, <2>5, ParseStep
  <2>10. \A m \in Nat : Text(Pushed(nt), m) = Joined(MeantOf(p, m))[n + 1]
    BY <2>5, <2>8, <2>9
  <2>11. nt.flag <=> n + 1 # 0 /\ Announces(p, n + 1)
    BY <2>3, <2>5, <2>7, <2>9
  <2>12. QED BY <2>9, <2>10, <2>11 DEF ParseOk, nt
<1> HIDE DEF T
<1>4. Nat \subseteq T
  BY <1>2, <1>3, Induction
<1>5. QED BY <1>1, <1>4 DEF T

\* The formatters of a pattern print every message as the pattern means.
LEMMA FormatIsMeaning ==
    ASSUME NEW p \in Seq(STRING), NEW m \in Nat
    PROVE  Format(ParsePattern(p), m) = Meaning(p, m)
<1> DEFINE fs == ParsePattern(p)
<1>1. p \in Seq(Words) /\ Len(p) \in Nat /\ Len(p) \in 0..Len(p)
  <2>1. STRING \subseteq Words
    BY DEF Words
  <2>2. p \in Seq(Words)
    BY <2>1, SeqMonotonic
  <2>3. QED BY <2>2
<1>2. ParseOk(p, Len(p))
  BY <1>1, ParsedOk
<1>3. fs \in Seq(Formatters) /\ Text(fs, m) = Joined(MeantOf(p, m))[Len(p)]
  BY <1>2, PushedText DEF ParseOk, ParsePattern
<1> HIDE DEF fs
<1>4. Text(fs, m) = <<>> <=> fs = <<>>
  BY <1>3, TextType
<1>5. Format(fs, m) = IF Text(fs, m) = <<>> THEN CombineLogMsg(m) ELSE Text(fs, m)
  BY <1>4 DEF Format
<1>6. QED BY <1>3, <1>5 DEF Meaning, MeantOf, fs

-----------------------------------------------------------------------------
(* Decode: types                                                              *)

LEMMA DTypeInit == DInit => DTypeOK
<1> SUFFICES ASSUME DInit PROVE DTypeOK
  OBVIOUS
<1>1. input \in [pattern : Seq(STRING), codec : Codecs, msgs : Nat]
  BY DecodeAssumption DEF DInit
<1>2. /\ <<>> \in Seq(CellRecords) /\ <<>> \in Seq(ItemRecords) /\ <<>> \in Seq(LineRecords)
  OBVIOUS
<1>3. NewStream(input.codec) \in Nat \cup {NoStream} /\ NewStream(input.codec) \in Int
  BY DEF NewStream, NoMsg, NoStream
<1>4. QED BY <1>1, <1>2, <1>3 DEF DInit, DTypeOK, Statuses

\* The items of the mapping make a chunk of one or two cells each.
LEMMA SizeIs ==
    ASSUME DTypeOK, mmap # <<>>
    PROVE  /\ Len(mmap) \in Nat \ {0} /\ mmap[Len(mmap)] \in ItemRecords
           /\ Size = IF mmap[Len(mmap)].whole THEN 2 * Len(mmap) ELSE 2 * Len(mmap) - 1
           /\ Size \in Nat \ {0}
           /\ Header = [kind |-> "chunk", key |-> session, size |-> Size]
           /\ Header \in CellRecords
<1>1. Len(mmap) \in Nat \ {0} /\ mmap[Len(mmap)] \in ItemRecords
  BY DEF DTypeOK
<1>2. Size = IF mmap[Len(mmap)].whole THEN 2 * Len(mmap) ELSE 2 * Len(mmap) - 1
  BY DEF Size
<1>3. Size \in Nat \ {0}
  BY <1>1, <1>2
<1>4. Header = [kind |-> "chunk", key |-> session, size |-> Size]
  BY DEF Header
<1>5. Header \in CellRecords
  BY <1>3, <1>4 DEF CellRecords, DTypeOK
<1>6. QED BY <1>1, <1>2, <1>3, <1>4, <1>5

\* Half of a place, for the two cells of an item.
LEMMA Half ==
    ASSUME NEW z \in Nat, NEW k \in 1..z, NEW n \in Nat, z <= 2 * n
    PROVE  /\ (k + 1) \div 2 \in 1..n
           /\ k % 2 = 1 => k = 2 * ((k + 1) \div 2) - 1
           /\ k % 2 # 1 => k % 2 = 0 /\ k = 2 * ((k + 1) \div 2)
                           /\ k - 1 \in 1..z /\ ((k - 1) + 1) \div 2 = (k + 1) \div 2
OBVIOUS

LEMMA CellsAre ==
    ASSUME DTypeOK, mmap # <<>>
    PROVE  /\ Cells \in Seq(CellRecords) /\ Len(Cells) = Size
           /\ \A k \in 1..Size :
                 /\ Cells[k] = [kind |-> IF k % 2 = 1 THEN "head" ELSE "data",
                                item |-> mmap[(k + 1) \div 2]]
                 /\ (k + 1) \div 2 \in 1..Len(mmap)
<1>1. Size \in Nat /\ Len(mmap) \in Nat /\ Size <= 2 * Len(mmap)
  BY SizeIs
<1>2. ASSUME NEW k \in 1..Size
      PROVE  /\ (k + 1) \div 2 \in 1..Len(mmap)
             /\ [kind |-> IF k % 2 = 1 THEN "head" ELSE "data", item |-> mmap[(k + 1) \div 2]]
                \in CellRecords
  <2>1. (k + 1) \div 2 \in 1..Len(mmap)
    BY <1>1, Half
  <2>2. mmap[(k + 1) \div 2] \in ItemRecords
    BY <2>1 DEF DTypeOK
  <2>3. QED BY <2>1, <2>2 DEF CellRecords
<1>3. QED BY <1>1, <1>2 DEF Cells

\* The file grows by whole chunks.
Grown ==
    /\ file' \in Seq(CellRecords) /\ Len(file) <= Len(file')
    /\ \A n \in 1..Len(file) : file'[n] = file[n]
    /\ Len(file) # Len(file') => IsChunk(file'[Len(file) + 1])

\* A chunk is written, with its items.
Written ==
    /\ Len(file') = Len(file) + 1 + Size
    /\ file'[Len(file) + 1] = Header
    /\ \A k \in 1..Size : file'[Len(file) + 1 + k] = Cells[k]

\* Two sequences of known lengths, one behind the other.
LEMMA Concat ==
    ASSUME NEW S, NEW s \in Seq(S), NEW t \in Seq(S), NEW a, NEW b, Len(s) = a, Len(t) = b
    PROVE  /\ s \o t \in Seq(S) /\ Len(s \o t) = a + b
           /\ \A k \in 1..a + b : (s \o t)[k] = IF k <= a THEN s[k] ELSE t[k - a]
BY ConcatProperties

LEMMA WriteGrows ==
    ASSUME DTypeOK, mmap # <<>>, file' = file \o <<Header>> \o Cells
    PROVE  Grown /\ Written
<1> DEFINE h == <<Header>>
           c == Cells
           n == Len(file)
<1>1. file \in Seq(CellRecords) /\ Len(file) = n /\ n \in Nat
  BY DEF DTypeOK
<1>2. h \in Seq(CellRecords) /\ Len(h) = 1 /\ h[1] = Header /\ IsChunk(Header)
  BY SizeIs DEF IsChunk
<1>3. c \in Seq(CellRecords) /\ Len(c) = Size /\ Size \in Nat
  BY CellsAre, SizeIs
<1> HIDE DEF h, c, n
<1> DEFINE a == file \o h
<1>4. /\ a \in Seq(CellRecords) /\ Len(a) = n + 1 /\ a[n + 1] = h[1]
      /\ \A k \in 1..n : a[k] = file[k]
  <2>1. a = Append(file, Header)
    BY <1>1, SizeIs, AppendIsConcat DEF h
  <2>2. Header \in CellRecords
    BY SizeIs
  <2>3. QED BY <1>1, <1>2, <2>1, <2>2, AppendProperties
<1> HIDE DEF a
<1>5. file' = a \o c
  BY DEF a, h, c
<1>6. /\ file' \in Seq(CellRecords) /\ Len(file') = n + 1 + Size
      /\ \A k \in 1..n + 1 + Size : file'[k] = IF k <= n + 1 THEN a[k] ELSE c[k - (n + 1)]
  <2>1. /\ a \o c \in Seq(CellRecords) /\ Len(a \o c) = n + 1 + Size
        /\ \A k \in 1..n + 1 + Size : (a \o c)[k] = IF k <= n + 1 THEN a[k] ELSE c[k - (n + 1)]
    <3>1. Len(a) = n + 1 /\ Len(c) = Size /\ a \in Seq(CellRecords) /\ c \in Seq(CellRecords)
      BY <1>3, <1>4
    <3>2. QED BY ONLY <3>1, Concat
  <2>2. QED BY <1>5, <2>1
<1>7. \A k \in 1..n : file'[k] = file[k]
  <2>1. \A k \in 1..n : k \in 1..n + 1 + Size /\ k <= n + 1
    BY <1>1, <1>3
  <2>2. QED BY <1>4, <1>6, <2>1
<1>8. file'[n + 1] = Header
  <2>1. n + 1 \in 1..n + 1 + Size /\ n + 1 <= n + 1
    BY <1>1, <1>3
  <2>2. QED BY <1>2, <1>4, <1>6, <2>1
<1>9. \A k \in 1..Size : file'[n + 1 + k] = c[k]
  <2>1. \A k \in 1..Size : n + 1 + k \in 1..n + 1 + Size /\ ~(n + 1 + k <= n + 1)
                           /\ (n + 1 + k) - (n + 1) = k
    BY <1>1, <1>3
  <2>2. QED BY <1>6, <2>1
<1>10. n <= Len(file')
  BY <1>1, <1>3, <1>6
<1>11. QED BY <1>2, <1>6, <1>7, <1>8, <1>9, <1>10 DEF Grown, Written, n, c

LEMMA HeaderGrows ==
    ASSUME DTypeOK, mmap # <<>>, file' = Append(file, Header)
    PROVE  Grown /\ Len(file') = Len(file) + 1 /\ file'[Len(file) + 1] = Header
<1>1. file \in Seq(CellRecords) /\ Len(file) \in Nat /\ Header \in CellRecords /\ IsChunk(Header)
  BY SizeIs DEF DTypeOK, IsChunk
<1> DEFINE h == Header
<1>2. h \in CellRecords
  BY <1>1
<1> HIDE DEF h
<1>3. /\ Append(file, h) \in Seq(CellRecords) /\ Len(Append(file, h)) = Len(file) + 1
      /\ Append(file, h)[Len(file) + 1] = h
      /\ \A n \in 1..Len(file) : Append(file, h)[n] = file[n]
  BY <1>1, <1>2
<1>4. file' = Append(file, h)
  BY DEF h
<1>5. QED BY <1>1, <1>3, <1>4 DEF Grown, h

\* What a decompression returns is a number, and leaves one.
LEMMA DecompressedType ==
    ASSUME NEW codec, NEW d \in Int, NEW b \in Blocks, NEW r,
           r \in Decompressed(codec, d, b) \/ r \in DecompressedNoise(d)
    PROVE  r.text \in Nat /\ r.dctx \in Int
<1>1. b.msg \in Nat /\ b.prev \in Nat /\ b.long \in BOOLEAN
  BY DEF Blocks
<1>2. ASSUME r \in DecompressedNoise(d)
      PROVE  r.text \in Nat /\ r.dctx \in Int
  BY <1>2 DEF DecompressedNoise, Garbled, NoStream, Broken
<1>3. ASSUME r \in Decompressed(codec, d, b)
      PROVE  r.text \in Nat /\ r.dctx \in Int
  <2> DEFINE e == Resume(d, b)
             read == [text |-> b.msg, dctx |-> b.msg]
             wrong == [text |-> Garbled, dctx |-> Broken]
             part == [text |-> b.msg, dctx |-> Broken]
             none == [text |-> Garbled, dctx |-> NoStream]
  <2>1. e = NoStream \/ e \notin {b.prev, NoStream} \/ (e = b.prev /\ ~b.long) \/ (e = b.prev /\ b.long)
    BY <1>1
  <2>2. r \in {read, wrong, part, none}
    <3>1. CASE e = NoStream
      BY <1>1, <1>3, <3>1 DEF Decompressed, NoStream
    <3>2. CASE e # NoStream /\ e \notin {b.prev, NoStream}
      BY <1>1, <1>3, <3>2 DEF Decompressed
    <3>3. CASE e # NoStream /\ e = b.prev /\ ~b.long
      BY <1>1, <1>3, <3>3 DEF Decompressed
    <3>4. CASE e # NoStream /\ e = b.prev /\ b.long
      BY <1>1, <1>3, <3>4 DEF Decompressed
    <3>5. QED BY <2>1, <3>1, <3>2, <3>3, <3>4
  <2>3. QED BY <1>1, <2>2 DEF Garbled, NoStream, Broken
<1>4. QED BY <1>2, <1>3

\* A short message behind what it continues, or at the beginning of a frame, is read.
LEMMA DecompressedRead ==
    ASSUME NEW codec, NEW d, NEW b \in Blocks, ~b.long, b.prev = NoMsg \/ d = b.prev,
           NEW r \in Decompressed(codec, d, b)
    PROVE  r.text = b.msg /\ r.dctx = b.msg
<1>1. b.prev \in Nat
  BY DEF Blocks
<1>2. Resume(d, b) = b.prev
  BY DEF Resume, IsCompressed, ResetDecompressStream
<1>3. b.prev # NoStream
  BY <1>1 DEF NoStream
<1>4. r \in {[text |-> b.msg, dctx |-> b.msg]}
  BY <1>2, <1>3 DEF Decompressed
<1>5. QED BY <1>4

-----------------------------------------------------------------------------
(* Decode: the file                                                           *)

\* No message of the file or the mapping becomes one that must be read.
CleanGrown == clean \subseteq clean' /\ \A m \in clean' : m < next => m \in clean

LEMMA CellType ==
    ASSUME DTypeOK, NEW p \in 1..Len(file)
    PROVE  /\ IsChunk(file[p]) => file[p].key \in Nat /\ file[p].size \in Nat \ {0}
           /\ ~IsChunk(file[p]) => file[p].kind \in {"head", "data"} /\ file[p].item \in ItemRecords
<1>1. file[p] \in CellRecords
  BY DEF DTypeOK
<1>2. QED BY <1>1 DEF CellRecords, IsChunk

LEMMA ItemType ==
    ASSUME NEW x \in ItemRecords
    PROVE  /\ x.key \in Nat /\ x.whole \in BOOLEAN /\ x.block \in Blocks
           /\ x.block.msg \in Nat /\ x.block.prev \in Nat /\ x.block.long \in BOOLEAN
BY DEF ItemRecords, Blocks

\* The places of a chunk with its items.
LEMMA FullPlaces ==
    ASSUME DTypeOK, NEW p \in 1..Len(file), IsChunk(file[p]), p + file[p].size <= Len(file),
           NEW k \in 1..file[p].size
    PROVE  /\ p + k \in 1..Len(file) /\ Back(p, k) \in Int /\ Back(p, k) <= Len(file)
           /\ k % 2 = 0 => p + k - 1 \in 1..Len(file)
<1>1. file[p].size \in Nat /\ Len(file) \in Nat /\ p \in Nat
  BY CellType DEF DTypeOK
<1>2. p + k \in 1..Len(file) /\ p + k - 1 \in 1..Len(file)
  BY <1>1
<1>3. Back(p, k) \in Int /\ Back(p, k) <= Len(file)
  BY <1>1 DEF Back
<1>4. QED BY <1>2, <1>3

LEMMA EndsKept ==
    ASSUME DTypeOK, Grown, NEW p \in 1..Len(file), Ends(file, p)
    PROVE  Ends(file', p)
<1>1. Len(file) \in Nat /\ Len(file') \in Nat /\ p \in Nat
  BY DEF DTypeOK, Grown
<1>2. CASE p = Len(file)
  BY <1>1, <1>2 DEF Grown, Ends
<1>3. CASE p # Len(file)
  <2>1. p + 1 \in 1..Len(file)
    BY <1>1, <1>3
  <2>2. QED BY <1>3, <2>1 DEF Grown, Ends, IsChunk
<1>4. QED BY <1>2, <1>3

\* What is in the file stays as it is.
LEMMA FullKept ==
    ASSUME DTypeOK, FreshInv, Grown, CleanGrown, NEW p \in 1..Len(file), IsChunk(file[p]), Full(file, p)
    PROVE  Full(file, p)'
<1> DEFINE z == file[p].size
<1>1. /\ Len(file) \in Nat /\ p \in Nat /\ z \in Nat \ {0} /\ p + z <= Len(file)
      /\ Ends(file, p + z) /\ Len(file) <= Len(file')
  BY CellType DEF DTypeOK, Full, Grown
<1>2. file'[p] = file[p] /\ p + z \in 1..Len(file)
  BY <1>1 DEF Grown
<1>3. Ends(file', p + z)
  BY <1>1, <1>2, EndsKept
<1>4. Len(file') \in Nat
  BY DEF Grown
<1>5. p + z <= Len(file')
  BY <1>1, <1>4
<1>6. ASSUME NEW k \in 1..z
      PROVE  CellOk(file, p, k)' /\ LinkOk(file, p, k)'
  <2>1. CellOk(file, p, k) /\ LinkOk(file, p, k)
    BY DEF Full
  <2>2. /\ p + k \in 1..Len(file) /\ Back(p, k) \in Int /\ Back(p, k) <= Len(file)
        /\ k % 2 = 0 => p + k - 1 \in 1..Len(file)
    BY <1>1, FullPlaces
  <2>3. file'[p + k] = file[p + k] /\ (k % 2 = 0 => file'[p + k - 1] = file[p + k - 1])
    BY <2>2 DEF Grown
  <2>4. CellOk(file, p, k)'
    BY <1>2, <2>1, <2>3 DEF CellOk
  <2>5. LinkOk(file, p, k)'
    <3> DEFINE x == file[p + k].item
               q == Back(p, k)
    <3>1. file'[p + k].item = x /\ x.block.msg < next
      <4>1. ~IsChunk(file[p + k])
        BY <2>1 DEF CellOk, IsChunk
      <4>2. QED BY <2>2, <2>3, <4>1 DEF FreshInv
    <3>2. SUFFICES ASSUME k % 2 = 1, x.key = file[p].key, x.block.msg \in clean'
                   PROVE  /\ ~x.block.long
                          /\ x.block.prev # NoMsg =>
                                /\ q >= 1 /\ ~IsChunk(file'[q])
                                /\ file'[q].item.block.msg = x.block.prev
                                /\ file'[q].item.block.msg \in clean'
                                /\ file'[q].item.key = x.key
      BY <1>2, <3>1 DEF LinkOk, Follows, IsChunk
    <3>3. x.block.msg \in clean
      BY <3>1, <3>2 DEF CleanGrown
    <3>4. /\ ~x.block.long
          /\ x.block.prev # NoMsg =>
                q >= 1 /\ ~IsChunk(file[q]) /\ Follows(x, file[q].item)
      BY <2>1, <3>2, <3>3 DEF LinkOk
    <3>5. x.block.prev # NoMsg => file'[q] = file[q]
      <4>1. q >= 1 => q \in 1..Len(file)
        BY <1>1, <2>2
      <4>2. QED BY <3>4, <4>1 DEF Grown
    <3> HIDE DEF x, q
    <3>6. QED BY <3>4, <3>5 DEF Follows, CleanGrown
  <2>6. QED BY <2>4, <2>5
<1>7. QED BY <1>2, <1>3, <1>5, <1>6 DEF Full

\* The chunks that were there stay as they are.
LEMMA OldChunks ==
    ASSUME DTypeOK, ChunkInv, FreshInv, Grown, CleanGrown, session' \in Nat, session <= session',
           NEW p \in 1..Len(file), IsChunk(file'[p])
    PROVE  /\ IsChunk(file[p]) /\ file'[p].key <= session /\ file'[p].key <= session'
           /\ Ends(file, p)' \/ Full(file, p)'
<1>1. file'[p] = file[p] /\ IsChunk(file[p])
  BY DEF Grown
<1>2. file[p].key \in Nat /\ session \in Nat /\ file[p].key <= session
  BY <1>1, CellType DEF DTypeOK, ChunkInv
<1>3. file[p].key <= session'
  BY <1>2
<1>4. Ends(file, p) \/ Full(file, p)
  BY <1>1 DEF ChunkInv
<1>5. Ends(file, p)' \/ Full(file, p)'
  BY <1>1, <1>4, EndsKept, FullKept
<1>6. QED BY <1>1, <1>2, <1>3, <1>5

\* The file is fine if what has been added is.
LEMMA ChunkAdded ==
    ASSUME DTypeOK, ChunkInv, FreshInv, Grown, CleanGrown, session' \in Nat, session <= session',
           \A p \in Len(file) + 1..Len(file') : IsChunk(file'[p]) =>
              /\ p = Len(file) + 1 /\ file'[p].key = session
              /\ Ends(file, p)' \/ Full(file, p)'
    PROVE  ChunkInv'
<1>1. Len(file) \in Nat /\ Len(file') \in Nat /\ Len(file) <= Len(file') /\ session \in Nat
  BY DEF DTypeOK, Grown
<1>2. ASSUME NEW p \in 1..Len(file')
      PROVE  p \in 1..Len(file) \/ p \in Len(file) + 1..Len(file')
  BY <1>1
<1>3. file' = <<>> \/ IsChunk(file'[1])
  <2>1. CASE file = <<>>
    BY <1>1, <2>1 DEF Grown
  <2>2. CASE file # <<>>
    <3>1. 1 \in 1..Len(file)
      BY <2>2 DEF DTypeOK
    <3>2. QED BY <2>2, <3>1 DEF Grown, ChunkInv
  <2>3. QED BY <2>1, <2>2
<1>4. ASSUME NEW p \in 1..Len(file'), IsChunk(file'[p])
      PROVE  file'[p].key <= session' /\ (Ends(file, p)' \/ Full(file, p)')
  <2>1. CASE p \in 1..Len(file)
    BY <1>4, <2>1, OldChunks
  <2>2. CASE p \in Len(file) + 1..Len(file')
    BY <1>1, <1>4, <2>2
  <2>3. QED BY <1>2, <2>1, <2>2
<1>5. ASSUME NEW p \in 1..Len(file'), NEW q \in 1..Len(file'), p < q,
             IsChunk(file'[p]), IsChunk(file'[q])
      PROVE  file'[p].key <= file'[q].key
  <2>1. CASE q \in 1..Len(file)
    <3>1. p \in 1..Len(file)
      BY <1>5, <2>1
    <3>2. QED BY <1>5, <2>1, <3>1 DEF Grown, ChunkInv
  <2>2. CASE q \in Len(file) + 1..Len(file')
    <3>1. q = Len(file) + 1 /\ file'[q].key = session
      BY <1>5, <2>2
    <3>2. p \in 1..Len(file)
      BY <1>1, <1>5, <3>1
    <3>3. QED BY <1>5, <3>1, <3>2, OldChunks
  <2>3. QED BY <1>2, <2>1, <2>2
<1>6. QED BY <1>3, <1>4, <1>5 DEF ChunkInv

\* The chunk that is written has all its items, as the mapping has them.
LEMMA WrittenCell ==
    ASSUME DTypeOK, mmap # <<>>, Written, NEW k \in 1..Size
    PROVE  /\ (k + 1) \div 2 \in 1..Len(mmap)
           /\ file'[Len(file) + 1 + k].kind = IF k % 2 = 1 THEN "head" ELSE "data"
           /\ file'[Len(file) + 1 + k].item = mmap[(k + 1) \div 2]
           /\ ~IsChunk(file'[Len(file) + 1 + k])
<1>1. file'[Len(file) + 1 + k] = Cells[k]
  BY DEF Written
<1>2. /\ Cells[k] = [kind |-> IF k % 2 = 1 THEN "head" ELSE "data",
                     item |-> mmap[(k + 1) \div 2]]
      /\ (k + 1) \div 2 \in 1..Len(mmap)
  BY CellsAre
<1>3. QED BY <1>1, <1>2 DEF IsChunk

LEMMA WrittenOk ==
    ASSUME DTypeOK, MmapInv, mmap # <<>>, Grown, Written, NEW k \in 1..Size
    PROVE  CellOk(file', Len(file) + 1, k)
<1> DEFINE p == Len(file) + 1
           h == (k + 1) \div 2
           n == Len(mmap)
<1>1. /\ h \in 1..n
      /\ file'[p + k].kind = IF k % 2 = 1 THEN "head" ELSE "data"
      /\ file'[p + k].item = mmap[h]
  BY WrittenCell
<1>2. file'[p].key = session /\ file'[p].size = Size
  BY SizeIs DEF Written
<1>3. /\ n \in Nat \ {0} /\ Size \in Nat \ {0}
      /\ Size = IF mmap[n].whole THEN 2 * n ELSE 2 * n - 1
  BY SizeIs
<1>4. /\ mmap[h].key <= session /\ (mmap[h].key = session => mmap[h].whole)
      /\ h # n => mmap[h].whole
  BY <1>1 DEF MmapInv
<1>5. /\ k % 2 = 1 => k = 2 * h - 1
      /\ k % 2 # 1 => k % 2 = 0 /\ k - 1 \in 1..Size /\ ((k - 1) + 1) \div 2 = h
  BY <1>3, Half
<1>6. k % 2 = 0 => file'[p + k].item = file'[p + k - 1].item
  <2>1. SUFFICES ASSUME k % 2 = 0 PROVE file'[p + k].item = file'[p + k - 1].item
    OBVIOUS
  <2>2. k % 2 # 1
    BY <2>1
  <2>3. k - 1 \in 1..Size /\ ((k - 1) + 1) \div 2 = h
    BY <1>5, <2>2
  <2>4. file'[p + (k - 1)].item = mmap[((k - 1) + 1) \div 2]
    BY <2>3, WrittenCell
  <2>5. p + (k - 1) = p + k - 1
    BY DEF DTypeOK
  <2>6. QED BY <1>1, <2>3, <2>4, <2>5
<1>7. k % 2 = 1 => (mmap[h].whole <=> k # Size)
  <2>1. SUFFICES ASSUME k = 2 * h - 1 PROVE mmap[h].whole <=> k # Size
    BY <1>5
  <2>2. CASE h = n
    <3>1. mmap[n].whole <=> k # Size
      BY <1>3, <2>1, <2>2
    <3>2. QED BY <2>2, <3>1
  <2>3. CASE h # n
    <3>1. k # Size
      BY <1>1, <1>3, <2>1, <2>3
    <3>2. QED BY <1>4, <2>3, <3>1
  <2>4. QED BY <2>2, <2>3
<1> HIDE DEF p, h, n
<1>8. CellOk(file', p, k)
  BY <1>1, <1>2, <1>4, <1>6, <1>7 DEF CellOk
<1>9. QED BY <1>8 DEF p

LEMMA WrittenLink ==
    ASSUME DTypeOK, MmapInv, mmap # <<>>, Grown, Written, NEW k \in 1..Size
    PROVE  LinkOk(file', Len(file) + 1, k)
<1> DEFINE p == Len(file) + 1
           h == (k + 1) \div 2
           q == Back(p, k)
<1>1. h \in 1..Len(mmap) /\ file'[p + k].item = mmap[h]
  BY WrittenCell
<1>2. file'[p].key = session
  BY SizeIs DEF Written
<1>3. SUFFICES ASSUME k % 2 = 1, mmap[h].key = session, mmap[h].block.msg \in clean
               PROVE  /\ ~mmap[h].block.long
                      /\ mmap[h].block.prev # NoMsg =>
                            q >= 1 /\ ~IsChunk(file'[q]) /\ Follows(mmap[h], file'[q].item)
  BY <1>1, <1>2 DEF LinkOk
<1>4. /\ ~mmap[h].block.long
      /\ mmap[h].block.prev # NoMsg =>
            IF h > 1 THEN Follows(mmap[h], mmap[h - 1])
            ELSE /\ file # <<>> /\ ~IsChunk(file[Len(file)])
                 /\ Follows(mmap[h], file[Len(file)].item)
  BY <1>1, <1>3 DEF MmapInv
<1>5. Size \in Nat /\ Len(mmap) \in Nat /\ Size <= 2 * Len(mmap) /\ Len(file) \in Nat
  BY SizeIs DEF DTypeOK
<1>6. k = 2 * h - 1
  BY <1>3, <1>5, Half
<1>7. CASE h > 1
  <2>1. k - 1 \in 1..Size /\ ((k - 1) + 1) \div 2 = h - 1 /\ k # 1
    BY <1>1, <1>5, <1>6, <1>7
  <2>2. q = p + (k - 1)
    BY <1>5, <2>1 DEF Back
  <2>3. file'[p + (k - 1)].item = mmap[h - 1] /\ ~IsChunk(file'[p + (k - 1)])
    BY <2>1, WrittenCell
  <2>4. q >= 1
    BY <1>5, <2>1, <2>2
  <2>5. QED BY <1>4, <1>7, <2>2, <2>3, <2>4
<1>8. CASE ~(h > 1)
  <2>1. k = 1
    BY <1>1, <1>6, <1>8
  <2>2. q = Len(file)
    BY <1>5, <2>1 DEF Back
  <2>3. file # <<>> => q >= 1 /\ q \in 1..Len(file)
    BY <2>2 DEF DTypeOK
  <2>4. file # <<>> => file'[q] = file[Len(file)]
    BY <2>2, <2>3 DEF Grown
  <2>5. QED BY <1>4, <1>8, <2>3, <2>4
<1>9. QED BY <1>7, <1>8

LEMMA WrittenFull ==
    ASSUME DTypeOK, MmapInv, mmap # <<>>, Grown, Written, clean' = clean,
           NEW p, p = Len(file) + 1
    PROVE  /\ Full(file, p)'
           /\ \A q \in p..Len(file') : IsChunk(file'[q]) => q = p
           /\ ~IsChunk(file'[Len(file')]) /\ file'[Len(file')].item = mmap[Len(mmap)]
           /\ file' # <<>> /\ file'[p].key = session
<1>1. /\ Len(file') = p + Size /\ file'[p] = Header /\ file'[p].size = Size
      /\ Size \in Nat \ {0} /\ Len(file) \in Nat /\ p \in Nat /\ file'[p].key = session
  BY SizeIs DEF Written, DTypeOK
<1>2. Ends(file', p + Size)
  BY <1>1 DEF Ends
<1>3. ASSUME NEW k \in 1..Size
      PROVE  CellOk(file, p, k)' /\ LinkOk(file, p, k)'
  <2>1. CellOk(file', p, k) /\ LinkOk(file', p, k)
    BY WrittenOk, WrittenLink
  <2>2. QED BY <2>1 DEF CellOk, LinkOk, Follows
<1>4. Full(file, p)'
  BY <1>1, <1>2, <1>3 DEF Full
<1>5. ASSUME NEW q \in p..Len(file'), q # p
      PROVE  ~IsChunk(file'[q])
  <2>1. q - p \in 1..Size /\ p + (q - p) = q
    BY <1>1, <1>5
  <2>2. QED BY <2>1, WrittenCell
<1>6. ~IsChunk(file'[Len(file')]) /\ file'[Len(file')].item = mmap[Len(mmap)]
  <2>1. /\ Size = IF mmap[Len(mmap)].whole THEN 2 * Len(mmap) ELSE 2 * Len(mmap) - 1
        /\ Len(mmap) \in Nat \ {0}
    BY SizeIs
  <2>2. (Size + 1) \div 2 = Len(mmap) /\ Size \in 1..Size
    <3>1. \A n \in Nat : (2 * n + 1) \div 2 = n /\ ((2 * n - 1) + 1) \div 2 = n
      OBVIOUS
    <3>2. CASE mmap[Len(mmap)].whole
      BY <1>1, <2>1, <3>1, <3>2
    <3>3. CASE ~mmap[Len(mmap)].whole
      BY <1>1, <2>1, <3>1, <3>3
    <3>4. QED BY <3>2, <3>3
  <2>3. QED BY <1>1, <2>2, WrittenCell
<1>7. QED BY <1>1, <1>4, <1>5, <1>6

\* A block that is stored goes behind the last item.
LEMMA MmapAppend ==
    ASSUME DTypeOK, NEW x \in ItemRecords, mmap' = Append(mmap, x)
    PROVE  /\ mmap' \in Seq(ItemRecords) /\ Len(mmap') = Len(mmap) + 1 /\ Len(mmap) \in Nat
           /\ mmap'[Len(mmap) + 1] = x
           /\ \A k \in 1..Len(mmap) : mmap'[k] = mmap[k]
           /\ mmap' # <<>>
<1>1. mmap \in Seq(ItemRecords) /\ Len(mmap) \in Nat
  BY DEF DTypeOK
<1>2. QED BY <1>1, AppendProperties

LEMMA SinkInit == DInit => SinkInv
<1> SUFFICES ASSUME DInit PROVE SinkInv
  OBVIOUS
<1>1. cctx \in {NoMsg, NoStream}
  BY DEF DInit, NewStream
<1>2. ChunkInv /\ MmapInv /\ FreshInv /\ OrderInv
  BY DEF DInit, ChunkInv, MmapInv, FreshInv, OrderInv
<1>3. QED BY <1>1, <1>2 DEF SinkInv, StreamInv

\* What a Log does when its stream exists: a block is lost, or stored.
Block(c, long) == [msg |-> next, prev |-> c, long |-> long]

LEMMA LogFacts ==
    ASSUME DTypeOK, Log
    PROVE  /\ status = "log" /\ OwnItems /\ next' = next + 1
           /\ UNCHANGED <<input, file, session, decoderVars>>
           /\ \E c \in Nat \cup {NoStream}, ok, stored, long \in BOOLEAN :
                 /\ ok => c = NoMsg \/ (c = cctx /\ frameOK)
                 /\ IF c # NoStream
                    THEN /\ cctx' = next
                         /\ mmap' = IF stored
                                    THEN Append(mmap, [key |-> session, whole |-> TRUE, block |-> Block(c, long)])
                                    ELSE mmap
                         /\ frameOK' = (ok /\ stored /\ ~long)
                         /\ clean' = IF ok /\ stored /\ ~long THEN clean \cup {next} ELSE clean
                    ELSE UNCHANGED <<mmap, cctx, frameOK, clean>>
<1>1. /\ status = "log" /\ OwnItems /\ next' = next + 1
      /\ UNCHANGED <<input, file, session, decoderVars>>
  BY DEF Log
<1>2. PICK reset \in BOOLEAN, long \in BOOLEAN, stored \in BOOLEAN :
         LET c == IF reset THEN Reset ELSE cctx
             ok == reset \/ frameOK
         IN IF CanCompress(c)
            THEN /\ cctx' = next
                 /\ mmap' = IF stored
                            THEN Append(mmap, Encrypt(Compress(c, next, long)))
                            ELSE mmap
                 /\ frameOK' = (ok /\ stored /\ ~long)
                 /\ clean' = IF ok /\ stored /\ ~long THEN clean \cup {next} ELSE clean
            ELSE UNCHANGED <<mmap, cctx, frameOK, clean>>
  BY DEF Log
<1> DEFINE c == IF reset THEN Reset ELSE cctx
           ok == reset \/ frameOK
<1>3. c \in Nat \cup {NoStream} /\ ok \in BOOLEAN /\ (ok => c = NoMsg \/ (c = cctx /\ frameOK))
  BY DEF DTypeOK, Reset, NoMsg
<1>4. IF c # NoStream
      THEN /\ cctx' = next
           /\ mmap' = IF stored
                      THEN Append(mmap, [key |-> session, whole |-> TRUE, block |-> Block(c, long)])
                      ELSE mmap
           /\ frameOK' = (ok /\ stored /\ ~long)
           /\ clean' = IF ok /\ stored /\ ~long THEN clean \cup {next} ELSE clean
      ELSE UNCHANGED <<mmap, cctx, frameOK, clean>>
  BY <1>2 DEF CanCompress, Encrypt, Compress, Block
<1> HIDE DEF c, ok
<1>5. QED BY <1>1, <1>3, <1>4

LEMMA LogSink ==
    ASSUME DTypeOK, SinkInv, Log
    PROVE  /\ SinkInv'
           /\ mmap' \in Seq(ItemRecords) /\ cctx' \in Nat \cup {NoStream}
           /\ next' \in Nat \ {0} /\ frameOK' \in BOOLEAN /\ clean' \subseteq Nat
<1>1. /\ OwnItems /\ next' = next + 1 /\ file' = file /\ session' = session
  BY LogFacts
<1>2. PICK c \in Nat \cup {NoStream}, ok \in BOOLEAN, stored \in BOOLEAN, long \in BOOLEAN :
         /\ ok => c = NoMsg \/ (c = cctx /\ frameOK)
         /\ IF c # NoStream
            THEN /\ cctx' = next
                 /\ mmap' = IF stored
                            THEN Append(mmap, [key |-> session, whole |-> TRUE, block |-> Block(c, long)])
                            ELSE mmap
                 /\ frameOK' = (ok /\ stored /\ ~long)
                 /\ clean' = IF ok /\ stored /\ ~long THEN clean \cup {next} ELSE clean
            ELSE UNCHANGED <<mmap, cctx, frameOK, clean>>
  BY LogFacts
<1>3. /\ next \in Nat \ {0} /\ session \in Nat /\ Len(file) \in Nat /\ Len(mmap) \in Nat
      /\ file \in Seq(CellRecords) /\ mmap \in Seq(ItemRecords)
      /\ clean \subseteq Nat /\ frameOK \in BOOLEAN /\ cctx \in Nat \cup {NoStream}
  BY DEF DTypeOK
<1>4. CleanGrown /\ clean' \subseteq clean \cup {next}
  BY <1>2, <1>3 DEF CleanGrown
<1>5. Grown
  BY <1>1, <1>3 DEF Grown
<1>6. ChunkInv'
  <2>1. Len(file) + 1..Len(file') = {}
    BY <1>1, <1>3
  <2>2. QED BY <1>1, <1>3, <1>4, <1>5, <2>1, ChunkAdded DEF SinkInv
\* The items that were there.
<1>7. \A k \in 1..Len(mmap) : mmap[k].block.msg < next /\ mmap[k] \in ItemRecords
  BY DEF SinkInv, FreshInv, DTypeOK
<1>8. ASSUME NEW k \in 1..Len(mmap)
      PROVE  mmap[k].key = session /\ mmap[k].block.msg \in clean' =>
                /\ ~mmap[k].block.long
                /\ mmap[k].block.prev # NoMsg =>
                      IF k > 1 THEN mmap[k - 1].block.msg = mmap[k].block.prev
                                    /\ mmap[k - 1].block.msg \in clean' /\ mmap[k - 1].key = mmap[k].key
                      ELSE /\ file # <<>> /\ ~IsChunk(file[Len(file)])
                           /\ file[Len(file)].item.block.msg = mmap[k].block.prev
                           /\ file[Len(file)].item.block.msg \in clean'
                           /\ file[Len(file)].item.key = mmap[k].key
  <2>1. SUFFICES ASSUME mmap[k].key = session, mmap[k].block.msg \in clean' PROVE
                /\ ~mmap[k].block.long
                /\ mmap[k].block.prev # NoMsg =>
                      IF k > 1 THEN mmap[k - 1].block.msg = mmap[k].block.prev
                                    /\ mmap[k - 1].block.msg \in clean' /\ mmap[k - 1].key = mmap[k].key
                      ELSE /\ file # <<>> /\ ~IsChunk(file[Len(file)])
                           /\ file[Len(file)].item.block.msg = mmap[k].block.prev
                           /\ file[Len(file)].item.block.msg \in clean'
                           /\ file[Len(file)].item.key = mmap[k].key
    OBVIOUS
  <2>2. mmap[k].block.msg \in clean
    BY <1>4, <1>7, <2>1 DEF CleanGrown
  <2>3. QED BY <1>4, <2>1, <2>2 DEF SinkInv, MmapInv, Follows, CleanGrown
\* The item that is new.
<1>9. CASE c # NoStream /\ stored
  <2> DEFINE x == [key |-> session, whole |-> TRUE, block |-> Block(c, long)]
  <2>1. /\ x \in ItemRecords /\ x.key = session /\ x.whole = TRUE
        /\ x.block.msg = next /\ x.block.prev = c /\ x.block.long = long
    BY <1>2, <1>3, <1>9 DEF ItemRecords, Blocks, Block
  <2>2. mmap' = Append(mmap, x)
    BY <1>2, <1>9
  <2> HIDE DEF x
  <2>3. /\ mmap' \in Seq(ItemRecords) /\ Len(mmap') = Len(mmap) + 1
        /\ mmap'[Len(mmap) + 1] = x
        /\ \A k \in 1..Len(mmap) : mmap'[k] = mmap[k]
        /\ mmap' # <<>>
    BY <2>1, <2>2, MmapAppend
  <2>4. next \in clean' => ok /\ ~long
    BY <1>2, <1>3, <1>9 DEF SinkInv, FreshInv
  <2>5. ok /\ c # NoMsg => HasLast /\ LastItem.block.msg = c /\ c \in clean /\ LastItem.key = session
    BY <1>2, <1>9 DEF SinkInv, StreamInv
  <2>6. ASSUME NEW k \in 1..Len(mmap')
        PROVE  /\ mmap'[k].key <= session /\ mmap'[k].whole
               /\ mmap'[k].block.msg < next + 1
               /\ mmap'[k].key = session /\ mmap'[k].block.msg \in clean' =>
                     /\ ~mmap'[k].block.long
                     /\ mmap'[k].block.prev # NoMsg =>
                          IF k > 1 THEN mmap'[k - 1].block.msg = mmap'[k].block.prev
                                        /\ mmap'[k - 1].block.msg \in clean'
                                        /\ mmap'[k - 1].key = mmap'[k].key
                          ELSE /\ file # <<>> /\ ~IsChunk(file[Len(file)])
                               /\ file[Len(file)].item.block.msg = mmap'[k].block.prev
                               /\ file[Len(file)].item.block.msg \in clean'
                               /\ file[Len(file)].item.key = mmap'[k].key
    <3>1. CASE k \in 1..Len(mmap)
      <4>1. mmap'[k] = mmap[k] /\ mmap[k].key = session /\ mmap[k].whole
        BY <1>1, <2>3, <3>1 DEF OwnItems, SinkInv, MmapInv
      <4>2. k > 1 => mmap'[k - 1] = mmap[k - 1]
        BY <1>3, <2>3, <3>1
      <4>3. mmap[k].block.msg < next + 1
        BY <1>3, <1>7, <3>1, ItemType
      <4>4. QED BY <1>3, <1>8, <3>1, <4>1, <4>2, <4>3, SMTT(20)
    <3>2. CASE k = Len(mmap) + 1
      <4>1. mmap'[k] = x
        BY <2>3, <3>2
      <4>2. k > 1 => mmap # <<>> /\ LastItem = mmap'[k - 1]
        <5>1. SUFFICES ASSUME k > 1 PROVE mmap # <<>> /\ LastItem = mmap'[k - 1]
          OBVIOUS
        <5>2. k - 1 = Len(mmap) /\ Len(mmap) \in 1..Len(mmap) /\ mmap # <<>>
          BY <1>3, <3>2, <5>1
        <5>3. QED BY <2>3, <5>2 DEF LastItem
      <4>3. ~(k > 1) => mmap = <<>>
        BY <1>3, <3>2
      <4>4. ~(k > 1) /\ HasLast => file # <<>> /\ ~IsChunk(file[Len(file)]) /\ LastItem = file[Len(file)].item
        BY <4>3 DEF HasLast, LastItem
      <4>5. next < next + 1 /\ session <= session
        BY <1>3
      <4>6. ok /\ c # NoMsg => LastItem.block.msg \in clean'
        BY <1>4, <2>5 DEF CleanGrown
      <4>7. QED BY <2>1, <2>4, <2>5, <4>1, <4>2, <4>4, <4>5, <4>6
    <3>3. QED BY <1>3, <2>3, <3>1, <3>2
  <2>7. MmapInv'
    BY <1>1, <2>6 DEF MmapInv, Follows, IsChunk
  <2>8. StreamInv'
    <3>1. mmap'[Len(mmap')] = x
      BY <2>3
    <3>2. frameOK' => next \in clean'
      BY <1>2, <1>9
    <3>3. cctx' = next
      BY <1>2, <1>9
    <3>4. QED BY <1>1, <2>1, <2>3, <3>1, <3>2, <3>3 DEF StreamInv, HasLast, LastItem
  <2>9. FreshInv'
    <3>1. \A m \in clean' : m < next + 1
      <4>1. \A m \in clean : m \in Nat /\ m < next
        BY <1>3 DEF SinkInv, FreshInv, DTypeOK
      <4>2. \A m \in clean : m < next + 1
        BY <1>3, <4>1
      <4>3. QED BY <1>3, <1>4, <4>2
    <3>2. ASSUME NEW p \in 1..Len(file), ~IsChunk(file[p])
          PROVE  file[p].item.block.msg < next + 1
      BY <1>3, <3>2, CellType, ItemType DEF SinkInv, FreshInv
    <3>3. QED BY <1>1, <2>6, <3>1, <3>2 DEF FreshInv, IsChunk
  <2>10. OrderInv'
    <3>1. \A k \in 1..Len(mmap) : mmap'[k] = mmap[k] /\ mmap[k].block.msg < next
      BY <1>7, <2>3
    <3>2. mmap'[Len(mmap) + 1].block.msg = next
      BY <2>1, <2>3
    <3>3. ASSUME NEW j \in 1..Len(mmap'), NEW k \in 1..Len(mmap'), j < k
          PROVE  mmap'[j].block.msg < mmap'[k].block.msg
      <4>1. j \in 1..Len(mmap) /\ (k \in 1..Len(mmap) \/ k = Len(mmap) + 1)
        BY <1>3, <2>3, <3>3
      <4>2. CASE k \in 1..Len(mmap)
        BY <3>1, <3>3, <4>1, <4>2 DEF SinkInv, OrderInv
      <4>3. CASE k = Len(mmap) + 1
        BY <3>1, <3>2, <4>1, <4>3
      <4>4. QED BY <4>1, <4>2, <4>3
    <3>4. QED BY <3>3 DEF OrderInv
  <2>11. QED BY <1>1, <1>2, <1>3, <1>4, <1>6, <1>9, <2>3, <2>7, <2>8, <2>9, <2>10 DEF SinkInv
\* No item is new.
<1>10. CASE c = NoStream \/ ~stored
  <2>1. mmap' = mmap /\ clean' = clean
    BY <1>2, <1>10
  <2>2. MmapInv'
    BY <1>1, <2>1 DEF SinkInv, MmapInv, Follows, IsChunk
  <2>3. StreamInv'
    BY <1>1, <1>2, <1>10, <2>1 DEF SinkInv, StreamInv, HasLast, LastItem, IsChunk
  <2>4. FreshInv'
    <3>1. \A m \in clean : m < next + 1
      <4>1. \A m \in clean : m \in Nat /\ m < next
        BY <1>3 DEF SinkInv, FreshInv
      <4>2. QED BY <1>3, <4>1
    <3>2. ASSUME NEW p \in 1..Len(file), ~IsChunk(file[p])
          PROVE  file[p].item.block.msg < next + 1
      BY <1>3, <3>2, CellType, ItemType DEF SinkInv, FreshInv
    <3>3. ASSUME NEW k \in 1..Len(mmap)
          PROVE  mmap[k].block.msg < next + 1
      BY <1>3, <1>7, ItemType
    <3>4. QED BY <1>1, <2>1, <3>1, <3>2, <3>3 DEF FreshInv, IsChunk
  <2>5. /\ cctx' \in Nat \cup {NoStream} /\ frameOK' \in BOOLEAN /\ next' \in Nat \ {0}
    BY <1>1, <1>2, <1>3, <1>10
  <2>6. OrderInv'
    BY <2>1 DEF SinkInv, OrderInv
  <2>7. QED BY <1>3, <1>6, <2>1, <2>2, <2>3, <2>4, <2>5, <2>6 DEF SinkInv
<1>11. QED BY <1>9, <1>10

LEMMA SameClean ==
    ASSUME clean' = clean
    PROVE  CleanGrown
BY DEF CleanGrown

\* After a whole chunk the file is fine.
LEMMA WriteChunk ==
    ASSUME DTypeOK, SinkInv, mmap # <<>>, Grown, Written, clean' = clean, session' \in Nat, session <= session'
    PROVE  /\ ChunkInv'
           /\ file' # <<>> /\ ~IsChunk(file'[Len(file')]) /\ file'[Len(file')].item = mmap[Len(mmap)]
<1>1. ASSUME NEW p \in Len(file) + 1..Len(file'), IsChunk(file'[p])
      PROVE  /\ p = Len(file) + 1 /\ file'[p].key = session
             /\ Ends(file, p)' \/ Full(file, p)'
  <2>1. PICK q : q = Len(file) + 1
    OBVIOUS
  <2>2. /\ Full(file, q)' /\ file'[q].key = session
        /\ \A r \in q..Len(file') : IsChunk(file'[r]) => r = q
    BY <2>1, WrittenFull DEF SinkInv
  <2>3. p = q
    BY <1>1, <2>1, <2>2
  <2>4. QED BY <2>1, <2>2, <2>3
<1>2. ChunkInv'
  BY <1>1, SameClean, ChunkAdded DEF SinkInv
<1>3. QED BY <1>2, WrittenFull DEF SinkInv

\* The cells of a file that has grown hold no newer messages.
LEMMA WriteFresh ==
    ASSUME DTypeOK, SinkInv, mmap # <<>>, Grown, Written, NEW p \in 1..Len(file'), ~IsChunk(file'[p])
    PROVE  file'[p].item.block.msg < next
<1>1. /\ Len(file') = Len(file) + 1 + Size /\ Len(file) \in Nat /\ Size \in Nat
      /\ IsChunk(file'[Len(file) + 1])
  BY SizeIs, SMTT(20) DEF Written, DTypeOK, IsChunk
<1>2. CASE p \in 1..Len(file)
  BY <1>2, SMTT(20) DEF SinkInv, FreshInv, Grown, IsChunk
<1>3. CASE p \notin 1..Len(file)
  <2>1. p # Len(file) + 1
    BY <1>1
  <2>2. p - (Len(file) + 1) \in 1..Size /\ Len(file) + 1 + (p - (Len(file) + 1)) = p
    BY <1>1, <1>3, <2>1
  <2>3. PICK k \in 1..Size : Len(file) + 1 + k = p
    BY <2>2
  <2>4. (k + 1) \div 2 \in 1..Len(mmap) /\ file'[p].item = mmap[(k + 1) \div 2]
    BY <2>3, WrittenCell
  <2>5. QED BY <2>4 DEF SinkInv, FreshInv
<1>4. QED BY <1>2, <1>3

LEMMA CacheSink ==
    ASSUME DTypeOK, SinkInv, CacheToFile
    PROVE  SinkInv' /\ file' \in Seq(CellRecords) /\ mmap' \in Seq(ItemRecords)
<1>1. /\ mmap # <<>> /\ file' = file \o <<Header>> \o Cells /\ mmap' = <<>>
      /\ UNCHANGED <<input, cctx, session, next, frameOK, clean>>
  BY DEF CacheToFile
<1>2. Grown /\ Written
  BY <1>1, WriteGrows
<1>3. session \in Nat /\ session <= session /\ session' = session /\ clean' = clean
      /\ next' = next /\ cctx' = cctx /\ frameOK' = frameOK
  BY <1>1 DEF DTypeOK
<1>4. /\ ChunkInv'
      /\ file' # <<>> /\ ~IsChunk(file'[Len(file')]) /\ file'[Len(file')].item = mmap[Len(mmap)]
  BY <1>1, <1>2, <1>3, WriteChunk
<1>5. MmapInv'
  BY <1>1 DEF MmapInv
<1>6. StreamInv'
  <2>1. HasLast' /\ LastItem' = LastItem
    BY <1>1, <1>4 DEF HasLast, LastItem, IsChunk
  <2>2. QED BY <1>3, <2>1 DEF SinkInv, StreamInv
<1>7. FreshInv'
  <2>1. \A p \in 1..Len(file') : ~IsChunk(file'[p]) => file'[p].item.block.msg < next
    BY <1>1, <1>2, WriteFresh
  <2>2. \A m \in clean : m < next
    BY DEF SinkInv, FreshInv
  <2>3. QED BY <1>1, <1>3, <2>1, <2>2 DEF FreshInv, IsChunk
<1>8. mmap' \in Seq(ItemRecords)
  BY <1>1
<1>9. OrderInv'
  BY <1>1 DEF OrderInv
<1>10. QED BY <1>2, <1>4, <1>5, <1>6, <1>7, <1>8, <1>9 DEF SinkInv, Grown

\* In a new file nothing is in front of the mapping: what continues a frame of
\* another file need not be read.
LEMMA OpenSink ==
    ASSUME DTypeOK, SinkInv, OpenFile
    PROVE  SinkInv' /\ file' = <<>> /\ clean' \subseteq Nat /\ frameOK' \in BOOLEAN
<1>1. /\ mmap # <<>> /\ file' = <<>>
      /\ clean' = clean \ Carried /\ frameOK' = (frameOK /\ cctx \notin Carried)
      /\ UNCHANGED <<mmap, cctx, session, next>>
  BY DEF OpenFile
<1>2. Len(mmap) \in Nat /\ mmap \in Seq(ItemRecords) /\ clean \subseteq Nat
  BY DEF DTypeOK
<1>3. ASSUME NEW n \in 1..Len(mmap), mmap[n].block.msg \in Carried
      PROVE  \A j \in 1..n : mmap[j].block.prev # NoMsg
  <2>1. PICK k \in 1..Len(mmap) : /\ mmap[k].block.msg = mmap[n].block.msg
                                  /\ \A j \in 1..k : mmap[j].block.prev # NoMsg
    BY <1>3 DEF Carried, IsCompressed
  <2>2. mmap[k].block.msg \in Nat
    <3>1. mmap[k] \in ItemRecords
      BY <1>2
    <3>2. QED BY <3>1, ItemType
  <2>3. k = n
    BY <1>2, <2>1, <2>2 DEF SinkInv, OrderInv
  <2>4. QED BY <2>1, <2>3
<1>4. ASSUME NEW n \in 1..Len(mmap), mmap[n].block.msg \notin Carried
      PROVE  \E j \in 1..n : mmap[j].block.prev = NoMsg
  BY <1>4 DEF Carried, IsCompressed
<1>5. ChunkInv'
  BY <1>1 DEF ChunkInv
<1>6. MmapInv'
  <2>1. ASSUME NEW k \in 1..Len(mmap), mmap[k].key = session, mmap[k].block.msg \in clean'
        PROVE  /\ ~mmap[k].block.long
               /\ mmap[k].block.prev # NoMsg =>
                     /\ k > 1 /\ mmap[k - 1].block.msg = mmap[k].block.prev
                     /\ mmap[k - 1].block.msg \in clean' /\ mmap[k - 1].key = mmap[k].key
    <3>1. mmap[k].block.msg \in clean /\ mmap[k].block.msg \notin Carried
      BY <1>1, <2>1
    <3>2. ~mmap[k].block.long
      BY <2>1, <3>1 DEF SinkInv, MmapInv
    <3>3. ASSUME mmap[k].block.prev # NoMsg
          PROVE  /\ k > 1 /\ mmap[k - 1].block.msg = mmap[k].block.prev
                 /\ mmap[k - 1].block.msg \in clean' /\ mmap[k - 1].key = mmap[k].key
      <4>1. PICK j \in 1..k : mmap[j].block.prev = NoMsg
        BY <1>4, <3>1
      <4>2. j \in 1..k - 1 /\ k > 1 /\ k - 1 \in 1..Len(mmap)
        BY <1>2, <3>3, <4>1
      <4>3. Follows(mmap[k], mmap[k - 1])
        BY <2>1, <3>1, <3>3, <4>2 DEF SinkInv, MmapInv
      <4>4. mmap[k - 1].block.msg \notin Carried
        BY <1>3, <4>1, <4>2
      <4>5. QED BY <1>1, <4>2, <4>3, <4>4 DEF Follows
    <3>4. QED BY <3>2, <3>3
  <2>2. \A k \in 1..Len(mmap) : /\ mmap[k].key <= session
                                /\ mmap[k].key = session => mmap[k].whole
                                /\ k # Len(mmap) => mmap[k].whole
    BY DEF SinkInv, MmapInv
  <2>3. QED BY <1>1, <2>1, <2>2 DEF MmapInv, Follows
<1>7. StreamInv'
  BY <1>1 DEF SinkInv, StreamInv, HasLast, LastItem
<1>8. FreshInv' /\ OrderInv'
  BY <1>1 DEF SinkInv, FreshInv, OrderInv
<1>9. QED BY <1>1, <1>2, <1>5, <1>6, <1>7, <1>8 DEF SinkInv, DTypeOK

\* The mapping in the next run: nothing in it has the key of that run.
LEMMA MmapOld ==
    ASSUME DTypeOK, MmapInv, session' = session + 1,
           mmap' \in Seq(ItemRecords), Len(mmap') = Len(mmap),
           \A k \in 1..Len(mmap) : /\ mmap'[k].key = mmap[k].key
                                   /\ k # Len(mmap) => mmap'[k].whole = mmap[k].whole
    PROVE  MmapInv'
<1>1. session \in Nat /\ Len(mmap) \in Nat
  BY DEF DTypeOK
<1>2. ASSUME NEW k \in 1..Len(mmap')
      PROVE  /\ mmap'[k].key <= session' /\ mmap'[k].key # session'
             /\ k # Len(mmap') => mmap'[k].whole
  <2>1. mmap[k].key <= session /\ mmap[k].key \in Nat /\ (k # Len(mmap) => mmap[k].whole)
    <3>1. k \in 1..Len(mmap) /\ mmap[k] \in ItemRecords
      BY DEF DTypeOK
    <3>2. mmap[k].key \in Nat
      BY <3>1 DEF ItemRecords
    <3>3. QED BY <3>1, <3>2 DEF MmapInv
  <2>2. QED BY <1>1, <2>1
<1>3. QED BY <1>2 DEF MmapInv

\* The last item loses its data.
LEMMA TornFacts ==
    ASSUME DTypeOK, mmap # <<>>, mmap' = [mmap EXCEPT ![Len(mmap)].whole = FALSE]
    PROVE  /\ mmap' \in Seq(ItemRecords) /\ Len(mmap') = Len(mmap)
           /\ \A k \in 1..Len(mmap) : /\ mmap'[k].key = mmap[k].key /\ mmap'[k].block = mmap[k].block
                                      /\ k # Len(mmap) => mmap'[k].whole = mmap[k].whole
<1> DEFINE n == Len(mmap)
           x == [mmap[n] EXCEPT !.whole = FALSE]
<1>1. mmap \in Seq(ItemRecords) /\ n \in 1..n /\ mmap[n] \in ItemRecords
  BY DEF DTypeOK
<1>2. x \in ItemRecords /\ x.key = mmap[n].key /\ x.block = mmap[n].block
  BY <1>1 DEF ItemRecords
<1>3. mmap' = [mmap EXCEPT ![n] = x]
  OBVIOUS
<1> HIDE DEF x
<1>4. /\ mmap' \in Seq(ItemRecords) /\ Len(mmap') = n
      /\ \A k \in 1..n : mmap'[k] = IF k = n THEN x ELSE mmap[k]
  <2>1. /\ [mmap EXCEPT ![n] = x] \in Seq(ItemRecords) /\ Len([mmap EXCEPT ![n] = x]) = n
        /\ \A k \in 1..n : [mmap EXCEPT ![n] = x][k] = IF k = n THEN x ELSE mmap[k]
    BY <1>1, <1>2
  <2>2. QED BY <1>3, <2>1
<1>5. QED BY <1>2, <1>4

LEMMA EndSink ==
    ASSUME DTypeOK, SinkInv, EndOfRun
    PROVE  /\ SinkInv' /\ file' \in Seq(CellRecords) /\ mmap' \in Seq(ItemRecords)
           /\ cctx' \in Nat \cup {NoStream} /\ session' \in Nat /\ frameOK' \in BOOLEAN
<1>1. /\ session' = session + 1 /\ frameOK' = TRUE /\ cctx' = NewStream(input.codec)
      /\ UNCHANGED <<input, next, clean>>
  BY DEF EndOfRun
<1>2. session \in Nat /\ session' \in Nat /\ session <= session' /\ CleanGrown /\ clean' = clean
      /\ next' = next /\ file \in Seq(CellRecords) /\ mmap \in Seq(ItemRecords) /\ Len(file) \in Nat
  BY <1>1, SameClean DEF DTypeOK
<1>3. cctx' \in {NoMsg, NoStream} /\ cctx' \in Nat \cup {NoStream}
  BY <1>1 DEF NewStream, NoMsg, NoStream
<1>4. StreamInv'
  BY <1>3 DEF StreamInv
<1>5. \A m \in clean : m < next
  BY DEF SinkInv, FreshInv
<1>6. ASSUME mmap' = mmap
      PROVE  MmapInv' /\ \A k \in 1..Len(mmap') : mmap'[k].block.msg < next
  <2>1. MmapInv'
    BY <1>1, <1>2, <1>6, MmapOld DEF SinkInv
  <2>2. QED BY <1>6, <2>1 DEF SinkInv, FreshInv
<1>order. OrderInv'
  <2>1. CASE mmap' = mmap
    BY <2>1 DEF SinkInv, OrderInv
  <2>2. CASE mmap # <<>> /\ mmap' = [mmap EXCEPT ![Len(mmap)].whole = FALSE]
    <3>1. Len(mmap') = Len(mmap) /\ \A k \in 1..Len(mmap) : mmap'[k].block = mmap[k].block
      BY <2>2, TornFacts
    <3>2. QED BY <3>1 DEF SinkInv, OrderInv
  <2>3. QED BY <2>1, <2>2 DEF EndOfRun
<1>7. CASE file' = file
  <2>1. Grown
    BY <1>2, <1>7 DEF Grown
  <2>2. ChunkInv'
    <3>1. Len(file) + 1..Len(file') = {}
      BY <1>2, <1>7
    <3>2. QED BY <1>2, <2>1, <3>1, ChunkAdded DEF SinkInv
  <2>3. /\ MmapInv' /\ mmap' \in Seq(ItemRecords)
        /\ \A k \in 1..Len(mmap') : mmap'[k].block.msg < next
    <3>1. CASE mmap' = mmap
      BY <1>2, <1>6, <3>1
    <3>2. CASE mmap # <<>> /\ mmap' = [mmap EXCEPT ![Len(mmap)].whole = FALSE]
      <4>1. /\ mmap' \in Seq(ItemRecords) /\ Len(mmap') = Len(mmap)
            /\ \A k \in 1..Len(mmap) : /\ mmap'[k].key = mmap[k].key /\ mmap'[k].block = mmap[k].block
                                       /\ k # Len(mmap) => mmap'[k].whole = mmap[k].whole
        BY <3>2, TornFacts
      <4>2. MmapInv'
        BY <1>1, <4>1, MmapOld DEF SinkInv
      <4>3. QED BY <4>1, <4>2 DEF SinkInv, FreshInv
    <3>3. CASE mmap # <<>> /\ file' \in {Append(file, Header), file \o <<Header>> \o Cells}
      <4>1. Len(file') # Len(file)
        <5>1. CASE file' = Append(file, Header)
          BY <1>2, <3>3, <5>1, HeaderGrows
        <5>2. CASE file' = file \o <<Header>> \o Cells
          <6>1. Len(file') = Len(file) + 1 + Size /\ Size \in Nat
            BY <3>3, <5>2, WriteGrows, SizeIs DEF Written
          <6>2. QED BY <1>2, <6>1
        <5>3. QED BY <3>3, <5>1, <5>2
      <4>2. QED BY <1>7, <4>1
    <3>4. QED BY <3>1, <3>2, <3>3 DEF EndOfRun
  <2>4. FreshInv'
    <3>1. \A p \in 1..Len(file) : ~IsChunk(file[p]) => file[p].item.block.msg < next
      BY DEF SinkInv, FreshInv
    <3>2. QED BY <1>2, <1>5, <1>7, <2>3, <3>1 DEF FreshInv, IsChunk
  <2>5. QED BY <1>1, <1>2, <1>3, <1>4, <1>7, <1>order, <2>2, <2>3, <2>4 DEF SinkInv
<1>8. CASE mmap # <<>> /\ mmap' = mmap /\ file' = Append(file, Header)
  <2>1. Grown /\ Len(file') = Len(file) + 1 /\ file'[Len(file) + 1] = Header
    BY <1>8, HeaderGrows
  <2>2. ASSUME NEW p \in Len(file) + 1..Len(file'), IsChunk(file'[p])
        PROVE  /\ p = Len(file) + 1 /\ file'[p].key = session
               /\ Ends(file, p)' \/ Full(file, p)'
    <3>1. p = Len(file) + 1 /\ p = Len(file')
      BY <1>2, <2>1
    <3>2. file'[p].key = session
      BY <1>8, <2>1, <3>1, SizeIs
    <3>3. QED BY <3>1, <3>2 DEF Ends
  <2>3. ChunkInv'
    BY <1>2, <2>1, <2>2, ChunkAdded DEF SinkInv
  <2>4. MmapInv' /\ \A k \in 1..Len(mmap') : mmap'[k].block.msg < next
    BY <1>6, <1>8
  <2>5. ASSUME NEW p \in 1..Len(file'), ~IsChunk(file'[p])
        PROVE  file'[p].item.block.msg < next
    <3>1. p # Len(file) + 1
      BY <1>8, <2>1, <2>5, SizeIs DEF IsChunk
    <3>2. p \in 1..Len(file)
      BY <1>2, <2>1, <3>1
    <3>3. QED BY <2>1, <2>5, <3>2 DEF Grown, SinkInv, FreshInv
  <2>6. FreshInv'
    BY <1>2, <1>5, <2>4, <2>5 DEF FreshInv, IsChunk
  <2>7. file' \in Seq(CellRecords)
    BY <2>1 DEF Grown
  <2>8. QED BY <1>1, <1>2, <1>3, <1>4, <1>8, <1>order, <2>3, <2>4, <2>6, <2>7 DEF SinkInv
<1>9. CASE mmap # <<>> /\ mmap' = mmap /\ file' = file \o <<Header>> \o Cells
  <2>1. Grown /\ Written
    BY <1>9, WriteGrows
  <2>2. ChunkInv'
    BY <1>2, <1>9, <2>1, WriteChunk
  <2>3. MmapInv' /\ \A k \in 1..Len(mmap') : mmap'[k].block.msg < next
    BY <1>6, <1>9
  <2>4. \A p \in 1..Len(file') : ~IsChunk(file'[p]) => file'[p].item.block.msg < next
    BY <1>9, <2>1, WriteFresh
  <2>5. FreshInv'
    BY <1>2, <1>5, <2>3, <2>4 DEF FreshInv, IsChunk
  <2>6. file' \in Seq(CellRecords)
    BY <2>1 DEF Grown
  <2>7. QED BY <1>1, <1>2, <1>3, <1>4, <1>9, <1>order, <2>2, <2>3, <2>5, <2>6 DEF SinkInv
<1>10. QED BY <1>7, <1>8, <1>9 DEF EndOfRun

LEMMA SinkSame ==
    ASSUME SinkInv, UNCHANGED sinkVars
    PROVE  SinkInv'
<1>1. /\ file' = file /\ mmap' = mmap /\ cctx' = cctx /\ session' = session
      /\ next' = next /\ frameOK' = frameOK /\ clean' = clean
  BY DEF sinkVars
<1>2. ChunkInv'
  <2>1. \A p : Ends(file, p) => Ends(file, p)'
    BY <1>1 DEF Ends, IsChunk
  <2>2. \A p, k : CellOk(file, p, k) => CellOk(file, p, k)'
    BY <1>1 DEF CellOk
  <2>3. \A p, k : LinkOk(file, p, k) => LinkOk(file, p, k)'
    BY <1>1, SMTT(20) DEF LinkOk, Follows, IsChunk
  <2>4. \A p : Full(file, p) => Full(file, p)'
    BY <1>1, <2>1, <2>2, <2>3 DEF Full
  <2>5. QED BY <1>1, <2>1, <2>4 DEF SinkInv, ChunkInv, IsChunk
<1>3. MmapInv' /\ StreamInv' /\ FreshInv' /\ OrderInv'
  BY <1>1 DEF SinkInv, MmapInv, StreamInv, FreshInv, OrderInv, HasLast, LastItem, Follows, IsChunk
<1>4. QED BY <1>2, <1>3 DEF SinkInv

-----------------------------------------------------------------------------
(* Decode: the decoder                                                        *)

\* The items with a header in the file, one by one.
LEMMA HeadItemsAre ==
    ASSUME DTypeOK
    PROVE  /\ HeadItems[0] = <<>>
           /\ \A n \in 0..Len(file) : HeadItems[n] \in Seq(ItemRecords)
           /\ \A n \in 1..Len(file) :
                 HeadItems[n] = HeadItems[n - 1] \o IF file[n].kind = "head" THEN <<file[n].item>> ELSE <<>>
<1> DEFINE h == [p \in 1..Len(file) |-> IF file[p].kind = "head" THEN <<file[p].item>> ELSE <<>>]
<1>1. Len(file) \in Nat
  BY DEF DTypeOK
<1>2. ASSUME NEW p \in 1..Len(file)
      PROVE  (IF file[p].kind = "head" THEN <<file[p].item>> ELSE <<>>) \in Seq(ItemRecords)
  <2>1. file[p].kind = "head" => file[p].item \in ItemRecords
    BY CellType DEF IsChunk
  <2>2. CASE file[p].kind = "head"
    BY <2>1, <2>2
  <2>3. CASE file[p].kind # "head"
    BY <2>3
  <2>4. QED BY <2>2, <2>3
<1>3. h \in Seq(Seq(ItemRecords)) /\ Len(h) = Len(file)
  BY <1>1, <1>2
<1>4. \A p \in 1..Len(file) : h[p] = IF file[p].kind = "head" THEN <<file[p].item>> ELSE <<>>
  OBVIOUS
<1>5. HeadItems = Joined(h)
  BY DEF HeadItems
<1> HIDE DEF h
<1>6. /\ Joined(h)[0] = <<>>
      /\ \A n \in 1..Len(h) : Joined(h)[n] = Joined(h)[n - 1] \o h[n]
  BY <1>1, <1>3, JoinedIs
<1>7. \A n \in 0..Len(h) : Joined(h)[n] \in Seq(ItemRecords)
  BY <1>3, JoinedType
<1>8. QED BY <1>3, <1>4, <1>5, <1>6, <1>7

\* A cell that is no header of an item adds nothing.
LEMMA HeadItemsSame ==
    ASSUME DTypeOK, NEW n \in 1..Len(file), file[n].kind # "head"
    PROVE  HeadItems[n] = HeadItems[n - 1]
<1>1. HeadItems[n] = HeadItems[n - 1] \o <<>>
  BY HeadItemsAre
<1>2. n - 1 \in 0..Len(file)
  BY DEF DTypeOK
<1>3. HeadItems[n - 1] \in Seq(ItemRecords)
  BY <1>2, HeadItemsAre
<1>4. QED BY <1>1, <1>3

LEMMA HeadItemsNext ==
    ASSUME DTypeOK, NEW n \in 1..Len(file), file[n].kind = "head"
    PROVE  HeadItems[n] = Append(HeadItems[n - 1], file[n].item)
<1>1. HeadItems[n] = HeadItems[n - 1] \o <<file[n].item>>
  BY HeadItemsAre
<1>2. n - 1 \in 0..Len(file)
  BY DEF DTypeOK
<1>3. HeadItems[n - 1] \in Seq(ItemRecords)
  BY <1>2, HeadItemsAre
<1>4. file[n].item \in ItemRecords
  BY CellType DEF IsChunk
<1>5. QED BY <1>1, <1>3, <1>4, AppendIsConcat

LEMMA ItemsAppend ==
    ASSUME NEW S, NEW s \in Seq(S), NEW x \in S
    PROVE  Items(Append(s, x)) = Append(Items(s), x.item)
<1> DEFINE T == {y.item : y \in S}
           a == Append(s, x)
           t == Items(s)
           b == Append(t, x.item)
           u == Items(a)
<1>1. /\ a \in Seq(S) /\ Len(a) = Len(s) + 1 /\ Len(s) \in Nat /\ a[Len(s) + 1] = x
      /\ \A n \in 1..Len(s) : a[n] = s[n]
  OBVIOUS
<1> HIDE DEF a
<1>2. t \in Seq(T) /\ Len(t) = Len(s) /\ \A n \in 1..Len(s) : t[n] = s[n].item
  BY <1>1 DEF Items
<1>3. u \in Seq(T) /\ Len(u) = Len(s) + 1 /\ \A n \in 1..Len(s) + 1 : u[n] = a[n].item
  BY <1>1 DEF Items
<1> HIDE DEF t, u
<1>4. x.item \in T
  OBVIOUS
<1> HIDE DEF T
<1>5. /\ b \in Seq(T) /\ Len(b) = Len(s) + 1 /\ b[Len(s) + 1] = x.item
      /\ \A n \in 1..Len(s) : b[n] = t[n]
  BY <1>2, <1>4
<1> HIDE DEF b
<1>6. ASSUME NEW n \in 1..Len(s) + 1
      PROVE  u[n] = b[n]
  <2>1. CASE n \in 1..Len(s)
    BY <1>1, <1>2, <1>3, <1>5, <2>1
  <2>2. CASE n = Len(s) + 1
    BY <1>1, <1>3, <1>5, <2>2
  <2>3. QED BY <1>1, <2>1, <2>2
<1>7. u = b
  BY <1>3, <1>5, <1>6, SeqEqual
<1>8. QED BY <1>7 DEF u, b, t, a

\* While the sink writes, the decoder has nothing.
LEMMA LogDecoder ==
    ASSUME DTypeOK, DTypeOK', DecoderInv, status = "log", UNCHANGED decoderVars
    PROVE  DecoderInv' /\ FormatInv'
<1>1. /\ status' = "log" /\ offset' = 0 /\ pos' = 0 /\ output' = <<>> /\ output_buf' = <<>>
  BY DEF decoderVars, DecoderInv, AtInv
<1>2. AtInv'
  <2>1. 0 <= Len(file')
    BY DEF DTypeOK
  <2>2. QED BY <1>1, <2>1 DEF AtInv
<1>3. OutInv'
  <2>1. HeadItems'[0] = <<>>
    <3> DEFINE h == [p \in 1..Len(file') |-> IF file'[p].kind = "head" THEN <<file'[p].item>> ELSE <<>>]
    <3>1. Len(h) \in Nat
      BY DEF DTypeOK
    <3>2. Joined(h)[0] = <<>>
      BY <3>1, JoinedIs
    <3>3. QED BY <3>2 DEF HeadItems
  <2>2. Items(<<>>) = <<>>
    BY DEF Items
  <2>3. QED BY <1>1, <2>1, <2>2 DEF OutInv
<1>4. LineInv' /\ BehindInv' /\ FormatInv'
  BY <1>1 DEF LineInv, BehindInv, FormatInv
<1>5. QED BY <1>2, <1>3, <1>4 DEF DecoderInv

\* What a chunk of the file is, for the decoder at it.
LEMMA AtChunk ==
    ASSUME DTypeOK, SinkInv, ChunkAt(file, offset + 1)
    PROVE  /\ offset + 1 \in 1..Len(file) /\ IsChunk(file[offset + 1])
           /\ file[offset + 1].key \in Nat /\ file[offset + 1].size \in Nat \ {0}
           /\ Ends(file, offset + 1) \/ Full(file, offset + 1)
           /\ offset \in Nat /\ Len(file) \in Nat /\ offset + 1 <= Len(file)
<1>1. offset + 1 \in 1..Len(file) /\ IsChunk(file[offset + 1]) /\ offset \in Nat /\ Len(file) \in Nat
  BY DEF ChunkAt, DTypeOK
<1>2. QED BY <1>1, CellType DEF SinkInv, ChunkInv

\* Decrypt may read only what is whole.
LEMMA WholeReadable ==
    ASSUME DTypeOK, SinkInv, ChunkAt(file, offset + 1), Full(file, offset + 1),
           pos \in Nat, pos % 2 = 0, pos < file[offset + 1].size
    PROVE  LET p == offset + 1
               k == pos + 1
           IN /\ k \in 1..file[p].size /\ k % 2 = 1 /\ p + k \in 1..Len(file)
              /\ CellOk(file, p, k) /\ LinkOk(file, p, k)
              /\ ~IsChunk(file[p + k]) /\ file[p + k].item \in ItemRecords
              /\ file[p + k].item.whole =>
                    /\ k + 1 \in 1..file[p].size /\ p + (k + 1) \in 1..Len(file)
                    /\ file[p + (k + 1)].kind = "data" /\ file[p + (k + 1)].item = file[p + k].item
<1> DEFINE p == offset + 1
           k == pos + 1
           z == file[p].size
<1>1. /\ p \in 1..Len(file) /\ IsChunk(file[p]) /\ z \in Nat \ {0} /\ Len(file) \in Nat /\ p + z <= Len(file)
  BY AtChunk DEF Full
<1>2. k \in 1..z /\ k % 2 = 1 /\ k \in Nat
  BY <1>1
<1>3. CellOk(file, p, k) /\ LinkOk(file, p, k)
  BY <1>2 DEF Full
<1>4. p + k \in 1..Len(file)
  BY <1>1, <1>2
<1> HIDE DEF p, k, z
<1>5. ~IsChunk(file[p + k])
  BY <1>2, <1>3 DEF CellOk, IsChunk
<1>6. file[p + k].item \in ItemRecords
  BY <1>4, <1>5, CellType
<1>7. ASSUME file[p + k].item.whole
      PROVE  /\ k + 1 \in 1..z /\ p + (k + 1) \in 1..Len(file)
             /\ file[p + (k + 1)].kind = "data" /\ file[p + (k + 1)].item = file[p + k].item
  <2>1. k # z
    BY <1>2, <1>3, <1>7 DEF CellOk, z
  <2>2. k + 1 \in 1..z /\ p + (k + 1) \in 1..Len(file) /\ (k + 1) % 2 = 0
    <3>1. k + 1 \in 1..z /\ p + (k + 1) \in 1..Len(file)
      BY <1>1, <1>2, <2>1
    <3>2. (k + 1) % 2 = 0
      BY <1>2
    <3>3. QED BY <3>1, <3>2
  <2>3. CellOk(file, p, k + 1)
    BY <2>2 DEF Full, z, p
  <2>4. p + (k + 1) - 1 = p + k
    BY <1>1, <1>2
  <2>5. QED BY <2>2, <2>3, <2>4 DEF CellOk
<1>8. QED BY <1>2, <1>3, <1>4, <1>5, <1>6, <1>7 DEF p, k, z

\* An item that is due is read: the stream is behind what it continues.
LEMMA DueRead ==
    ASSUME DTypeOK, SinkInv, DecoderInv, status = "chunk",
           pos < file[offset + 1].size, Full(file, offset + 1),
           NEW x, x = file[offset + 1 + (pos + 1)].item,
           x.key = file[offset + 1].key, x.block.msg \in clean
    PROVE  /\ ~x.block.long
           /\ x.block.prev = NoMsg \/ dctx = x.block.prev
<1> DEFINE p == offset + 1
           k == pos + 1
           q == Back(p, k)
           y == file[q].item
<1>1. ChunkAt(file, p) /\ pos % 2 = 0 /\ pos \in Nat /\ offset \in Nat
  BY DEF DecoderInv, AtInv, DTypeOK
<1>2. k % 2 = 1 /\ LinkOk(file, p, k)
  BY <1>1, WholeReadable
<1>3. /\ ~x.block.long
      /\ x.block.prev # NoMsg => q >= 1 /\ ~IsChunk(file[q]) /\ Follows(x, y)
  BY <1>2 DEF LinkOk
<1>4. SUFFICES ASSUME x.block.prev # NoMsg PROVE dctx = x.block.prev
  BY <1>3
<1>5. q >= 1 /\ y.block.msg = x.block.prev /\ y.block.msg \in clean /\ y.key = file[p].key
  BY <1>3, <1>4 DEF Follows
<1>6. p \in 1..Len(file) /\ IsChunk(file[p]) /\ file[p].key \in Nat
  BY <1>1, AtChunk
<1>7. CASE pos = 0
  <2>1. q = offset /\ offset # 0 /\ p > offset
    BY <1>1, <1>5, <1>7 DEF Back
  <2> DEFINE l == output[Len(output)]
  <2>2. /\ output # <<>> /\ Behind(l, offset) /\ l.key <= file[p].key
    BY <1>6, <1>7, <2>1 DEF DecoderInv, BehindInv
  <2>3. l \in LineRecords /\ Len(output) \in 1..Len(output)
    BY <2>2 DEF DTypeOK
  <2>4. l.item = y
    BY <2>1, <2>2 DEF Behind
  <2>5. LineOk(l)
    BY <2>3 DEF DecoderInv, LineInv
  <2>6. l.key \in Nat /\ l.item.key <= l.key
    BY <2>3, <2>5 DEF LineRecords, LineOk
  <2> HIDE DEF l, y, p, k, q
  <2>7. l.key = file[p].key
    BY <1>5, <1>6, <2>2, <2>4, <2>6
  <2>8. Due(l)
    BY <1>5, <2>4, <2>7 DEF Due
  <2>9. dctx = l.item.block.msg
    BY <2>2, <2>8 DEF Behind
  <2>10. QED BY <1>5, <2>4, <2>9
<1>8. CASE pos # 0
  <2>1. q = p + pos /\ Done = pos
    BY <1>1, <1>8 DEF Back, Done
  <2> DEFINE l == output_buf[Len(output_buf)]
  <2>2. Behind(l, p + pos) /\ l.key = file[p].key
    BY <1>8, <2>1 DEF DecoderInv, BehindInv
  <2>3. l.item = y
    BY <2>1, <2>2 DEF Behind
  <2> HIDE DEF l, y, p, k, q
  <2>4. Due(l)
    BY <1>5, <2>2, <2>3 DEF Due
  <2>5. dctx = l.item.block.msg
    BY <2>2, <2>4 DEF Behind
  <2>6. QED BY <1>5, <2>3, <2>5
<1>9. QED BY <1>7, <1>8

LEMMA StartDecoder ==
    ASSUME DTypeOK, SinkInv, DecoderInv, Start
    PROVE  DecoderInv' /\ FormatInv'
<1>1. /\ status = "log" /\ formatters' = ParsePattern(input.pattern)
      /\ status' = IF file = <<>> THEN "throw" ELSE "file"
      /\ input' = input /\ file' = file /\ clean' = clean
      /\ dctx' = dctx /\ offset' = offset /\ pos' = pos /\ output_buf' = output_buf /\ output' = output
  BY DEF Start, sinkVars
<1>2. offset = 0 /\ pos = 0 /\ output = <<>> /\ output_buf = <<>> /\ offset <= Len(file)
  BY <1>1 DEF DecoderInv, AtInv
<1>3. AtInv'
  <2>1. file # <<>> => ChunkAt(file, 0 + 1)
    BY DEF SinkInv, ChunkInv, ChunkAt, DTypeOK
  <2>2. ChunkAt(file, 0 + 1) => ChunkAt(file', offset' + 1)
    BY <1>1, <1>2
  <2>3. QED BY <1>1, <1>2, <2>1, <2>2 DEF AtInv, ChunkAt, IsChunk
<1>4. HeadItems' = HeadItems
  BY <1>1 DEF HeadItems
<1>5. OutInv'
  BY <1>1, <1>4 DEF DecoderInv, OutInv, Items
<1>6. LineInv' /\ BehindInv'
  BY <1>1, <1>2 DEF LineInv, BehindInv
<1>7. FormatInv'
  BY <1>1 DEF FormatInv
<1>8. QED BY <1>3, <1>5, <1>6, <1>7 DEF DecoderInv

LEMMA NextChunkDecoder ==
    ASSUME DTypeOK, SinkInv, DecoderInv, NextChunk
    PROVE  DecoderInv' /\ output_buf' \in Seq(LineRecords)'
<1>1. /\ status = "file" /\ offset < Len(file)
      /\ input' = input /\ file' = file /\ clean' = clean
      /\ IF file[offset + 1].kind = "chunk"
         THEN /\ status' = "chunk" /\ output_buf' = <<>> /\ pos' = 0
              /\ UNCHANGED <<dctx, offset, output>>
         ELSE Throw
  BY DEF NextChunk, sinkVars, InFile, Cell, Cleared
<1>2. ChunkAt(file, offset + 1)
  BY <1>1 DEF DecoderInv, AtInv, DTypeOK
<1>3. /\ status' = "chunk" /\ output_buf' = <<>> /\ pos' = 0
      /\ dctx' = dctx /\ offset' = offset /\ output' = output
  BY <1>1, <1>2 DEF ChunkAt, IsChunk
<1>4. /\ offset + 1 \in 1..Len(file) /\ IsChunk(file[offset + 1]) /\ file[offset + 1].size \in Nat \ {0}
      /\ offset \in Nat /\ Len(file) \in Nat
  BY <1>2, AtChunk
<1>5. AtInv'
  BY <1>1, <1>2, <1>3, <1>4 DEF AtInv, ChunkAt, IsChunk
<1>6. OutInv'
  <2>1. HeadItems' = HeadItems
    BY <1>1 DEF HeadItems
  <2>2. Items(output) = HeadItems[offset]
    BY DEF DecoderInv, OutInv
  <2>3. Done' = 0
    BY <1>1, <1>3, <1>4 DEF Done
  <2>4. output \o <<>> = output
    BY DEF DTypeOK
  <2>5. HeadItems[offset + 1] = HeadItems[offset]
    <3>1. file[offset + 1].kind # "head" /\ (offset + 1) - 1 = offset
      BY <1>4 DEF IsChunk
    <3>2. QED BY <1>4, <3>1, HeadItemsSame
  <2>6. offset + 1 + 0 = offset + 1
    BY <1>4
  <2>7. OutInv' <=> /\ Items(output) = HeadItems[offset]
                    /\ Items(output \o <<>>) = HeadItems[offset + 1 + 0]
    BY <1>3, <2>1, <2>3 DEF OutInv, Items
  <2>8. QED BY <2>2, <2>4, <2>5, <2>6, <2>7
<1>7. LineInv'
  BY <1>1, <1>3 DEF DecoderInv, LineInv, LineOk, Due
<1>8. BehindInv'
  BY <1>1, <1>3 DEF DecoderInv, BehindInv, Behind, Due, IsChunk
<1>9. QED BY <1>3, <1>5, <1>6, <1>7, <1>8 DEF DecoderInv

LEMMA LinesAppend ==
    ASSUME NEW S, NEW s \in Seq(S), NEW t \in Seq(S), NEW x \in S
    PROVE  s \o Append(t, x) = Append(s \o t, x)
<1>1. Append(t, x) = t \o <<x>> /\ <<x>> \in Seq(S)
  BY AppendIsConcat
<1>2. s \o (t \o <<x>>) = (s \o t) \o <<x>>
  BY <1>1, ConcatAssociative
<1>3. s \o t \in Seq(S)
  OBVIOUS
<1>4. Append(s \o t, x) = (s \o t) \o <<x>>
  BY <1>3, AppendIsConcat
<1>5. QED BY <1>1, <1>2, <1>4

\* The header of an item is where the decoder is: its chunk has all its items.
LEMMA HeadFull ==
    ASSUME DTypeOK, SinkInv, DecoderInv, status = "chunk", pos < file[offset + 1].size
    PROVE  LET n == offset + 1 + pos
           IN IF InFile(n) /\ Cell(n).kind = "head"
              THEN Full(file, offset + 1)
              ELSE ~Intact(offset)
<1> DEFINE p == offset + 1
           n == offset + 1 + pos
<1>1. ChunkAt(file, p) /\ pos % 2 = 0 /\ pos \in Nat /\ (pos > 0 => Full(file, p))
  BY DEF DecoderInv, AtInv, DTypeOK
<1>2. /\ p \in 1..Len(file) /\ file[p].size \in Nat \ {0} /\ (Ends(file, p) \/ Full(file, p))
      /\ offset \in Nat /\ Len(file) \in Nat
  BY <1>1, AtChunk
<1>3. n + 1 = p + (pos + 1) /\ n \in Nat
  BY <1>1, <1>2
<1>4. ASSUME Full(file, p)
      PROVE  InFile(n) /\ Cell(n).kind = "head"
  <2>1. /\ (pos + 1) % 2 = 1 /\ p + (pos + 1) \in 1..Len(file) /\ CellOk(file, p, pos + 1)
    BY <1>1, <1>4, WholeReadable
  <2>2. file[n + 1].kind = "head" /\ n + 1 \in 1..Len(file)
    BY <1>3, <2>1 DEF CellOk
  <2>3. QED BY <1>2, <1>3, <2>2 DEF InFile, Cell
<1>5. ASSUME ~Full(file, p)
      PROVE  ~(InFile(n) /\ Cell(n).kind = "head") /\ ~Intact(offset)
  <2>1. pos = 0 /\ Ends(file, p)
    BY <1>1, <1>2, <1>5
  <2>2. n = p /\ n = offset + 1
    BY <1>2, <2>1
  <2>3. ~(InFile(n) /\ Cell(n).kind = "head")
    BY <1>2, <2>1, <2>2 DEF Ends, InFile, Cell, IsChunk
  <2>4. ASSUME Intact(offset)
        PROVE  FALSE
    <3>1. 1 \in 1..Cell(offset).size
      <4>1. file[p].size \in Nat \ {0}
        BY <1>2
      <4>2. 1 \in 1..file[p].size
        BY <4>1
      <4>3. QED BY <4>2 DEF Cell
    <3>2. InFile(offset + 1) /\ Cell(offset + 1).kind = "head"
      BY <2>4, <3>1 DEF Intact
    <3>3. QED BY <2>2, <2>3, <3>2
  <2>5. QED BY <2>3, <2>4
<1>6. QED BY <1>4, <1>5

\* What is not readable is not intact.
LEMMA NotReadable ==
    ASSUME DTypeOK, SinkInv, DecoderInv, status = "chunk", pos < file[offset + 1].size,
           Full(file, offset + 1), ~Readable(offset + 1 + pos)
    PROVE  ~Intact(offset)
<1> DEFINE p == offset + 1
           k == pos + 1
<1>1. ChunkAt(file, p) /\ pos % 2 = 0 /\ pos \in Nat /\ offset \in Nat /\ Len(file) \in Nat
  BY DEF DecoderInv, AtInv, DTypeOK
<1>2. /\ k \in 1..file[p].size
      /\ file[p + k].item.whole =>
            /\ p + (k + 1) \in 1..Len(file)
            /\ file[p + (k + 1)].kind = "data"
  BY <1>1, WholeReadable
<1>3. SUFFICES ASSUME Intact(offset) PROVE FALSE
  OBVIOUS
<1>4. file[offset + k + 1].item.key = file[p].key /\ file[offset + k + 1].item.whole
  BY <1>2, <1>3 DEF Intact, Cell
<1>5. offset + k + 1 = p + k
  BY <1>1
<1>6. p + (k + 1) \in 1..Len(file) /\ file[p + (k + 1)].kind = "data" /\ file[p + k].item.key = file[p].key
  BY <1>2, <1>4, <1>5
<1>7. /\ (offset + 1 + pos) + 1 < Len(file)
      /\ ((offset + 1 + pos) + 1) + 1 = p + (k + 1) /\ (offset + 1 + pos) + 1 = p + k
  BY <1>1, <1>6
<1> HIDE DEF p, k
<1>8. Readable(offset + 1 + pos)
  BY <1>6, <1>7 DEF Readable, InFile, Cell, p
<1>9. QED BY <1>8

\* The line of an item says what it should.
LEMMA ItemLine ==
    ASSUME DTypeOK, SinkInv, DecoderInv, FormatInv, status = "chunk",
           pos < file[offset + 1].size, Full(file, offset + 1),
           NEW x, x = file[offset + 1 + (pos + 1)].item,
           NEW r, NEW l, l = [item |-> x, key |-> file[offset + 1].key, text |-> Format(formatters, r.text)],
           r \in IF Readable(offset + 1 + pos) THEN Decompressed(input.codec, dctx, x.block)
                 ELSE DecompressedNoise(dctx)
    PROVE  /\ l \in LineRecords /\ r.dctx \in Int
           /\ LineOk(l) /\ (Due(l) => r.dctx = x.block.msg)
<1> DEFINE p == offset + 1
           k == pos + 1
<1>1. ChunkAt(file, p) /\ pos % 2 = 0 /\ pos \in Nat /\ offset \in Nat /\ Len(file) \in Nat
  BY DEF DecoderInv, AtInv, DTypeOK
<1>2. /\ p + k \in 1..Len(file) /\ CellOk(file, p, k) /\ x \in ItemRecords
      /\ x.whole => /\ p + (k + 1) \in 1..Len(file)
                    /\ file[p + (k + 1)].kind = "data"
  BY <1>1, WholeReadable
<1>3. file[p].key \in Nat
  BY <1>1, AtChunk
<1>4. x.key <= file[p].key /\ (x.key = file[p].key => x.whole)
  BY <1>2 DEF CellOk
<1>5. x.block \in Blocks /\ x.block.msg \in Nat
  BY <1>2, ItemType
<1>6. r.text \in Nat /\ r.dctx \in Int
  <2>1. dctx \in Int
    BY DEF DTypeOK
  <2>2. r \in Decompressed(input.codec, dctx, x.block) \/ r \in DecompressedNoise(dctx)
    OBVIOUS
  <2>3. QED BY <1>5, <2>1, <2>2, DecompressedType
<1>7. formatters = ParsePattern(input.pattern) /\ input.pattern \in Seq(STRING)
  BY DEF FormatInv, DTypeOK
<1>8. l.item = x /\ l.key = file[p].key /\ l.text = Format(formatters, r.text)
  OBVIOUS
<1>9. l \in LineRecords
  <2>1. l.text \in {Format(ParsePattern(input.pattern), m) : m \in Nat}
    BY <1>6, <1>7, <1>8
  <2>2. QED BY <1>2, <1>3, <2>1 DEF LineRecords
<1>10. ASSUME Due(l)
       PROVE  r.text = x.block.msg /\ r.dctx = x.block.msg
  <2>1. x.key = file[p].key /\ x.block.msg \in clean
    BY <1>8, <1>10 DEF Due
  <2>2. Readable(offset + 1 + pos)
    <3>1. p + (k + 1) \in 1..Len(file) /\ file[p + (k + 1)].kind = "data" /\ file[p + k].item.key = file[p].key
      BY <1>2, <1>4, <2>1
    <3>2. /\ (offset + 1 + pos) + 1 < Len(file)
          /\ ((offset + 1 + pos) + 1) + 1 = p + (k + 1) /\ (offset + 1 + pos) + 1 = p + k
      BY <1>1, <3>1
    <3> HIDE DEF p, k
    <3>3. QED BY <3>1, <3>2 DEF Readable, InFile, Cell, p
  <2>3. ~x.block.long /\ (x.block.prev = NoMsg \/ dctx = x.block.prev)
    BY <2>1, DueRead
  <2>4. r \in Decompressed(input.codec, dctx, x.block)
    BY <2>2
  <2>5. QED BY <1>5, <2>3, <2>4, DecompressedRead
<1>11. Due(l) => l.text = Meaning(input.pattern, x.block.msg)
  <2>1. SUFFICES ASSUME Due(l) PROVE l.text = Meaning(input.pattern, x.block.msg)
    OBVIOUS
  <2>2. l.text = Format(ParsePattern(input.pattern), x.block.msg)
    BY <1>7, <1>8, <1>10, <2>1
  <2>3. QED BY <1>5, <1>7, <2>2, FormatIsMeaning
<1> HIDE DEF p, k
<1>12. LineOk(l)
  BY <1>4, <1>8, <1>11 DEF LineOk
<1>13. QED BY <1>6, <1>9, <1>10, <1>12

\* An item gives a line.
LEMMA DecodeLine ==
    ASSUME DTypeOK, SinkInv, DecoderInv, FormatInv, status = "chunk",
           pos < file[offset + 1].size, Full(file, offset + 1),
           UNCHANGED <<input, sinkVars, formatters, status, offset, output>>,
           NEW x, x = file[offset + 1 + (pos + 1)].item,
           NEW l, l \in LineRecords, LineOk(l), l.item = x, l.key = file[offset + 1].key,
           Due(l) => dctx' = x.block.msg,
           output_buf' = Append(output_buf, l), pos' = pos + 2
    PROVE  DecoderInv' /\ output_buf' \in Seq(LineRecords)
<1> DEFINE p == offset + 1
           k == pos + 1
           z == file[p].size
<1>1. /\ input' = input /\ file' = file /\ clean' = clean /\ status' = "chunk"
      /\ offset' = offset /\ output' = output
  BY DEF sinkVars
<1>2. ChunkAt(file, p) /\ pos % 2 = 0 /\ pos \in Nat /\ offset \in Nat /\ Len(file) \in Nat
      /\ offset <= Len(file)
  BY DEF DecoderInv, AtInv, DTypeOK
<1>3. /\ k \in 1..z /\ p + k \in 1..Len(file) /\ CellOk(file, p, k) /\ k % 2 = 1
      /\ ~IsChunk(file[p + k]) /\ x \in ItemRecords
      /\ x.whole =>
            /\ k + 1 \in 1..z /\ p + (k + 1) \in 1..Len(file)
            /\ file[p + (k + 1)].kind = "data" /\ file[p + (k + 1)].item = x
  BY <1>2, WholeReadable
<1>4. p \in 1..Len(file) /\ IsChunk(file[p]) /\ z \in Nat \ {0}
  BY <1>2, AtChunk
<1>5. output_buf \in Seq(LineRecords) /\ output \in Seq(LineRecords)
  BY DEF DTypeOK
<1>6. /\ output_buf' \in Seq(LineRecords) /\ Len(output_buf') = Len(output_buf) + 1
      /\ Len(output_buf) \in Nat /\ output_buf'[Len(output_buf) + 1] = l /\ output_buf' # <<>>
      /\ \A n \in 1..Len(output_buf) : output_buf'[n] = output_buf[n]
  BY <1>5, AppendProperties
\* The cells that are done with this item.
<1>7. /\ Done = pos
      /\ p + Done' \in 1..Len(file) /\ ~IsChunk(file[p + Done']) /\ file[p + Done'].item = x
      /\ HeadItems[p + Done'] = Append(HeadItems[p + pos], x)
  <2>1. Done = pos
    BY DEF Done
  <2>2. HeadItems[p + k] = Append(HeadItems[p + pos], x)
    <3>1. file[p + k].kind = "head"
      BY <1>3 DEF CellOk
    <3>2. (p + k) - 1 = p + pos
      BY <1>2
    <3>3. QED BY <1>3, <3>1, <3>2, HeadItemsNext
  <2>3. CASE x.whole
    <3>1. Done' = pos + 2
      <4>1. Done' = IF pos + 2 < z THEN pos + 2 ELSE z
        BY <1>1 DEF Done
      <4>2. k + 1 \in 1..z /\ k = pos + 1 /\ pos \in Nat /\ z \in Nat
        BY <1>2, <1>3, <1>4, <2>3
      <4>3. pos + 2 <= z
        BY <4>2, SMTT(20)
      <4>4. QED BY <1>2, <1>4, <4>1, <4>3
    <3>2. p + Done' = p + (k + 1) /\ (p + (k + 1)) - 1 = p + k
      <4>1. p \in Nat /\ k \in Nat /\ pos + 2 = k + 1
        BY <1>2
      <4>2. Done' = k + 1
        BY <3>1, <4>1
      <4>3. (p + (k + 1)) - 1 = p + k
        BY <4>1
      <4>4. QED BY <4>2, <4>3
    <3>3. HeadItems[p + (k + 1)] = HeadItems[p + k]
      <4>1. file[p + (k + 1)].kind # "head" /\ p + (k + 1) \in 1..Len(file)
        BY <1>3, <2>3
      <4>2. QED BY <3>2, <4>1, HeadItemsSame
    <3>4. QED BY <1>3, <2>1, <2>2, <2>3, <3>2, <3>3 DEF IsChunk
  <2>4. CASE ~x.whole
    <3>1. k = z
      BY <1>3, <2>4 DEF CellOk
    <3>2. Done' = k
      <4>1. Done' = IF pos + 2 < z THEN pos + 2 ELSE z
        BY <1>1 DEF Done
      <4>2. QED BY <1>2, <3>1, <4>1
    <3>3. QED BY <1>3, <2>1, <2>2, <3>2
  <2>5. QED BY <2>3, <2>4
<1>8. AtInv'
  <2>1. Full(file, p) => Full(file', p)
    BY <1>1
  <2>2. Full(file', offset' + 1)
    BY <1>1
  <2>3. Full(file, offset + 1)'
    BY <1>1, <2>2 DEF Full, CellOk, LinkOk, Follows
  <2>4. pos' % 2 = 0 /\ pos' # 0
    BY <1>2
  <2>5. QED BY <1>1, <1>2, <2>3, <2>4 DEF AtInv, ChunkAt, IsChunk
<1>9. OutInv'
  <2>1. HeadItems' = HeadItems
    BY <1>1 DEF HeadItems
  <2>2. Items(output) = HeadItems[offset] /\ Items(output \o output_buf) = HeadItems[p + pos]
    BY <1>7 DEF DecoderInv, OutInv
  <2>3. output \o output_buf \in Seq(LineRecords)
    BY <1>5
  <2>4. output \o Append(output_buf, l) = Append(output \o output_buf, l)
    BY <1>5, LinesAppend
  <2>5. Items(Append(output \o output_buf, l)) = Append(Items(output \o output_buf), l.item)
    BY <2>3, ItemsAppend
  <2>6. Items(output \o Append(output_buf, l)) = HeadItems[p + Done']
    BY <1>7, <2>2, <2>4, <2>5
  <2>7. OutInv' <=> /\ Items(output) = HeadItems[offset]
                    /\ Items(output \o Append(output_buf, l)) = HeadItems[p + Done']
    BY <1>1, <2>1 DEF OutInv, Items
  <2>8. QED BY <2>2, <2>6, <2>7
<1>10. LineInv'
  <2>1. ASSUME NEW n \in 1..Len(output)
        PROVE  LineOk(output[n])
    BY DEF DecoderInv, LineInv
  <2>2. ASSUME NEW n \in 1..Len(output_buf')
        PROVE  LineOk(output_buf'[n])
    <3>1. CASE n \in 1..Len(output_buf)
      BY <1>6, <3>1 DEF DecoderInv, LineInv
    <3>2. CASE n = Len(output_buf) + 1
      BY <1>6, <3>2
    <3>3. QED BY <1>6, <3>1, <3>2
  <2>3. QED BY <1>1, <2>1, <2>2 DEF LineInv, LineOk, Due
<1>11. BehindInv'
  <2>1. pos' # 0
    BY <1>2
  <2>2. output_buf'[Len(output_buf')] = l
    BY <1>6
  <2>3. offset + 1 + Done' = p + Done'
    OBVIOUS
  <2> DEFINE d == Done'
  <2>4. /\ p + d \in 1..Len(file) /\ ~IsChunk(file[p + d]) /\ file[p + d].item = x
    BY <1>7
  <2>5. BehindInv' <=> /\ output_buf' # <<>>
                       /\ p + d \in 1..Len(file) /\ ~IsChunk(file[p + d]) /\ l.item = file[p + d].item
                       /\ (Due(l) => dctx' = l.item.block.msg)
                       /\ l.key = file[p].key
    BY <1>1, <2>1, <2>2 DEF BehindInv, Behind, Due, IsChunk
  <2> HIDE DEF d
  <2>6. QED BY <1>6, <2>4, <2>5
<1>12. QED BY <1>6, <1>8, <1>9, <1>10, <1>11 DEF DecoderInv

LEMMA ThrowDecoder ==
    ASSUME DTypeOK, DecoderInv, Throw, status = "chunk", UNCHANGED <<input, sinkVars>>, ~Intact(offset)
    PROVE  DecoderInv'
<1>1. /\ input' = input /\ file' = file /\ clean' = clean /\ status' = "throw"
      /\ UNCHANGED <<dctx, offset, pos, output_buf, output>>
  BY DEF sinkVars, Throw
<1>2. ChunkAt(file, offset + 1) /\ offset <= Len(file)
  BY DEF DecoderInv, AtInv
<1>3. Intact(offset)' <=> Intact(offset)
  BY <1>1 DEF Intact, InFile, Cell
<1>4. AtInv'
  BY <1>1, <1>2, <1>3 DEF AtInv, ChunkAt, IsChunk
<1>5. OutInv' /\ LineInv' /\ BehindInv'
  BY <1>1 DEF DecoderInv, OutInv, HeadItems, Items, LineInv, LineOk, Due, BehindInv
<1>6. QED BY <1>4, <1>5 DEF DecoderInv

LEMMA DecodeItemDecoder ==
    ASSUME DTypeOK, SinkInv, DecoderInv, FormatInv, DecodeItem
    PROVE  /\ DecoderInv' /\ FormatInv'
           /\ output_buf' \in Seq(LineRecords) /\ dctx' \in Int /\ pos' \in Nat
<1> DEFINE n == offset + 1 + pos
           x == Cell(n).item
<1>1. /\ status = "chunk" /\ pos < file[offset + 1].size
      /\ UNCHANGED <<input, sinkVars, formatters>>
      /\ IF InFile(n) /\ Cell(n).kind = "head"
         THEN \/ \E r \in IF Readable(n) THEN Decompressed(input.codec, dctx, x.block)
                          ELSE DecompressedNoise(dctx) :
                   /\ output_buf' = Append(output_buf,
                          [item |-> x, key |-> file[offset + 1].key, text |-> Format(formatters, r.text)])
                   /\ dctx' = r.dctx /\ pos' = pos + 2
                   /\ UNCHANGED <<status, offset, output>>
              \/ ~Readable(n) /\ Throw
         ELSE Throw
  BY DEF DecodeItem, Cell
<1>2. FormatInv'
  BY <1>1 DEF FormatInv
<1>3. /\ output_buf \in Seq(LineRecords) /\ dctx \in Int /\ pos \in Nat /\ offset \in Nat
  BY DEF DTypeOK
<1>4. IF InFile(n) /\ Cell(n).kind = "head" THEN Full(file, offset + 1) ELSE ~Intact(offset)
  BY <1>1, HeadFull
<1>5. CASE Throw
  <2>1. ~Intact(offset)
    BY <1>1, <1>4, <1>5, NotReadable DEF Throw
  <2>2. DecoderInv'
    BY <1>1, <1>5, <2>1, ThrowDecoder
  <2>3. QED BY <1>2, <1>3, <1>5, <2>2 DEF Throw
<1>6. CASE ~Throw
  <2>1. Full(file, offset + 1)
    BY <1>1, <1>4, <1>6
  <2>2. PICK r \in IF Readable(n) THEN Decompressed(input.codec, dctx, x.block)
                   ELSE DecompressedNoise(dctx) :
           /\ output_buf' = Append(output_buf,
                  [item |-> x, key |-> file[offset + 1].key, text |-> Format(formatters, r.text)])
           /\ dctx' = r.dctx /\ pos' = pos + 2
           /\ UNCHANGED <<status, offset, output>>
    BY <1>1, <1>6
  <2>3. PICK y : y = file[offset + 1 + (pos + 1)].item
    OBVIOUS
  <2>4. x = y
    <3>1. (offset + 1 + pos) + 1 = offset + 1 + (pos + 1)
      BY <1>3
    <3>2. QED BY <2>3, <3>1 DEF Cell
  <2>5. PICK l : l = [item |-> y, key |-> file[offset + 1].key, text |-> Format(formatters, r.text)]
    OBVIOUS
  <2> HIDE DEF x
  <2>6. /\ l \in LineRecords /\ r.dctx \in Int
        /\ LineOk(l) /\ (Due(l) => r.dctx = y.block.msg)
    BY <1>1, <2>1, <2>2, <2>3, <2>4, <2>5, ItemLine
  <2>7. l.item = y /\ l.key = file[offset + 1].key
    BY <2>5
  <2>8. output_buf' = Append(output_buf, l) /\ pos' = pos + 2 /\ (Due(l) => dctx' = y.block.msg)
    BY <2>2, <2>4, <2>5, <2>6
  <2>9. UNCHANGED <<input, sinkVars, formatters, status, offset, output>>
    BY <1>1, <2>2
  <2>10. DecoderInv' /\ output_buf' \in Seq(LineRecords)
    BY <1>1, <2>1, <2>3, <2>6, <2>7, <2>8, <2>9, DecodeLine
  <2>11. dctx' \in Int /\ pos' \in Nat
    BY <1>3, <2>2, <2>6
  <2>12. QED BY <1>2, <2>10, <2>11
<1>7. QED BY <1>5, <1>6

LEMMA WriteDecoder ==
    ASSUME DTypeOK, SinkInv, DecoderInv, FormatInv, WriteToFile
    PROVE  DecoderInv' /\ FormatInv' /\ output' \in Seq(LineRecords) /\ offset' \in Nat
<1> DEFINE p == offset + 1
           z == file[p].size
<1>1. /\ status = "chunk" /\ pos >= z /\ output' = output \o output_buf
      /\ offset' = p + z /\ status' = "file"
      /\ input' = input /\ file' = file /\ clean' = clean /\ formatters' = formatters
      /\ dctx' = dctx /\ pos' = pos /\ output_buf' = output_buf
  BY DEF WriteToFile, Cell, sinkVars
<1>2. /\ ChunkAt(file, p) /\ pos \in Nat
      /\ output \in Seq(LineRecords) /\ output_buf \in Seq(LineRecords)
  BY <1>1 DEF DecoderInv, AtInv, DTypeOK
<1>3. /\ p \in 1..Len(file) /\ IsChunk(file[p]) /\ z \in Nat \ {0} /\ file[p].key \in Nat
      /\ offset \in Nat /\ Len(file) \in Nat
  BY <1>2, AtChunk
<1>4. pos # 0 /\ pos > 0 /\ Done = z
  BY <1>1, <1>2, <1>3 DEF Done
<1>5. p + z <= Len(file) /\ Ends(file, p + z)
  BY <1>1, <1>4 DEF DecoderInv, AtInv, Full
<1>6. AtInv'
  <2>1. offset' = Len(file) \/ ChunkAt(file, offset' + 1)
    <3>1. offset' \in Nat /\ offset' <= Len(file) /\ Ends(file, offset')
      BY <1>1, <1>3, <1>5
    <3>2. PICK o \in Nat : o = offset'
      BY <3>1
    <3>3. o <= Len(file) /\ Ends(file, o)
      BY <3>1, <3>2
    <3>4. CASE o = Len(file)
      BY <3>2, <3>4
    <3>5. CASE o # Len(file)
      <4>1. o + 1 \in 1..Len(file)
        BY <1>3, <3>3, <3>5
      <4>2. ChunkAt(file, o + 1)
        BY <3>3, <3>5, <4>1 DEF Ends, ChunkAt
      <4>3. QED BY <3>2, <4>2
    <3>6. QED BY <3>4, <3>5
  <2>2. offset' <= Len(file)
    BY <1>1, <1>5
  <2>3. QED BY <1>1, <2>1, <2>2 DEF AtInv, ChunkAt, IsChunk
<1>7. OutInv'
  <2>1. HeadItems' = HeadItems
    BY <1>1 DEF HeadItems
  <2>2. Items(output \o output_buf) = HeadItems[p + z]
    BY <1>1, <1>4 DEF DecoderInv, OutInv
  <2>3. OutInv' <=> Items(output \o output_buf) = HeadItems[p + z]
    BY <1>1, <2>1 DEF OutInv, Items
  <2>4. QED BY <2>2, <2>3
<1>8. /\ output' \in Seq(LineRecords) /\ Len(output') = Len(output) + Len(output_buf)
      /\ Len(output) \in Nat /\ Len(output_buf) \in Nat
      /\ \A n \in 1..Len(output) + Len(output_buf) :
            output'[n] = IF n <= Len(output) THEN output[n] ELSE output_buf[n - Len(output)]
  BY <1>1, <1>2, ConcatProperties
<1>9. LineInv'
  <2>1. ASSUME NEW n \in 1..Len(output_buf)
        PROVE  LineOk(output_buf[n])
    BY DEF DecoderInv, LineInv
  <2>2. ASSUME NEW n \in 1..Len(output')
        PROVE  LineOk(output'[n])
    <3>1. CASE n <= Len(output)
      <4>1. n \in 1..Len(output) /\ output'[n] = output[n]
        BY <1>8, <3>1
      <4>2. QED BY <4>1 DEF DecoderInv, LineInv
    <3>2. CASE ~(n <= Len(output))
      <4>1. n - Len(output) \in 1..Len(output_buf) /\ output'[n] = output_buf[n - Len(output)]
        BY <1>8, <3>2
      <4>2. QED BY <2>1, <4>1
    <3>3. QED BY <3>1, <3>2
  <2>3. QED BY <1>1, <2>1, <2>2 DEF LineInv, LineOk, Due
<1>10. BehindInv'
  <2> DEFINE l == output_buf[Len(output_buf)]
  <2>1. /\ output_buf # <<>> /\ Behind(l, p + z) /\ l.key = file[p].key
    BY <1>1, <1>4 DEF DecoderInv, BehindInv
  <2>2. Len(output_buf) # 0
    BY <1>2, <2>1
  <2>3. output'[Len(output')] = l /\ output' # <<>>
    <3>1. /\ Len(output') \in 1..Len(output) + Len(output_buf) /\ ~(Len(output') <= Len(output))
          /\ Len(output') - Len(output) = Len(output_buf)
      BY <1>8, <2>2
    <3>2. QED BY <1>8, <3>1
  <2>4. ASSUME NEW q \in 1..Len(file), q > p + z, IsChunk(file[q])
        PROVE  l.key <= file[q].key
    <3>1. p < q
      BY <1>3, <2>4
    <3>2. QED BY <1>3, <2>1, <2>4, <3>1 DEF SinkInv, ChunkInv
  <2>5. Behind(l, p + z) => /\ p + z \in 1..Len(file) /\ ~IsChunk(file[p + z]) /\ l.item = file[p + z].item
                            /\ Due(l) => dctx = l.item.block.msg
    BY DEF Behind
  <2>6. BehindInv' <=> (p + z # 0 =>
           /\ output' # <<>>
           /\ p + z \in 1..Len(file) /\ ~IsChunk(file[p + z]) /\ l.item = file[p + z].item
           /\ Due(l) => dctx = l.item.block.msg
           /\ \A q \in 1..Len(file) : q > p + z /\ IsChunk(file[q]) => l.key <= file[q].key)
    BY <1>1, <2>3 DEF BehindInv, Behind, Due, IsChunk
  <2> HIDE DEF l, p, z
  <2>7. QED BY <2>1, <2>3, <2>4, <2>5, <2>6
<1>11. FormatInv'
  BY <1>1 DEF FormatInv
<1>12. offset' \in Nat
  BY <1>1, <1>3
<1>13. QED BY <1>6, <1>7, <1>8, <1>9, <1>10, <1>11, <1>12 DEF DecoderInv

LEMMA EndDecoder ==
    ASSUME DTypeOK, DecoderInv, FormatInv, End
    PROVE  DecoderInv' /\ FormatInv'
<1>1. /\ status = "file" /\ ~(offset < Len(file)) /\ status' = "end"
      /\ UNCHANGED <<input, formatters, dctx, offset, pos, output_buf, output>>
      /\ file' = file /\ clean' = clean
  BY DEF End, InFile, sinkVars
<1>2. offset = Len(file)
  BY <1>1 DEF DecoderInv, AtInv, DTypeOK
<1>3. AtInv'
  BY <1>1, <1>2 DEF DecoderInv, AtInv
<1>4. OutInv' /\ LineInv' /\ BehindInv' /\ FormatInv'
  BY <1>1 DEF DecoderInv, FormatInv, OutInv, HeadItems, Items, LineInv, LineOk, Due, BehindInv
<1>5. QED BY <1>3, <1>4 DEF DecoderInv

-----------------------------------------------------------------------------
(* Decode: the theorems                                                       *)

LEMMA DTypeNext == DInv /\ [DNext]_dvars => DTypeOK'
<1> SUFFICES ASSUME DInv, [DNext]_dvars PROVE DTypeOK'
  OBVIOUS
<1>1. DTypeOK /\ SinkInv /\ DecoderInv /\ FormatInv
  BY DEF DInv
<1>2. input' = input => LineRecords' = LineRecords
  BY DEF LineRecords
<1>3. ASSUME Log PROVE DTypeOK'
  BY <1>1, <1>2, <1>3, LogFacts, LogSink DEF DTypeOK, decoderVars
<1>4. ASSUME CacheToFile PROVE DTypeOK'
  BY <1>1, <1>2, <1>4, CacheSink DEF DTypeOK, decoderVars, CacheToFile
<1>open. ASSUME OpenFile PROVE DTypeOK'
  <2>1. file' \in Seq(CellRecords)
    BY <1>1, <1>open, OpenSink
  <2>2. QED BY <1>1, <1>2, <1>open, <2>1, OpenSink DEF DTypeOK, decoderVars, OpenFile
<1>5. ASSUME EndOfRun PROVE DTypeOK'
  BY <1>1, <1>2, <1>5, EndSink DEF DTypeOK, decoderVars, EndOfRun
<1>6. ASSUME Start PROVE DTypeOK'
  BY <1>1, <1>2, <1>6 DEF DTypeOK, sinkVars, Start, Statuses
<1>7. ASSUME NextChunk PROVE DTypeOK'
  <2>1. output_buf' \in Seq(LineRecords)'
    BY <1>1, <1>7, NextChunkDecoder
  <2>2. status' \in Statuses /\ pos' \in Nat
        /\ UNCHANGED <<input, sinkVars, formatters, dctx, offset, output>>
    BY <1>1, <1>7 DEF NextChunk, Throw, DTypeOK, Statuses
  <2>3. QED BY <1>1, <1>2, <2>1, <2>2 DEF DTypeOK, sinkVars
<1>8. ASSUME DecodeItem PROVE DTypeOK'
  <2>1. output_buf' \in Seq(LineRecords) /\ dctx' \in Int /\ pos' \in Nat
    BY <1>1, <1>8, DecodeItemDecoder
  <2>2. status' \in Statuses /\ UNCHANGED <<input, sinkVars, formatters, offset, output>>
    BY <1>1, <1>8 DEF DecodeItem, Throw, DTypeOK, Statuses
  <2>3. QED BY <1>1, <1>2, <2>1, <2>2 DEF DTypeOK, sinkVars
<1>9. ASSUME WriteToFile PROVE DTypeOK'
  <2>1. output' \in Seq(LineRecords) /\ offset' \in Nat
    BY <1>1, <1>9, WriteDecoder
  <2>2. status' \in Statuses /\ UNCHANGED <<input, sinkVars, formatters, dctx, pos, output_buf>>
    BY <1>9 DEF WriteToFile, Statuses
  <2>3. QED BY <1>1, <1>2, <2>1, <2>2 DEF DTypeOK, sinkVars
<1>10. ASSUME End PROVE DTypeOK'
  BY <1>1, <1>2, <1>10 DEF DTypeOK, sinkVars, End, Statuses
<1>11. ASSUME UNCHANGED dvars PROVE DTypeOK'
  BY <1>1, <1>2, <1>11 DEF DTypeOK, dvars, sinkVars, decoderVars
<1>12. QED BY <1>3, <1>4, <1>5, <1>6, <1>7, <1>8, <1>9, <1>10, <1>11, <1>open DEF DNext

LEMMA DInvInit == DInit => DInv
<1> SUFFICES ASSUME DInit PROVE DInv
  OBVIOUS
<1>1. DTypeOK /\ SinkInv
  BY DTypeInit, SinkInit
<1>2. HeadItems[0] = <<>>
  BY <1>1, HeadItemsAre
<1>3. Len(file) \in Nat
  BY <1>1 DEF DTypeOK
<1>4. DecoderInv /\ FormatInv
  BY <1>2, <1>3 DEF DInit, DecoderInv, AtInv, OutInv, Items, LineInv, BehindInv, FormatInv
<1>5. QED BY <1>1, <1>4 DEF DInv

LEMMA DInvNext == DInv /\ [DNext]_dvars => DInv'
<1> SUFFICES ASSUME DInv, [DNext]_dvars PROVE DInv'
  OBVIOUS
<1>1. DTypeOK /\ SinkInv /\ DecoderInv /\ FormatInv /\ DTypeOK'
  BY DTypeNext DEF DInv
<1>2. ASSUME Log PROVE DInv'
  BY <1>1, <1>2, LogFacts, LogSink, LogDecoder DEF DInv
<1>3. ASSUME CacheToFile PROVE DInv'
  BY <1>1, <1>3, CacheSink, LogDecoder DEF DInv, CacheToFile
<1>open. ASSUME OpenFile PROVE DInv'
  BY <1>1, <1>open, OpenSink, LogDecoder DEF DInv, OpenFile
<1>4. ASSUME EndOfRun PROVE DInv'
  BY <1>1, <1>4, EndSink, LogDecoder DEF DInv, EndOfRun
<1>5. ASSUME Start PROVE DInv'
  BY <1>1, <1>5, StartDecoder, SinkSame DEF DInv, Start
<1>6. ASSUME NextChunk PROVE DInv'
  <2>1. FormatInv'
    BY <1>1, <1>6 DEF NextChunk, FormatInv
  <2>2. QED BY <1>1, <1>6, <2>1, NextChunkDecoder, SinkSame DEF DInv, NextChunk
<1>7. ASSUME DecodeItem PROVE DInv'
  BY <1>1, <1>7, DecodeItemDecoder, SinkSame DEF DInv, DecodeItem
<1>8. ASSUME WriteToFile PROVE DInv'
  BY <1>1, <1>8, WriteDecoder, SinkSame DEF DInv, WriteToFile
<1>9. ASSUME End PROVE DInv'
  BY <1>1, <1>9, EndDecoder, SinkSame DEF DInv, End
<1>10. ASSUME UNCHANGED dvars PROVE DInv'
  <2>1. /\ UNCHANGED sinkVars /\ file' = file /\ clean' = clean /\ input' = input
        /\ status' = status /\ formatters' = formatters /\ dctx' = dctx
        /\ offset' = offset /\ pos' = pos /\ output_buf' = output_buf /\ output' = output
    BY <1>10 DEF dvars, sinkVars, decoderVars
  <2>2. SinkInv'
    BY <1>1, <2>1, SinkSame
  <2>3. AtInv'
    <3>1. Full(file, offset + 1)' <=> Full(file, offset + 1)
      BY <2>1 DEF Full, Ends, CellOk, LinkOk, Follows, IsChunk
    <3>2. Intact(offset)' <=> Intact(offset)
      BY <2>1 DEF Intact, InFile, Cell
    <3>3. QED BY <1>1, <2>1, <3>1, <3>2 DEF DecoderInv, AtInv, ChunkAt, IsChunk
  <2>4. OutInv' /\ LineInv' /\ FormatInv'
    BY <1>1, <2>1 DEF DecoderInv, FormatInv, OutInv, HeadItems, Items, Done, LineInv, LineOk, Due
  <2>5. BehindInv'
    BY <1>1, <2>1 DEF DecoderInv, BehindInv, Behind, Done, Due, IsChunk
  <2>6. QED BY <1>1, <2>2, <2>3, <2>4, <2>5 DEF DInv, DecoderInv
<1>11. QED BY <1>2, <1>3, <1>4, <1>5, <1>6, <1>7, <1>8, <1>9, <1>10, <1>open DEF DNext

\* The variables of the sink and of the decoder have their types in every
\* reachable state.
THEOREM DecodeTypes == DSpec => []DTypeOK
<1>1. DInv => DTypeOK
  BY DEF DInv
<1>2. QED BY <1>1, DInvInit, DInvNext, PTL DEF DSpec

\* A message whose frame is whole up to it is read as it was logged, behind
\* whatever chunks of other runs and unreadable messages there are.
THEOREM ReadClean == DSpec => []CleanRead
<1>1. DInv => CleanRead
  <2> SUFFICES ASSUME DInv, NEW n \in 1..Len(Lines)
               PROVE  LineOk(Lines[n])
    BY DEF CleanRead, LineOk, Due
  <2>1. output \in Seq(LineRecords) /\ output_buf \in Seq(LineRecords) /\ LineInv
    BY DEF DInv, DTypeOK, DecoderInv
  <2>2. /\ Len(Lines) = Len(output) + Len(output_buf)
        /\ Len(output) \in Nat /\ Len(output_buf) \in Nat
        /\ \A k \in 1..Len(output) + Len(output_buf) :
              Lines[k] = IF k <= Len(output) THEN output[k] ELSE output_buf[k - Len(output)]
    BY <2>1, ConcatProperties DEF Lines
  <2>3. CASE n <= Len(output)
    <3>1. n \in 1..Len(output) /\ Lines[n] = output[n]
      BY <2>2, <2>3
    <3>2. QED BY <2>1, <3>1 DEF LineInv
  <2>4. CASE ~(n <= Len(output))
    <3>1. n - Len(output) \in 1..Len(output_buf) /\ Lines[n] = output_buf[n - Len(output)]
      BY <2>2, <2>4
    <3>2. QED BY <2>1, <3>1 DEF LineInv
  <2>5. QED BY <2>3, <2>4
<1>2. QED BY <1>1, DInvInit, DInvNext, PTL DEF DSpec

\* The output has a line for each item in front of the decoder, and only a
\* damaged chunk stops it before the end of the file.
THEOREM DamageStays == DSpec => []DamageContained
<1>1. DInv => DamageContained
  BY DEF DInv, DecoderInv, AtInv, OutInv, DamageContained, ChunkAt, IsChunk, Cell
<1>2. QED BY <1>1, DInvInit, DInvNext, PTL DEF DSpec

\* The formatters that ParsePattern makes print what the pattern means, for
\* patterns of any length and any characters.
THEOREM PatternMeant == DSpec => []PatternMeaning
<1>1. DInv => PatternMeaning
  <2> SUFFICES ASSUME DInv, status # "log"
               PROVE  Format(formatters, 1) = Meaning(input.pattern, 1)
    BY DEF PatternMeaning
  <2>1. formatters = ParsePattern(input.pattern) /\ input.pattern \in Seq(STRING)
    BY DEF DInv, FormatInv, DTypeOK
  <2>2. 1 \in Nat
    OBVIOUS
  <2>3. QED BY <2>1, <2>2, FormatIsMeaning
<1>2. QED BY <1>1, DInvInit, DInvNext, PTL DEF DSpec

=============================================================================
