--------------------------- MODULE SyncSinkProofs ---------------------------
(* Theorems about SyncSink: types, the framing of the file, torn items, what  *)
(* a Flush has written, the limit of the cache, and the implementation of     *)
(* LogStore.                                                                  *)
EXTENDS SyncSink, Integers, SequenceTheorems, FiniteSetTheorems, TLAPS

-----------------------------------------------------------------------------
(* The inductive invariant                                                    *)

Held == {"push", "data", "clear"}

\* mtx_ is held between two steps exactly by the thread in a critical section.
MutexInv == \A t \in Threads : pc[t] \in Held <=> mtx = t

\* What a thread is doing, by where it is; the constructor is alone.
CallInv ==
    /\ \A t \in Threads :
          /\ pc[t] \in {"compress", "lock", "push", "need"} => op[t] = "log" /\ msg[t] \in Msgs
          /\ pc[t] = "ctor" => t = Main
          /\ pc[t] \in {"cache", "data", "clear"} /\ op[t] = "ctor" => t = Main
          /\ pc[t] \in {"down", "ctor"} => op[t] = "ctor"
          /\ op[t] = "flush" => promised[t] <= Len(accepted)
    /\ Constructing => \A t \in Threads \ {Main} : pc[t] = "down"
    /\ ~Constructing => \A t \in Threads : pc[t] # "down"

\* An item in the cache without its body is the last one.  It is the one that
\* the holder of the lock is pushing, or was left by an earlier run, and then
\* the constructor has not returned.
CacheInv ==
    /\ \A i \in 1 .. Len(cache) :
          /\ cache[i].run <= session
          /\ ~cache[i].whole =>
                /\ i = Len(cache)
                /\ cache[i].run = session => \E t \in Threads : pc[t] = "push"
                /\ cache[i].run < session => Constructing
    /\ \A t \in Threads : pc[t] = "push" =>
          /\ cache # <<>>
          /\ cache[Len(cache)].msg = msg[t]
          /\ cache[Len(cache)].run = session
          /\ ~cache[Len(cache)].whole

\* What has not reached the kernel is in an open file.
FileInv ==
    /\ ~open => saved = Len(stream)
    /\ \A t \in Threads : pc[t] \in {"data", "clear"} => open

\* Where the chunk is that is being written.
ChunkInv == \A t \in Threads :
    /\ pc[t] \in {"data", "clear"} => size = Len(cache)
    /\ pc[t] = "data" => /\ IsHeader(Len(stream))
                         /\ stream[Len(stream)].size = size
                         /\ stream[Len(stream)].run = session
    /\ pc[t] = "clear" => /\ size <= Len(stream)
                          /\ \A i \in 1 .. size :
                                stream[Len(stream) - size + i] = cache[i]

\* A header that waits for its items is being served, or is of an earlier run.
HeaderInv == \A i \in 1 .. Len(stream) :
    stream[i].kind = "header" =>
        /\ stream[i].run <= session
        /\ i = Len(stream) /\ stream[i].size # 0 /\ stream[i].run = session =>
              \E t \in Threads : pc[t] = "data"

\* The message m is in s, a cache or a stream, with its body.
Holds(s, m) == \E j \in 1 .. Len(s) : s[j].kind = "item" /\ s[j].msg = m /\ s[j].whole

\* What this run has accepted is in the cache or in the stream.
KeptInv == \A i \in 1 .. Len(accepted) :
              Holds(cache, accepted[i]) \/ Holds(stream, accepted[i])

IInv ==
    /\ TypeOK /\ MutexInv /\ CallInv /\ CacheInv /\ FileInv /\ ChunkInv /\ HeaderInv
    /\ KeptInv /\ ChunksFramed /\ TornEndsChunk /\ FlushPersists /\ CacheBounded

-----------------------------------------------------------------------------
(* Types                                                                      *)

\* What the constants are.
LEMMA Constants ==
    /\ IsFiniteSet(Threads) /\ Main \in Threads /\ NoOne \notin Threads
    /\ MaxMsgs \in Nat /\ MaxFlushes \in Nat /\ MaxSessions \in Nat
    /\ Threshold \in Nat /\ SingleSize \in Nat
  BY SyncAssumption

\* Every step is one of these.
LEMMA Actions ==
    ASSUME Next
    PROVE  \/ Construct \/ Close
           \/ \E t \in Threads : LogCall(t) \/ FlushCall(t) \/ CallStep(t)
           \/ \E k \in saved .. Len(stream) : WriteBoundary(k) /\ Restart(k)
  BY DEF Next, Crash

LEMMA InitType == Init => TypeOK
<1> SUFFICES ASSUME Init PROVE TypeOK
  OBVIOUS
<1> USE DEF Init
<1>1. cache \in Seq(Items) /\ stream \in Seq(Items \cup Headers) /\ accepted \in Seq(Msgs)
  BY Zenon, EmptySeq
<1>2. /\ sink \in Sinks /\ mtx \in Threads \cup {NoOne} /\ open \in BOOLEAN
  BY Zenon
<1>3. /\ saved \in 0 .. Len(stream) /\ first \in 0 .. saved /\ size \in Nat
      /\ session \in Nat /\ next \in 1 .. MaxMsgs + 1 /\ flushes \in 0 .. MaxFlushes
  BY Constants
<1>4. /\ pc \in [Threads -> PCs] /\ op \in [Threads -> {"ctor", "log", "flush"}]
      /\ msg \in [Threads -> Msgs \cup {0}] /\ promised \in [Threads -> Nat]
  BY DEF PCs
<1>5. QED BY <1>1, <1>2, <1>3, <1>4 DEF TypeOK

\* The steps of a call keep the types.
LEMMA CallType ==
    ASSUME TypeOK, CallInv, CacheInv, FileInv, NEW t \in Threads, CallStep(t)
    PROVE  TypeOK'
<1> USE DEF TypeOK, PCs, Goto
<1>1. CASE Compress(t)
  BY <1>1 DEF Compress, fileVars, history
<1>2. CASE LogFails(t)
  BY <1>2 DEF LogFails, fileVars, history
<1>3. CASE PushHeader(t)
  <2>1. [kind |-> "item", msg |-> msg[t], run |-> session, whole |-> FALSE,
         text |-> KeepsText] \in Items
    BY <1>3 DEF PushHeader, CallInv, KeepsText, Items
  <2>2. cache' \in Seq(Items)
    BY <1>3, <2>1 DEF PushHeader
  <2>3. QED BY <1>3, <2>2 DEF PushHeader, fileVars, history
<1>4. CASE PushBody(t)
  <2>1. cache # <<>> /\ msg[t] \in Msgs
    BY <1>4 DEF PushBody, CacheInv, CallInv
  <2>2. cache[Len(cache)] \in Items /\ Len(cache) \in 1 .. Len(cache)
    BY <2>1
  <2>3. [cache[Len(cache)] EXCEPT !.whole = TRUE] \in Items
    BY <2>2 DEF Items
  <2>4. cache' = [cache EXCEPT ![Len(cache)] = [cache[Len(cache)] EXCEPT !.whole = TRUE]]
    BY <1>4 DEF PushBody
  <2>5. cache' \in Seq(Items)
    BY <2>2, <2>3, <2>4
  <2>6. accepted' \in Seq(Msgs)
    BY <1>4, <2>1 DEF PushBody
  <2>7. QED BY <1>4, <2>5, <2>6 DEF PushBody, fileVars
<1>5. CASE NeedWriteToFile(t)
  BY <1>5 DEF NeedWriteToFile, fileVars, history
<1>6. CASE BeginChunk(t)
  <2>1. size' \in Nat /\ session \in Nat
    BY <1>6 DEF BeginChunk
  <2>2. [kind |-> "header", run |-> session, size |-> size'] \in Items \cup Headers
    BY <2>1 DEF Headers
  <2>3. stream' \in Seq(Items \cup Headers) /\ Len(stream') = Len(stream) + 1
    BY <1>6, <2>2 DEF BeginChunk
  <2>4. saved' \in 0 .. Len(stream) /\ first' \in 0 .. saved'
    <3>1. CASE OpenFile
      BY <3>1 DEF OpenFile, FileInv
    <3>2. ASSUME NEW k \in saved .. Len(stream), KeepFile(k)
          PROVE  saved' \in 0 .. Len(stream) /\ first' \in 0 .. saved'
      BY <3>2 DEF KeepFile
    <3>3. ASSUME NEW k \in saved .. Len(stream), RotateFile(k)
          PROVE  saved' \in 0 .. Len(stream) /\ first' \in 0 .. saved'
      BY <3>3 DEF RotateFile
    <3>4. OpenFile \/ \E k \in saved .. Len(stream) : KeepFile(k) \/ RotateFile(k)
      BY <1>6 DEF BeginChunk
    <3>5. QED BY <3>1, <3>2, <3>3, <3>4
  <2>5. saved' \in 0 .. Len(stream')
    BY <2>3, <2>4
  <2>6. /\ mtx' = t /\ open' = TRUE /\ pc' = [pc EXCEPT ![t] = "data"]
        /\ UNCHANGED <<sink, cache, session, op, msg, history>>
    BY <1>6 DEF BeginChunk
  <2>7. open' \in BOOLEAN
    BY Zenon, <2>6
  <2>8. mtx' \in Threads \cup {NoOne} /\ pc' \in [Threads -> PCs]
    BY <2>6
  <2>9. /\ UNCHANGED <<sink, cache, session, op, msg>>
        /\ UNCHANGED <<next, flushes, accepted, promised>>
    BY <2>6 DEF history
  <2>10. sink' \in Sinks /\ session' \in Nat /\ cache' \in Seq(Items)
    BY <2>9
  <2>11. stream' \in Seq(Items \cup Headers) /\ size' \in Nat
    BY <2>1, <2>3
  <2>12. QED BY <2>4, <2>5, <2>7, <2>8, <2>9, <2>10, <2>11
<1>7. CASE WriteData(t)
  <2>1. stream' \in Seq(Items \cup Headers) /\ Len(stream') = Len(stream) + Len(cache)
    <3>1. cache \in Seq(Items \cup Headers)
      OBVIOUS
    <3>2. QED BY <1>7, <3>1 DEF WriteData
  <2>2. saved' \in 0 .. Len(stream') /\ first \in 0 .. saved'
    BY <1>7, <2>1 DEF WriteData
  <2>3. QED BY <1>7, <2>1, <2>2 DEF WriteData, history
<1>8. CASE ClearCache(t)
  BY <1>8 DEF ClearCache, Clear, fileVars, history
<1>9. QED BY <1>1, <1>2, <1>3, <1>4, <1>5, <1>6, <1>7, <1>8 DEF CallStep

\* Another run begins with proper values.
LEMMA RestartType ==
    ASSUME TypeOK, NEW k \in saved .. Len(stream), Restart(k)
    PROVE  TypeOK'
<1> USE DEF TypeOK, PCs
<1>1. stream' \in Seq(Items \cup Headers) /\ Len(stream') = k
  BY DEF Restart
<1>2. saved' \in 0 .. Len(stream') /\ first' \in 0 .. saved'
  BY <1>1 DEF Restart
<1>3. cache' \in Seq(Items)
  BY DEF Restart
<1>4. accepted' \in Seq(Msgs)
  <2>1. <<>> \in Seq(Msgs)
    BY Zenon, EmptySeq
  <2>2. QED BY <2>1 DEF Restart
<1>5. /\ pc' \in [Threads -> PCs] /\ op' \in [Threads -> {"ctor", "log", "flush"}]
      /\ msg' \in [Threads -> Msgs \cup {0}] /\ promised' \in [Threads -> Nat]
  BY DEF Restart
<1>6. /\ mtx' = NoOne /\ open' = FALSE /\ size' = 0 /\ session' = session + 1
      /\ UNCHANGED <<sink, first, next, flushes>>
  BY DEF Restart
<1>7. open' \in BOOLEAN
  BY Zenon, <1>6
<1>8. mtx' \in Threads \cup {NoOne} /\ size' \in Nat /\ session' \in Nat
  BY <1>6
<1>9. QED BY <1>1, <1>2, <1>3, <1>4, <1>5, <1>6, <1>7, <1>8

LEMMA TypeStep ==
    ASSUME TypeOK, CallInv, CacheInv, FileInv, [Next]_vars
    PROVE  TypeOK'
<1>1. CASE UNCHANGED vars
  BY <1>1 DEF vars, fileVars, callVars, history, TypeOK
<1>2. CASE Construct
  BY <1>2, Constants DEF Construct, fileVars, history, TypeOK, PCs
<1>3. CASE Close
  <2>1. Len(stream) \in saved .. Len(stream)
    BY DEF TypeOK
  <2>2. QED BY <1>3, <2>1, RestartType DEF Close
<1>4. ASSUME NEW t \in Threads, LogCall(t)
      PROVE  TypeOK'
  BY <1>4, Constants DEF LogCall, fileVars, TypeOK, PCs, Msgs, Goto
<1>5. ASSUME NEW t \in Threads, FlushCall(t)
      PROVE  TypeOK'
  BY <1>5, Constants DEF FlushCall, Always, fileVars, TypeOK, PCs, Goto
<1>6. QED BY <1>1, <1>2, <1>3, <1>4, <1>5, CallType, RestartType, Actions
-----------------------------------------------------------------------------
(* The lock and the calls                                                     *)

\* A step of a call moves its thread only, except for the end of a constructor.
LEMMA MutexStep ==
    ASSUME TypeOK, MutexInv, CallInv, [Next]_vars
    PROVE  MutexInv'
<1> USE DEF TypeOK, MutexInv, Held, Goto
<1>1. CASE UNCHANGED vars
  BY <1>1 DEF vars, callVars
<1>2. CASE Construct
  <2>1. \A t \in Threads : pc[t] \notin Held
    BY <1>2, Constants DEF Construct, CallInv, Constructing
  <2>2. QED BY <1>2, <2>1, Constants DEF Construct
<1>3. ASSUME NEW k, Restart(k)
      PROVE  MutexInv'
  BY <1>3, Constants DEF Restart
<1>4. ASSUME NEW t \in Threads, LogCall(t)
      PROVE  MutexInv'
  BY <1>4 DEF LogCall
<1>5. ASSUME NEW t \in Threads, FlushCall(t)
      PROVE  MutexInv'
  BY <1>5 DEF FlushCall, Always
<1>6. ASSUME NEW t \in Threads, CallStep(t)
      PROVE  MutexInv'
  <2>1. CASE Compress(t)
    BY <2>1 DEF Compress
  <2>2. CASE LogFails(t)
    BY <2>2 DEF LogFails
  <2>3. CASE PushHeader(t)
    BY <2>3, Constants DEF PushHeader, CanLock
  <2>4. CASE PushBody(t)
    BY <2>4, Constants DEF PushBody
  <2>5. CASE NeedWriteToFile(t)
    BY <2>5 DEF NeedWriteToFile
  <2>6. CASE BeginChunk(t)
    <3>1. mtx = NoOne /\ mtx' = t /\ pc' = [pc EXCEPT ![t] = "data"]
      BY <2>6 DEF BeginChunk, CanLock
    <3>2. QED BY <3>1, Constants
  <2>7. CASE WriteData(t)
    BY <2>7 DEF WriteData
  <2>8. CASE ClearCache(t)
    BY <2>8, Constants DEF ClearCache
  <2>9. QED BY <1>6, <2>1, <2>2, <2>3, <2>4, <2>5, <2>6, <2>7, <2>8 DEF CallStep
<1>7. QED BY <1>1, <1>2, <1>3, <1>4, <1>5, <1>6, Actions DEF Close

LEMMA CallInvStep ==
    ASSUME TypeOK, CallInv, [Next]_vars
    PROVE  CallInv'
<1> USE DEF TypeOK, CallInv, Constructing, Goto
<1>1. CASE UNCHANGED vars
  BY <1>1 DEF vars, callVars, history
<1>2. CASE Construct
  BY <1>2, Constants DEF Construct, history
<1>3. ASSUME NEW k, Restart(k)
      PROVE  CallInv'
  BY <1>3, Constants DEF Restart
<1>4. ASSUME NEW t \in Threads, LogCall(t)
      PROVE  CallInv'
  BY <1>4 DEF LogCall
<1>5. ASSUME NEW t \in Threads, FlushCall(t)
      PROVE  CallInv'
  BY <1>5 DEF FlushCall, Always
<1>6. ASSUME NEW t \in Threads, CallStep(t)
      PROVE  CallInv'
  <2>1. CASE Compress(t)
    BY <2>1 DEF Compress, history
  <2>2. CASE LogFails(t)
    BY <2>2 DEF LogFails, history
  <2>3. CASE PushHeader(t)
    BY <2>3 DEF PushHeader, history
  <2>4. CASE PushBody(t)
    <3>1. Len(accepted') = Len(accepted) + 1 /\ Len(accepted) \in Nat
      BY <2>4 DEF PushBody
    <3>2. QED BY <2>4, <3>1, SMTT(20) DEF PushBody
  <2>5. CASE NeedWriteToFile(t)
    BY <2>5 DEF NeedWriteToFile, history
  <2>6. CASE BeginChunk(t)
    <3>1. pc[t] = "cache" /\ pc' = [pc EXCEPT ![t] = "data"] /\ UNCHANGED <<op, msg, history>>
      BY <2>6 DEF BeginChunk
    <3>2. QED BY <3>1 DEF history
  <2>7. CASE WriteData(t)
    BY <2>7 DEF WriteData, history
  <2>8. CASE ClearCache(t)
    BY <2>8 DEF ClearCache, history
  <2>9. QED BY <1>6, <2>1, <2>2, <2>3, <2>4, <2>5, <2>6, <2>7, <2>8 DEF CallStep
<1>7. QED BY <1>1, <1>2, <1>3, <1>4, <1>5, <1>6, Actions DEF Close

LEMMA FileStep ==
    ASSUME TypeOK, MutexInv, CallInv, FileInv, [Next]_vars
    PROVE  FileInv'
<1> USE DEF TypeOK, FileInv, Goto
<1>1. CASE UNCHANGED vars
  BY <1>1 DEF vars, fileVars, callVars
<1>2. CASE Construct
  BY <1>2 DEF Construct, fileVars
<1>3. ASSUME NEW k \in saved .. Len(stream), Restart(k)
      PROVE  FileInv'
  <2>1. Len(stream') = k /\ saved' = k
    BY <1>3 DEF Restart
  <2>2. QED BY <1>3, <2>1 DEF Restart
<1>4. ASSUME NEW t \in Threads, LogCall(t)
      PROVE  FileInv'
  BY <1>4 DEF LogCall, fileVars
<1>5. ASSUME NEW t \in Threads, FlushCall(t)
      PROVE  FileInv'
  BY <1>5 DEF FlushCall, Always, fileVars
<1>6. ASSUME NEW t \in Threads, CallStep(t)
      PROVE  FileInv'
  <2>1. CASE Compress(t)
    BY <2>1 DEF Compress, fileVars
  <2>2. CASE LogFails(t)
    BY <2>2 DEF LogFails, fileVars
  <2>3. CASE PushHeader(t)
    BY <2>3 DEF PushHeader, fileVars
  <2>4. CASE PushBody(t)
    BY <2>4 DEF PushBody, fileVars
  <2>5. CASE NeedWriteToFile(t)
    BY <2>5 DEF NeedWriteToFile, fileVars
  <2>6. CASE BeginChunk(t)
    BY <2>6, Zenon DEF BeginChunk
  <2>7. CASE WriteData(t)
    BY <2>7 DEF WriteData
  <2>8. CASE ClearCache(t)
    BY <2>8 DEF ClearCache, fileVars
  <2>9. QED BY <1>6, <2>1, <2>2, <2>3, <2>4, <2>5, <2>6, <2>7, <2>8 DEF CallStep
<1>7. Len(stream) \in saved .. Len(stream)
  OBVIOUS
<1>8. QED BY <1>1, <1>2, <1>3, <1>4, <1>5, <1>6, <1>7, Actions DEF Close
-----------------------------------------------------------------------------
(* The cache and the chunk                                                    *)

\* The members of the cache are items.
LEMMA ItemIs ==
    ASSUME TypeOK, NEW i \in 1 .. Len(cache)
    PROVE  /\ cache[i] \in Items
           /\ cache[i].kind = "item" /\ cache[i].run \in Nat /\ cache[i].whole \in BOOLEAN
<1>1. cache[i] \in Items
  BY DEF TypeOK
<1>2. QED BY <1>1 DEF Items

\* Those of the stream are items or headers.
LEMMA CellIs ==
    ASSUME TypeOK, NEW i \in 1 .. Len(stream)
    PROVE  /\ stream[i].kind \in {"item", "header"}
           /\ stream[i].kind = "header" => stream[i].size \in Nat /\ stream[i].run \in Nat
<1>1. stream[i] \in Items \/ stream[i] \in Headers
  BY DEF TypeOK
<1>2. CASE stream[i] \in Items
  BY <1>2 DEF Items
<1>3. CASE stream[i] \in Headers
  BY <1>3 DEF Headers
<1>4. QED BY <1>1, <1>2, <1>3

\* Who holds the lock is the only one in a critical section.
LEMMA OneHolder ==
    ASSUME TypeOK, MutexInv, NEW t \in Threads, NEW u \in Threads, u # t,
           pc[t] \in Held \/ CanLock
    PROVE  pc[u] \notin Held
  BY Constants DEF MutexInv, CanLock

\* What leaves the cache and the thread that may push to it alone keeps CacheInv.
LEMMA CacheKept ==
    ASSUME CacheInv, UNCHANGED <<cache, session>>,
           Constructing => Constructing' \/ cache = <<>>,
           \A u \in Threads : pc'[u] = "push" <=> pc[u] = "push",
           \A u \in Threads : pc[u] = "push" => msg'[u] = msg[u]
    PROVE  CacheInv'
<1>1. cache' = cache /\ session' = session
  OBVIOUS
<1>2. CASE cache = <<>>
  BY <1>1, <1>2 DEF CacheInv
<1>3. CASE cache # <<>>
  BY <1>1, <1>3 DEF CacheInv
<1>4. QED BY <1>2, <1>3

LEMMA CacheStep ==
    ASSUME TypeOK, MutexInv, CallInv, CacheInv, [Next]_vars
    PROVE  CacheInv'
<1> USE DEF TypeOK, Goto
<1>1. CASE UNCHANGED vars
  BY <1>1 DEF vars, callVars, CacheInv, Constructing
<1>2. CASE Construct
  <2>1. /\ Constructing => Constructing' \/ cache = <<>>
        /\ \A u \in Threads : pc'[u] = "push" <=> pc[u] = "push"
    BY <1>2, Constants DEF Construct, Recovers, Constructing, CallInv
  <2>2. QED BY <1>2, <2>1, CacheKept DEF Construct
<1>3. ASSUME NEW k, Restart(k)
      PROVE  CacheInv'
  <2>1. session' = session + 1 /\ Constructing' /\ \A u \in Threads : pc'[u] # "push"
    BY <1>3, Constants DEF Restart, Constructing
  <2>2. CASE cache' = <<>>
    BY <2>1, <2>2 DEF CacheInv
  <2>3. CASE cache' = cache
    <3>1. \A i \in 1 .. Len(cache) : cache[i].run \in Nat
      BY ItemIs
    <3>2. \A i \in 1 .. Len(cache) : cache[i].run <= session
      BY Zenon DEF CacheInv
    <3>3. \A i \in 1 .. Len(cache) : cache[i].run <= session' /\ cache[i].run # session'
      BY <2>1, <3>1, <3>2
    <3>4. \A i \in 1 .. Len(cache) : ~cache[i].whole => i = Len(cache)
      BY DEF CacheInv
    <3>5. QED BY <2>1, <2>3, <3>3, <3>4 DEF CacheInv
  <2>4. QED BY <1>3, <2>2, <2>3 DEF Restart
<1>4. ASSUME NEW t \in Threads, LogCall(t)
      PROVE  CacheInv'
  <2>1. /\ Constructing => Constructing'
        /\ \A u \in Threads : pc'[u] = "push" <=> pc[u] = "push"
        /\ \A u \in Threads : pc[u] = "push" => msg'[u] = msg[u]
    BY <1>4, Constants DEF LogCall, Constructing, CallInv
  <2>2. QED BY <1>4, <2>1, CacheKept DEF LogCall
<1>5. ASSUME NEW t \in Threads, FlushCall(t)
      PROVE  CacheInv'
  <2>1. /\ Constructing => Constructing'
        /\ \A u \in Threads : pc'[u] = "push" <=> pc[u] = "push"
    BY <1>5, Constants DEF FlushCall, Always, Constructing, CallInv
  <2>2. QED BY <1>5, <2>1, CacheKept DEF FlushCall
<1>6. ASSUME NEW t \in Threads, CallStep(t)
      PROVE  CacheInv'
  <2>1. CASE Compress(t)
    <3>1. /\ Constructing => Constructing'
          /\ \A u \in Threads : pc'[u] = "push" <=> pc[u] = "push"
      BY <2>1 DEF Compress, Constructing
    <3>2. QED BY <2>1, <3>1, CacheKept DEF Compress
  <2>2. CASE LogFails(t)
    <3>1. /\ Constructing => Constructing'
          /\ \A u \in Threads : pc'[u] = "push" <=> pc[u] = "push"
      BY <2>2 DEF LogFails, Constructing, CallInv
    <3>2. QED BY <2>2, <3>1, CacheKept DEF LogFails
  <2>3. CASE PushHeader(t)
    <3>1. ~Constructing /\ \A u \in Threads : pc[u] # "push"
      BY <2>3, Constants DEF PushHeader, CanLock, MutexInv, Held, CallInv, Constructing
    <3> DEFINE e == [kind |-> "item", msg |-> msg[t], run |-> session,
                     whole |-> FALSE, text |-> KeepsText]
    <3>2. cache' = Append(cache, e) /\ pc' = [pc EXCEPT ![t] = "push"] /\ msg' = msg
          /\ session' = session
      BY <2>3 DEF PushHeader
    <3>3. e.run = session /\ ~e.whole /\ e.msg = msg[t]
      OBVIOUS
    <3> HIDE DEF e
    <3>4. /\ Len(cache') = Len(cache) + 1 /\ Len(cache) \in Nat
          /\ \A i \in 1 .. Len(cache) : cache'[i] = cache[i]
          /\ cache'[Len(cache')] = e
      BY <3>2
    <3>5. \A i \in 1 .. Len(cache) : cache[i].run <= session /\ cache[i].whole
      <4> SUFFICES ASSUME NEW i \in 1 .. Len(cache)
                   PROVE  cache[i].run <= session /\ cache[i].whole
        OBVIOUS
      <4>1. cache[i].run \in Nat
        BY ItemIs
      <4>2. cache[i].run <= session
        BY Zenon DEF CacheInv
      <4>3. cache[i].run = session \/ cache[i].run < session
        BY <4>1, <4>2
      <4>4. QED BY <3>1, <4>2, <4>3, Zenon DEF CacheInv
    <3>6. \A u \in Threads : pc'[u] = "push" => u = t
      BY <3>1, <3>2
    <3>7. \A i \in 1 .. Len(cache') : i \in 1 .. Len(cache) \/ i = Len(cache')
      BY <3>4
    <3>8. cache' # <<>>
      BY <3>4
    <3>9. QED BY <3>2, <3>3, <3>4, <3>5, <3>6, <3>7, <3>8 DEF CacheInv
  <2>4. CASE PushBody(t)
    <3>1. cache # <<>> /\ cache[Len(cache)].run = session
      BY <2>4 DEF PushBody, CacheInv
    <3>2. /\ Len(cache) \in 1 .. Len(cache) /\ cache[Len(cache)] \in Items
      BY <3>1
    <3>3. /\ Len(cache') = Len(cache)
          /\ \A i \in 1 .. Len(cache) : i # Len(cache) => cache'[i] = cache[i]
          /\ cache'[Len(cache)].whole
          /\ cache'[Len(cache)].run = cache[Len(cache)].run
      BY <2>4, <3>2 DEF PushBody, Items
    <3>4. \A u \in Threads : pc'[u] # "push"
      BY <2>4, OneHolder DEF PushBody, Held
    <3>5. session' = session
      BY <2>4 DEF PushBody
    <3>6. \A i \in 1 .. Len(cache) : cache'[i].run <= session /\ cache'[i].whole
      BY <3>1, <3>3 DEF CacheInv
    <3>7. QED BY <3>3, <3>4, <3>5, <3>6 DEF CacheInv
  <2>5. CASE NeedWriteToFile(t)
    <3>1. /\ Constructing => Constructing'
          /\ \A u \in Threads : pc'[u] = "push" <=> pc[u] = "push"
      BY <2>5 DEF NeedWriteToFile, Constructing, CallInv
    <3>2. QED BY <2>5, <3>1, CacheKept DEF NeedWriteToFile
  <2>6. CASE BeginChunk(t)
    <3>1. pc[t] = "cache" /\ pc' = [pc EXCEPT ![t] = "data"] /\ UNCHANGED <<cache, session, op, msg>>
      BY <2>6 DEF BeginChunk
    <3>2. /\ Constructing => Constructing'
          /\ \A u \in Threads : pc'[u] = "push" <=> pc[u] = "push"
      BY <3>1 DEF Constructing
    <3>3. QED BY <3>1, <3>2, CacheKept
  <2>7. CASE WriteData(t)
    <3>1. /\ Constructing => Constructing'
          /\ \A u \in Threads : pc'[u] = "push" <=> pc[u] = "push"
      BY <2>7 DEF WriteData, Constructing
    <3>2. QED BY <2>7, <3>1, CacheKept DEF WriteData
  <2>8. CASE ClearCache(t)
    <3>1. \A u \in Threads : pc[u] # "push"
      BY <2>8, OneHolder DEF ClearCache, Held
    <3>2. cache' = <<>> /\ \A u \in Threads : pc'[u] # "push"
      BY <2>8, <3>1 DEF ClearCache, Clear
    <3>3. QED BY <3>2 DEF CacheInv
  <2>9. QED BY <1>6, <2>1, <2>2, <2>3, <2>4, <2>5, <2>6, <2>7, <2>8 DEF CallStep
<1>7. QED BY <1>1, <1>2, <1>3, <1>4, <1>5, <1>6, Actions DEF Close
-----------------------------------------------------------------------------
(* The stream                                                                 *)

\* The three steps that change the stream.
LEMMA BeginAppends ==
    ASSUME TypeOK, NEW t \in Threads, BeginChunk(t)
    PROVE  /\ Len(stream) \in Nat /\ Len(stream') = Len(stream) + 1
           /\ \A i \in 1 .. Len(stream) : stream'[i] = stream[i]
           /\ stream'[Len(stream) + 1].kind = "header"
           /\ stream'[Len(stream) + 1].run = session
           /\ stream'[Len(stream) + 1].size = size'
           /\ size' = Len(cache) /\ size' \in Nat
           /\ UNCHANGED <<cache, session, op, msg, accepted, promised>>
           /\ pc[t] = "cache" /\ pc' = [pc EXCEPT ![t] = "data"] /\ CanLock
<1>1. /\ size' = Len(cache)
      /\ stream' = Append(stream, [kind |-> "header", run |-> session, size |-> size'])
      /\ UNCHANGED <<cache, session, op, msg, accepted, promised>>
      /\ pc[t] = "cache" /\ pc' = [pc EXCEPT ![t] = "data"] /\ CanLock
  BY DEF BeginChunk, Goto, history
<1>2. stream \in Seq(Items \cup Headers) /\ cache \in Seq(Items) /\ pc \in [Threads -> PCs]
  BY DEF TypeOK
<1>3. QED BY <1>1, <1>2

LEMMA WriteAppends ==
    ASSUME TypeOK, NEW t \in Threads, WriteData(t)
    PROVE  /\ Len(stream) \in Nat /\ Len(cache) \in Nat
           /\ Len(stream') = Len(stream) + Len(cache)
           /\ \A i \in 1 .. Len(stream) : stream'[i] = stream[i]
           /\ \A i \in 1 .. Len(cache) : stream'[Len(stream) + i] = cache[i]
           /\ UNCHANGED <<cache, session, size, op, msg, accepted, promised>>
           /\ pc[t] = "data" /\ pc' = [pc EXCEPT ![t] = "clear"]
<1>1. /\ stream' = stream \o cache
      /\ UNCHANGED <<cache, session, size, op, msg, accepted, promised>>
      /\ pc[t] = "data" /\ pc' = [pc EXCEPT ![t] = "clear"]
  BY DEF WriteData, Goto, history
<1>2. stream \in Seq(Items \cup Headers) /\ cache \in Seq(Items \cup Headers)
  BY DEF TypeOK
<1>3. QED BY <1>1, <1>2

LEMMA CutKeeps ==
    ASSUME TypeOK, NEW k \in saved .. Len(stream), Restart(k)
    PROVE  /\ k \in Nat /\ k <= Len(stream) /\ Len(stream') = k /\ Len(stream) \in Nat
           /\ \A i \in 1 .. k : stream'[i] = stream[i]
           /\ session' = session + 1 /\ session \in Nat
           /\ accepted' = <<>>
           /\ \A u \in Threads : pc'[u] \in {"down", "ctor"} /\ op'[u] = "ctor"
<1>1. /\ stream' = SubSeq(stream, 1, k) /\ session' = session + 1 /\ accepted' = <<>>
      /\ \A u \in Threads : pc'[u] \in {"down", "ctor"} /\ op'[u] = "ctor"
  BY DEF Restart
<1>2. /\ stream \in Seq(Items \cup Headers) /\ saved \in 0 .. Len(stream) /\ session \in Nat
  BY DEF TypeOK
<1>3. QED BY <1>1, <1>2

\* All other steps leave it alone, and whoever is about to write to it.
LEMMA StreamSteps ==
    ASSUME TypeOK, MutexInv, CallInv, [Next]_vars
    PROVE  \/ \E t \in Threads : BeginChunk(t)
           \/ \E t \in Threads : WriteData(t)
           \/ \E k \in saved .. Len(stream) : WriteBoundary(k) /\ Restart(k)
           \/ /\ UNCHANGED <<stream, session, size>>
              /\ \A u \in Threads : pc'[u] = "data" <=> pc[u] = "data"
<1> DEFINE Same == /\ UNCHANGED <<stream, session, size>>
                   /\ \A u \in Threads : pc'[u] = "data" <=> pc[u] = "data"
<1> USE DEF TypeOK, Goto, fileVars
<1>1. CASE UNCHANGED vars
  BY <1>1 DEF vars, callVars
<1>2. CASE Construct
  <2>1. \A u \in Threads : pc[u] # "data"
    BY <1>2, Constants DEF Construct, CallInv, Constructing
  <2>2. QED BY <1>2, <2>1, Constants DEF Construct
<1>3. CASE Close
  <2>1. Len(stream) \in saved .. Len(stream) /\ WriteBoundary(Len(stream))
    BY DEF WriteBoundary
  <2>2. QED BY <1>3, <2>1 DEF Close
<1>4. ASSUME NEW t \in Threads, LogCall(t)
      PROVE  Same
  BY <1>4 DEF LogCall
<1>5. ASSUME NEW t \in Threads, FlushCall(t)
      PROVE  Same
  BY <1>5 DEF FlushCall, Always
<1>6. ASSUME NEW t \in Threads, CallStep(t)
      PROVE  BeginChunk(t) \/ WriteData(t) \/ Same
  <2>1. CASE Compress(t)
    BY <2>1 DEF Compress
  <2>2. CASE LogFails(t)
    BY <2>2 DEF LogFails
  <2>3. CASE PushHeader(t)
    BY <2>3 DEF PushHeader
  <2>4. CASE PushBody(t)
    BY <2>4 DEF PushBody
  <2>5. CASE NeedWriteToFile(t)
    BY <2>5 DEF NeedWriteToFile
  <2>6. CASE ClearCache(t)
    <3>1. \A u \in Threads : pc[u] # "data"
      BY <2>6, OneHolder DEF ClearCache, Held
    <3>2. QED BY <2>6, <3>1 DEF ClearCache
  <2>7. QED BY <1>6, <2>1, <2>2, <2>3, <2>4, <2>5, <2>6 DEF CallStep
<1>7. QED BY <1>1, <1>2, <1>3, <1>4, <1>5, <1>6, Actions

\* While nobody writes, nothing is said of the chunk.
LEMMA ChunkKept ==
    ASSUME ChunkInv, UNCHANGED <<stream, session, size, cache>>,
           \A u \in Threads : pc'[u] \in {"data", "clear"} => pc'[u] = pc[u]
    PROVE  ChunkInv'
<1>1. stream' = stream /\ session' = session /\ size' = size /\ cache' = cache
  OBVIOUS
<1>2. QED BY <1>1 DEF ChunkInv, IsHeader

LEMMA ChunkStep ==
    ASSUME TypeOK, MutexInv, CallInv, ChunkInv, [Next]_vars
    PROVE  ChunkInv'
<1> USE DEF Goto, fileVars
<1>0. pc \in [Threads -> PCs]
  BY DEF TypeOK
<1>1. CASE UNCHANGED vars
  BY <1>1, ChunkKept DEF vars, callVars
<1>2. CASE Construct
  <2>1. \A u \in Threads : pc'[u] \notin {"data", "clear"}
    BY <1>0, <1>2, Constants DEF Construct, CallInv, Constructing
  <2>2. QED BY <2>1 DEF ChunkInv
<1>3. ASSUME NEW k \in saved .. Len(stream), Restart(k)
      PROVE  ChunkInv'
  BY <1>3, CutKeeps DEF ChunkInv
<1>4. ASSUME NEW t \in Threads, LogCall(t)
      PROVE  ChunkInv'
  BY <1>0, <1>4, ChunkKept DEF LogCall
<1>5. ASSUME NEW t \in Threads, FlushCall(t)
      PROVE  ChunkInv'
  BY <1>0, <1>5, ChunkKept DEF FlushCall, Always
<1>6. ASSUME NEW t \in Threads, CallStep(t)
      PROVE  ChunkInv'
  <2>1. CASE Compress(t)
    BY <1>0, <2>1, ChunkKept DEF Compress
  <2>2. CASE LogFails(t)
    BY <1>0, <2>2, ChunkKept DEF LogFails
  <2>3. CASE PushHeader(t)
    <3>1. \A u \in Threads : pc'[u] \notin {"data", "clear"}
      BY <1>0, <2>3, OneHolder DEF PushHeader, Held
    <3>2. QED BY <3>1 DEF ChunkInv
  <2>4. CASE PushBody(t)
    <3>1. \A u \in Threads : pc'[u] \notin {"data", "clear"}
      BY <1>0, <2>4, OneHolder DEF PushBody, Held
    <3>2. QED BY <3>1 DEF ChunkInv
  <2>5. CASE NeedWriteToFile(t)
    BY <1>0, <2>5, ChunkKept DEF NeedWriteToFile
  <2>6. CASE BeginChunk(t)
    <3>1. \A u \in Threads : u # t => pc'[u] \notin {"data", "clear"}
      BY <1>0, <2>6, BeginAppends, OneHolder DEF Held
    <3>2. /\ pc'[t] = "data" /\ size' = Len(cache')
          /\ Len(stream') \in 1 .. Len(stream')
          /\ stream'[Len(stream')].kind = "header"
          /\ stream'[Len(stream')].size = size'
          /\ stream'[Len(stream')].run = session'
      BY <1>0, <2>6, BeginAppends
    <3>3. QED BY <3>1, <3>2 DEF ChunkInv, IsHeader
  <2>7. CASE WriteData(t)
    <3>1. \A u \in Threads : u # t => pc'[u] \notin {"data", "clear"}
      BY <1>0, <2>7, WriteAppends, OneHolder DEF Held
    <3>2. pc'[t] = "clear" /\ size = Len(cache) /\ size' = Len(cache')
      BY <1>0, <2>7, WriteAppends DEF ChunkInv
    <3>3. /\ Len(stream') - size' = Len(stream) /\ size' <= Len(stream')
          /\ \A i \in 1 .. size' : stream'[Len(stream) + i] = cache'[i]
      BY <2>7, <3>2, WriteAppends
    <3>4. QED BY <3>1, <3>2, <3>3 DEF ChunkInv
  <2>8. CASE ClearCache(t)
    <3>1. \A u \in Threads : pc'[u] \notin {"data", "clear"}
      BY <1>0, <2>8, OneHolder DEF ClearCache, Held
    <3>2. QED BY <3>1 DEF ChunkInv
  <2>9. QED BY <1>6, <2>1, <2>2, <2>3, <2>4, <2>5, <2>6, <2>7, <2>8 DEF CallStep
<1>7. Len(stream) \in saved .. Len(stream)
  BY DEF TypeOK
<1>8. QED BY <1>1, <1>2, <1>3, <1>4, <1>5, <1>6, <1>7, Actions DEF Close
-----------------------------------------------------------------------------
(* Headers and torn items                                                     *)

\* What WriteData appends are items; the last cell before is the header.
LEMMA WrittenCell ==
    ASSUME TypeOK, ChunkInv, NEW t \in Threads, WriteData(t), NEW i \in 1 .. Len(stream')
    PROVE  \/ i \in 1 .. Len(stream) /\ stream'[i] = stream[i]
           \/ /\ i > Len(stream) /\ i - Len(stream) \in 1 .. Len(cache)
              /\ stream'[i] = cache[i - Len(stream)]
              /\ stream'[i].kind = "item"
<1>1. CASE i <= Len(stream)
  BY <1>1, WriteAppends
<1>2. CASE i > Len(stream)
  <2>1. i - Len(stream) \in 1 .. Len(cache) /\ i = Len(stream) + (i - Len(stream))
    BY <1>2, WriteAppends
  <2>2. stream'[i] = cache[i - Len(stream)]
    BY <2>1, WriteAppends
  <2>3. cache[i - Len(stream)].kind = "item"
    BY <2>1, ItemIs
  <2>4. QED BY <1>2, <2>1, <2>2, <2>3
<1>3. QED BY <1>1, <1>2, WriteAppends

\* What BeginChunk appends is a header.
LEMMA BegunCell ==
    ASSUME TypeOK, NEW t \in Threads, BeginChunk(t), NEW i \in 1 .. Len(stream')
    PROVE  \/ i \in 1 .. Len(stream) /\ stream'[i] = stream[i] /\ i # Len(stream')
           \/ i = Len(stream) + 1 /\ i = Len(stream') /\ stream'[i].kind = "header"
  BY BeginAppends

LEMMA HeaderStep ==
    ASSUME TypeOK, MutexInv, CallInv, ChunkInv, HeaderInv, [Next]_vars
    PROVE  HeaderInv'
<1>0. session \in Nat /\ pc \in [Threads -> PCs]
  BY DEF TypeOK
<1>1. ASSUME NEW t \in Threads, BeginChunk(t)
      PROVE  HeaderInv'
  <2>1. session' = session /\ pc'[t] = "data"
    BY <1>0, <1>1, BeginAppends
  <2>2. SUFFICES ASSUME NEW i \in 1 .. Len(stream'), stream'[i].kind = "header"
                 PROVE  stream'[i].run <= session
    BY <2>1 DEF HeaderInv
  <2>3. CASE i \in 1 .. Len(stream) /\ stream'[i] = stream[i]
    BY <2>2, <2>3 DEF HeaderInv
  <2>4. CASE i = Len(stream) + 1
    BY <1>0, <1>1, <2>4, BeginAppends
  <2>5. QED BY <1>1, <2>3, <2>4, BegunCell
<1>2. ASSUME NEW t \in Threads, WriteData(t)
      PROVE  HeaderInv'
  <2>1. session' = session
    BY <1>2, WriteAppends
  <2>2. SUFFICES ASSUME NEW i \in 1 .. Len(stream'), stream'[i].kind = "header"
                 PROVE  /\ stream'[i].run <= session
                        /\ i = Len(stream') => stream'[i].size = 0
    BY <2>1 DEF HeaderInv
  <2>3. i \in 1 .. Len(stream) /\ stream'[i] = stream[i]
    BY <1>2, <2>2, WrittenCell
  <2>4. stream[Len(stream)].size = Len(cache)
    BY <1>2, WriteAppends DEF ChunkInv
  <2>5. i = Len(stream') => i = Len(stream) /\ Len(cache) = 0
    BY <1>2, <2>3, WriteAppends
  <2>6. QED BY <2>2, <2>3, <2>4, <2>5 DEF HeaderInv
<1>3. ASSUME NEW k \in saved .. Len(stream), Restart(k)
      PROVE  HeaderInv'
  <2>1. SUFFICES ASSUME NEW i \in 1 .. Len(stream'), stream'[i].kind = "header"
                 PROVE  stream'[i].run <= session' /\ stream'[i].run # session'
    BY DEF HeaderInv
  <2>2. i \in 1 .. Len(stream) /\ stream'[i] = stream[i] /\ session' = session + 1
    BY <1>3, <2>1, CutKeeps
  <2>3. stream[i].run <= session /\ stream[i].run \in Nat
    BY <2>1, <2>2, CellIs DEF HeaderInv
  <2>4. QED BY <1>0, <2>2, <2>3
<1>4. CASE /\ UNCHANGED <<stream, session, size>>
           /\ \A u \in Threads : pc'[u] = "data" <=> pc[u] = "data"
  <2>1. stream' = stream /\ session' = session
    BY <1>4
  <2>2. QED BY <1>4, <2>1 DEF HeaderInv
<1>5. QED BY <1>1, <1>2, <1>3, <1>4, StreamSteps

LEMMA TornStep ==
    ASSUME TypeOK, MutexInv, CallInv, CacheInv, ChunkInv, TornEndsChunk, [Next]_vars
    PROVE  TornEndsChunk'
<1>0. session \in Nat /\ pc \in [Threads -> PCs]
  BY DEF TypeOK
<1>1. ASSUME NEW t \in Threads, BeginChunk(t)
      PROVE  TornEndsChunk'
  <2>1. session' = session
    BY <1>1, BeginAppends
  <2>2. SUFFICES ASSUME NEW i \in 1 .. Len(stream'),
                        stream'[i].kind = "item", ~stream'[i].whole
                 PROVE  stream'[i].run < session /\ IsHeader(i + 1)'
    BY <2>1 DEF TornEndsChunk
  <2>3. i \in 1 .. Len(stream) /\ stream'[i] = stream[i]
    BY <1>1, <2>2, BegunCell
  <2>4. stream[i].run < session /\ (i = Len(stream) \/ IsHeader(i + 1))
    BY <2>2, <2>3 DEF TornEndsChunk
  <2>5. CASE i = Len(stream)
    <3>1. i + 1 \in 1 .. Len(stream') /\ stream'[i + 1].kind = "header"
      BY <1>1, <2>5, BeginAppends
    <3>2. QED BY <2>3, <2>4, <3>1 DEF IsHeader
  <2>6. CASE IsHeader(i + 1)
    <3>1. i + 1 \in 1 .. Len(stream) /\ stream[i + 1].kind = "header"
      BY <2>6 DEF IsHeader
    <3>2. i + 1 \in 1 .. Len(stream') /\ stream'[i + 1].kind = "header"
      BY <1>1, <3>1, BeginAppends
    <3>3. QED BY <2>3, <2>4, <3>2 DEF IsHeader
  <2>7. QED BY <2>4, <2>5, <2>6
<1>2. ASSUME NEW t \in Threads, WriteData(t)
      PROVE  TornEndsChunk'
  <2>1. session' = session
    BY <1>2, WriteAppends
  <2>2. SUFFICES ASSUME NEW i \in 1 .. Len(stream'),
                        stream'[i].kind = "item", ~stream'[i].whole
                 PROVE  /\ stream'[i].run < session
                        /\ i = Len(stream') \/ IsHeader(i + 1)'
    BY <2>1 DEF TornEndsChunk
  <2>3. CASE i \in 1 .. Len(stream) /\ stream'[i] = stream[i]
    <3>1. IsHeader(Len(stream))
      BY <1>2, WriteAppends DEF ChunkInv
    <3>2. stream[i].run < session /\ (i = Len(stream) \/ IsHeader(i + 1))
      BY <2>2, <2>3 DEF TornEndsChunk
    <3>3. i # Len(stream)
      BY <2>2, <2>3, <3>1 DEF IsHeader
    <3>4. IsHeader(i + 1) => IsHeader(i + 1)'
      BY <1>2, WriteAppends DEF IsHeader
    <3>5. QED BY <2>3, <3>2, <3>3, <3>4
  <2>4. CASE i > Len(stream) /\ i - Len(stream) \in 1 .. Len(cache)
             /\ stream'[i] = cache[i - Len(stream)]
    <3>1. \A u \in Threads : pc[u] # "push"
      BY <1>2, WriteAppends, OneHolder DEF Held
    <3>2. /\ cache[i - Len(stream)].run <= session
          /\ cache[i - Len(stream)].run # session
          /\ i - Len(stream) = Len(cache)
      BY <2>2, <2>4, <3>1, Zenon DEF CacheInv
    <3>3. cache[i - Len(stream)].run \in Nat
      BY <2>4, ItemIs
    <3>4. i = Len(stream')
      BY <1>2, <2>4, <3>2, WriteAppends
    <3>5. QED BY <1>0, <2>4, <3>2, <3>3, <3>4
  <2>5. QED BY <1>2, <2>3, <2>4, WrittenCell
<1>3. ASSUME NEW k \in saved .. Len(stream), Restart(k)
      PROVE  TornEndsChunk'
  <2>1. SUFFICES ASSUME NEW i \in 1 .. Len(stream'),
                        stream'[i].kind = "item", ~stream'[i].whole
                 PROVE  /\ stream'[i].run < session'
                        /\ i = Len(stream') \/ IsHeader(i + 1)'
    BY DEF TornEndsChunk
  <2>2. i \in 1 .. Len(stream) /\ stream'[i] = stream[i] /\ session' = session + 1
    BY <1>3, <2>1, CutKeeps
  <2>3. stream[i].run < session /\ (i = Len(stream) \/ IsHeader(i + 1))
    BY <2>1, <2>2 DEF TornEndsChunk
  <2>4. stream[i] \in Items
    BY <2>1, <2>2, CellIs DEF TypeOK, Headers
  <2>5. stream[i].run \in Nat
    BY <2>4 DEF Items
  <2>6. i # Len(stream') => i + 1 \in 1 .. Len(stream') /\ i # Len(stream)
    BY <1>3, <2>1, <2>2, CutKeeps
  <2>7. i # Len(stream') => IsHeader(i + 1)'
    BY <1>3, <2>3, <2>6, CutKeeps DEF IsHeader
  <2>8. QED BY <1>0, <2>2, <2>3, <2>5, <2>7
<1>4. CASE UNCHANGED <<stream, session, size>>
  <2>1. stream' = stream /\ session' = session
    BY <1>4
  <2>2. QED BY <2>1 DEF TornEndsChunk, IsHeader
<1>5. QED BY <1>1, <1>2, <1>3, <1>4, StreamSteps
-----------------------------------------------------------------------------
(* Framing                                                                    *)

\* The header i has the n items it announces, and no others.
HeaderAt(s, i) == i \in 1 .. Len(s) /\ s[i].kind = "header"
Complete(s, i, n) ==
    /\ i + n <= Len(s)
    /\ \A j \in i + 1 .. i + n : s[j].kind = "item"
    /\ i + n < Len(s) => HeaderAt(s, i + n + 1)

\* The three cases of ChunksFramed.
Framed(i, n) ==
    \/ Complete(stream, i, n)
    \/ i = Len(stream)
    \/ stream[i].run < session /\ HeaderAt(stream, i + 1)

LEMMA FramedCases ==
    ASSUME ChunksFramed, NEW i \in 1 .. Len(stream), stream[i].kind = "header",
           NEW n, n = stream[i].size
    PROVE  Framed(i, n)
  BY DEF Framed, ChunksFramed, Complete, Covers, HeaderAt, IsHeader

\* A header in the stream stays one while the stream grows.
LEMMA BeginFramed ==
    ASSUME TypeOK, NEW t \in Threads, BeginChunk(t),
           NEW i \in 1 .. Len(stream), stream[i].kind = "header",
           NEW n \in Nat, Framed(i, n),
           i = Len(stream) /\ n # 0 => stream[i].run < session
    PROVE  \/ Complete(stream', i, n)
           \/ stream[i].run < session /\ HeaderAt(stream', i + 1)
<1>1. /\ stream'[i] = stream[i] /\ n \in Nat /\ stream[i].run \in Nat
      /\ session \in Nat /\ Len(stream) \in Nat
  BY BeginAppends, CellIs DEF TypeOK
<1>2. /\ Len(stream) + 1 \in 1 .. Len(stream')
      /\ stream'[Len(stream) + 1].kind = "header"
      /\ Len(stream') = Len(stream) + 1
  BY BeginAppends
<1>3. CASE Complete(stream, i, n)
  <2>1. i + n <= Len(stream) /\ (\A j \in i + 1 .. i + n : stream[j].kind = "item")
    BY <1>3 DEF Complete
  <2>2. ASSUME NEW j \in i + 1 .. i + n
        PROVE  stream'[j].kind = "item"
    <3>1. j \in 1 .. Len(stream) /\ stream[j].kind = "item"
      BY <1>1, <2>1
    <3>2. QED BY <3>1, BeginAppends
  <2>3. i + n + 1 \in 1 .. Len(stream') /\ stream'[i + n + 1].kind = "header"
    <3>1. CASE i + n = Len(stream)
      BY <1>1, <1>2, <3>1
    <3>2. CASE i + n < Len(stream)
      <4>1. i + n + 1 \in 1 .. Len(stream) /\ stream[i + n + 1].kind = "header"
        BY <1>3, <3>2 DEF Complete, HeaderAt
      <4>2. QED BY <1>2, <4>1, BeginAppends
    <3>3. QED BY <1>1, <2>1, <3>1, <3>2
  <2>4. QED BY <1>1, <1>2, <2>1, <2>2, <2>3 DEF Complete, HeaderAt
<1>4. CASE i = Len(stream) /\ n = 0
  <2>1. i + 0 = i /\ i + n <= Len(stream') /\ i + 1 .. i + n = {}
    BY <1>1, <1>2, <1>4
  <2>2. i + n + 1 \in 1 .. Len(stream') /\ stream'[i + n + 1].kind = "header"
    BY <1>1, <1>2, <1>4
  <2>3. QED BY <1>1, <2>1, <2>2 DEF Complete, HeaderAt
<1>5. CASE i = Len(stream) /\ n # 0
  <2>2. stream[i].run < session
    BY <1>5
  <2>3. i + 1 \in 1 .. Len(stream') /\ stream'[i + 1].kind = "header"
    BY <1>2, <1>5
  <2>4. QED BY <1>1, <2>2, <2>3 DEF HeaderAt
<1>6. CASE stream[i].run < session /\ HeaderAt(stream, i + 1)
  <2>1. i + 1 \in 1 .. Len(stream) /\ stream[i + 1].kind = "header"
    BY <1>6 DEF HeaderAt
  <2>2. i + 1 \in 1 .. Len(stream') /\ stream'[i + 1].kind = "header"
    BY <1>2, <2>1, BeginAppends
  <2>3. QED BY <1>6, <2>2 DEF HeaderAt
<1>7. QED BY <1>3, <1>4, <1>5, <1>6 DEF Framed

LEMMA WriteFramed ==
    ASSUME TypeOK, ChunkInv, NEW t \in Threads, WriteData(t),
           NEW i \in 1 .. Len(stream), stream[i].kind = "header",
           NEW n \in Nat, Framed(i, n), i = Len(stream) => n = Len(cache)
    PROVE  \/ Complete(stream', i, n)
           \/ stream[i].run < session /\ HeaderAt(stream', i + 1)
<1>1. /\ stream'[i] = stream[i] /\ n \in Nat /\ Len(stream) \in Nat /\ Len(cache) \in Nat
      /\ Len(stream') = Len(stream) + Len(cache)
  BY WriteAppends, CellIs
<1>2. HeaderAt(stream, Len(stream)) /\ stream[Len(stream)].size = Len(cache)
  BY WriteAppends DEF ChunkInv, IsHeader, HeaderAt
<1>3. CASE i = Len(stream)
  <2>1. i + n = Len(stream')
    BY <1>1, <1>2, <1>3
  <2>2. ASSUME NEW j \in i + 1 .. i + n
        PROVE  stream'[j].kind = "item"
    <3>1. j \in 1 .. Len(stream') /\ ~(j \in 1 .. Len(stream))
      BY <1>1, <1>3, <2>1
    <3>2. QED BY <3>1, WrittenCell
  <2>3. QED BY <1>1, <2>1, <2>2 DEF Complete, Covers
<1>4. CASE i # Len(stream) /\ Complete(stream, i, n)
  <2>1. i + n <= Len(stream) /\ (\A j \in i + 1 .. i + n : stream[j].kind = "item")
    BY <1>4 DEF Complete
  <2>2. i + n # Len(stream)
    <3>1. i + n = Len(stream) => Len(stream) \in i + 1 .. i + n
      <4>1. i \in Nat /\ n \in Nat /\ i <= Len(stream) /\ i # Len(stream)
        BY <1>1, <1>4
      <4>2. i < Len(stream) /\ Len(stream) \in Nat
        BY <1>1, <4>1
      <4>3. Len(stream) \in i + 1 .. Len(stream)
        BY <4>1, <4>2
      <4>4. QED BY <4>3
    <3>2. i + n = Len(stream) => stream[Len(stream)].kind = "item"
      BY <2>1, <3>1
    <3>3. QED BY <1>2, <3>2 DEF HeaderAt
  <2>3. i + n + 1 \in 1 .. Len(stream) /\ stream[i + n + 1].kind = "header"
    <3>1. i + n < Len(stream)
      BY <1>1, <2>1, <2>2
    <3>2. QED BY <1>4, <3>1 DEF Complete, HeaderAt
  <2>4. i + n + 1 \in 1 .. Len(stream') /\ stream'[i + n + 1].kind = "header"
    BY <1>1, <2>3, WriteAppends
  <2>5. ASSUME NEW j \in i + 1 .. i + n
        PROVE  stream'[j].kind = "item"
    <3>1. j \in 1 .. Len(stream) /\ stream[j].kind = "item"
      BY <1>1, <2>1
    <3>2. QED BY <3>1, WriteAppends
  <2>6. QED BY <1>1, <2>1, <2>4, <2>5 DEF Complete, HeaderAt
<1>5. CASE stream[i].run < session /\ HeaderAt(stream, i + 1)
  <2>1. i + 1 \in 1 .. Len(stream) /\ stream[i + 1].kind = "header"
    BY <1>5 DEF HeaderAt
  <2>2. i + 1 \in 1 .. Len(stream') /\ stream'[i + 1].kind = "header"
    BY <1>1, <2>1, WriteAppends
  <2>3. QED BY <1>5, <2>2 DEF HeaderAt
<1>6. QED BY <1>3, <1>4, <1>5 DEF Framed

\* A crash cuts the stream between two writes only.
LEMMA CutFramed ==
    ASSUME TypeOK, NEW k \in saved .. Len(stream), WriteBoundary(k), Restart(k),
           NEW i \in 1 .. k, stream[i].kind = "header", i # k,
           NEW n \in Nat, Framed(i, n)
    PROVE  \/ Complete(stream', i, n)
           \/ stream[i].run < session /\ HeaderAt(stream', i + 1)
<1>1. /\ stream'[i] = stream[i] /\ Len(stream) \in Nat /\ k \in Nat /\ k <= Len(stream)
      /\ Len(stream') = k
  BY CutKeeps
<1>2. i \in 1 .. Len(stream) /\ i # Len(stream)
  BY <1>1
<1>3. n \in Nat
  OBVIOUS
<1>4. CASE Complete(stream, i, n)
  <2>1. i + n <= Len(stream) /\ (\A j \in i + 1 .. i + n : stream[j].kind = "item")
    BY <1>4 DEF Complete
  <2>2. i + n <= k
    <3> SUFFICES ASSUME i + n > k PROVE FALSE
      BY <1>1, <1>3
    <3>1. k \in i + 1 .. i + n /\ k + 1 \in i + 1 .. i + n /\ k # Len(stream)
      BY <1>1, <1>3, <2>1
    <3>2. stream[k].kind = "item" /\ stream[k + 1].kind = "item"
      BY <2>1, <3>1
    <3>3. QED BY <3>1, <3>2 DEF WriteBoundary, IsHeader
  <2>3. ASSUME NEW j \in i + 1 .. i + n
        PROVE  stream'[j].kind = "item"
    <3>1. j \in 1 .. k /\ stream[j].kind = "item"
      BY <1>1, <1>3, <2>1, <2>2
    <3>2. QED BY <3>1, CutKeeps
  <2>4. ASSUME i + n < k
        PROVE  i + n + 1 \in 1 .. k /\ stream'[i + n + 1].kind = "header"
    <3>1. i + n + 1 \in 1 .. k /\ i + n < Len(stream)
      BY <1>1, <1>3, <2>4
    <3>2. stream[i + n + 1].kind = "header"
      BY <1>4, <3>1 DEF Complete, HeaderAt
    <3>3. QED BY <3>1, <3>2, CutKeeps
  <2>5. QED BY <1>1, <2>2, <2>3, <2>4 DEF Complete, HeaderAt
<1>5. CASE stream[i].run < session /\ HeaderAt(stream, i + 1)
  <2>1. i + 1 \in 1 .. k /\ stream[i + 1].kind = "header"
    BY <1>1, <1>5 DEF HeaderAt
  <2>2. stream'[i + 1].kind = "header"
    BY <2>1, CutKeeps
  <2>3. QED BY <1>1, <1>5, <2>1, <2>2 DEF HeaderAt
<1>6. QED BY <1>2, <1>4, <1>5 DEF Framed

LEMMA FramedStep ==
    ASSUME TypeOK, MutexInv, CallInv, ChunkInv, HeaderInv, ChunksFramed, [Next]_vars
    PROVE  ChunksFramed'
<1>1. SUFFICES ASSUME NEW i \in 1 .. Len(stream'), stream'[i].kind = "header",
                      NEW n, n = stream'[i].size
               PROVE  \/ Complete(stream', i, n)
                      \/ i = Len(stream')
                      \/ stream'[i].run < session' /\ HeaderAt(stream', i + 1)
  BY DEF ChunksFramed, Complete, Covers, HeaderAt, IsHeader
<1>2. ASSUME NEW t \in Threads, BeginChunk(t), i # Len(stream')
      PROVE  Complete(stream', i, n) \/ (stream'[i].run < session' /\ HeaderAt(stream', i + 1))
  <2>1. i \in 1 .. Len(stream) /\ stream'[i] = stream[i] /\ session' = session
    BY <1>2, BegunCell, BeginAppends
  <2>2. stream[i].kind = "header" /\ n = stream[i].size /\ n \in Nat
    BY <1>1, <2>1, CellIs
  <2>3. Framed(i, n)
    BY <2>1, <2>2, FramedCases
  <2>4. \A u \in Threads : pc[u] # "data"
    BY <1>2, BeginAppends, Constants DEF MutexInv, Held, CanLock
  <2>5. stream[i].run \in Nat /\ session \in Nat /\ stream[i].run <= session
    BY <2>1, <2>2, CellIs DEF TypeOK, HeaderInv
  <2>6. i = Len(stream) /\ n # 0 => stream[i].run # session
    BY <2>1, <2>2, <2>4 DEF HeaderInv
  <2>7. i = Len(stream) /\ n # 0 => stream[i].run < session
    BY <2>5, <2>6
  <2>8. Complete(stream', i, n) \/ (stream[i].run < session /\ HeaderAt(stream', i + 1))
    BY <1>2, <2>1, <2>2, <2>3, <2>7, BeginFramed
  <2>9. QED BY <2>1, <2>8
<1>3. ASSUME NEW t \in Threads, WriteData(t)
      PROVE  Complete(stream', i, n) \/ (stream'[i].run < session' /\ HeaderAt(stream', i + 1))
  <2>1. i \in 1 .. Len(stream) /\ stream'[i] = stream[i] /\ session' = session
    BY <1>1, <1>3, WrittenCell, WriteAppends
  <2>2. stream[i].kind = "header" /\ n = stream[i].size /\ n \in Nat
    BY <1>1, <2>1, CellIs
  <2>3. Framed(i, n)
    BY <2>1, <2>2, FramedCases
  <2>4. i = Len(stream) => n = Len(cache)
    BY <1>3, <2>2, WriteAppends DEF ChunkInv
  <2>5. Complete(stream', i, n) \/ (stream[i].run < session /\ HeaderAt(stream', i + 1))
    BY <1>3, <2>1, <2>2, <2>3, <2>4, WriteFramed
  <2>6. QED BY <2>1, <2>5
<1>4. ASSUME NEW k \in saved .. Len(stream), WriteBoundary(k), Restart(k), i # Len(stream')
      PROVE  Complete(stream', i, n) \/ (stream'[i].run < session' /\ HeaderAt(stream', i + 1))
  <2>1. i \in 1 .. k /\ i # k /\ stream'[i] = stream[i] /\ session' = session + 1
    BY <1>4, CutKeeps
  <2>2. i \in 1 .. Len(stream) /\ session \in Nat
    BY <1>4, <2>1, CutKeeps
  <2>3. stream[i].run \in Nat
    BY <1>1, <2>1, <2>2, CellIs
  <2>4. stream[i].kind = "header" /\ n = stream[i].size /\ n \in Nat
    BY <1>1, <2>1, <2>2, CellIs
  <2>5. Framed(i, n)
    BY <2>2, <2>4, FramedCases
  <2>6. Complete(stream', i, n) \/ (stream[i].run < session /\ HeaderAt(stream', i + 1))
    BY <1>4, <2>1, <2>4, <2>5, CutFramed
  <2>7. QED BY <2>1, <2>2, <2>3, <2>6
<1>5. CASE UNCHANGED <<stream, session, size>>
  <2>1. stream' = stream /\ session' = session
    BY <1>5
  <2>2. Complete(stream, i, n) \/ i = Len(stream) \/ (stream[i].run < session /\ HeaderAt(stream, i + 1))
    <3>1. i \in 1 .. Len(stream) /\ stream[i].kind = "header" /\ n = stream[i].size
      BY <1>1, <2>1
    <3>2. QED BY <3>1, FramedCases DEF Framed
  <2>3. QED BY <1>1, <2>1, <2>2 DEF Complete, HeaderAt
<1>6. QED BY <1>2, <1>3, <1>4, <1>5, StreamSteps
-----------------------------------------------------------------------------
(* What was accepted                                                          *)

\* A sequence that grows holds what it held.
LEMMA HoldsMore ==
    ASSUME NEW r, NEW s, NEW m, Len(r) \in Nat, Len(s) \in Nat, Len(r) <= Len(s),
           \A j \in 1 .. Len(r) : s[j] = r[j], Holds(r, m)
    PROVE  Holds(s, m)
<1>1. PICK j \in 1 .. Len(r) : r[j].kind = "item" /\ r[j].msg = m /\ r[j].whole
  BY DEF Holds
<1>2. j \in 1 .. Len(s) /\ s[j] = r[j]
  BY <1>1
<1>3. QED BY <1>1, <1>2 DEF Holds

\* So has the cache been written when it is cleared.
LEMMA ClearedIsWritten ==
    ASSUME TypeOK, ChunkInv, NEW t \in Threads, pc[t] = "clear", NEW m, Holds(cache, m)
    PROVE  Holds(stream, m)
<1>1. PICK j \in 1 .. Len(cache) : cache[j].kind = "item" /\ cache[j].msg = m /\ cache[j].whole
  BY DEF Holds
<1>2. /\ size = Len(cache) /\ size <= Len(stream)
      /\ \A i \in 1 .. size : stream[Len(stream) - size + i] = cache[i]
  BY DEF ChunkInv
<1>3. Len(stream) \in Nat /\ Len(cache) \in Nat
  BY DEF TypeOK
<1>4. Len(stream) - size + j \in 1 .. Len(stream)
  BY <1>2, <1>3
<1>5. stream[Len(stream) - size + j] = cache[j]
  BY <1>2
<1>6. QED BY <1>1, <1>4, <1>5 DEF Holds

\* The first half of an item, and then the second, keep what the cache holds.
LEMMA HeaderKeeps ==
    ASSUME TypeOK, NEW t \in Threads, PushHeader(t), NEW m, Holds(cache, m)
    PROVE  Holds(cache', m)
<1>1. PICK e : cache' = Append(cache, e)
  BY DEF PushHeader
<1>2. /\ Len(cache) \in Nat /\ Len(cache') = Len(cache) + 1
      /\ \A j \in 1 .. Len(cache) : cache'[j] = cache[j]
  BY <1>1 DEF TypeOK
<1>3. Len(cache') \in Nat /\ Len(cache) <= Len(cache')
  BY <1>2
<1>4. QED BY <1>2, <1>3, HoldsMore

LEMMA BodyKeeps ==
    ASSUME TypeOK, CallInv, CacheInv, NEW t \in Threads, PushBody(t)
    PROVE  /\ Holds(cache', msg[t])
           /\ \A m : Holds(cache, m) => Holds(cache', m)
           /\ Len(cache') = Len(cache)
<1>1. cache # <<>> /\ cache[Len(cache)].msg = msg[t]
  BY DEF PushBody, CacheInv
<1>2. Len(cache) \in 1 .. Len(cache) /\ cache \in Seq(Items) /\ cache[Len(cache)] \in Items
  BY <1>1 DEF TypeOK
<1> DEFINE f == [cache[Len(cache)] EXCEPT !.whole = TRUE]
<1>3. /\ f.msg = cache[Len(cache)].msg /\ f.kind = "item" /\ f.whole
      /\ cache' = [cache EXCEPT ![Len(cache)] = f]
  BY <1>2 DEF PushBody, Items
<1> HIDE DEF f
<1>4. /\ Len(cache') = Len(cache)
      /\ \A j \in 1 .. Len(cache) : j # Len(cache) => cache'[j] = cache[j]
      /\ cache'[Len(cache)] = f
  BY <1>2, <1>3
<1>5. /\ cache'[Len(cache)].whole /\ cache'[Len(cache)].msg = cache[Len(cache)].msg
      /\ cache'[Len(cache)].kind = "item"
  BY <1>3, <1>4, Zenon
<1>6. Holds(cache', msg[t])
  BY <1>1, <1>2, <1>4, <1>5 DEF Holds
<1>7. ASSUME NEW m, Holds(cache, m)
      PROVE  Holds(cache', m)
  <2>1. PICK j \in 1 .. Len(cache) :
                cache[j].kind = "item" /\ cache[j].msg = m /\ cache[j].whole
    BY <1>7 DEF Holds
  <2>2. CASE j = Len(cache)
    BY <1>1, <1>6, <2>1, <2>2
  <2>3. CASE j # Len(cache)
    BY <1>4, <2>1, <2>3 DEF Holds
  <2>4. QED BY <2>2, <2>3
<1>8. QED BY <1>4, <1>6, <1>7

\* The other steps of a call leave the cache and the stream alone.
LEMMA KeptStep ==
    ASSUME TypeOK, CallInv, CacheInv, ChunkInv, KeptInv, [Next]_vars
    PROVE  KeptInv'
<1> USE DEF fileVars, history
<1>0. /\ stream \in Seq(Items \cup Headers) /\ accepted \in Seq(Msgs)
      /\ Len(accepted) \in Nat
  BY DEF TypeOK
<1>1. SUFFICES ASSUME NEW i \in 1 .. Len(accepted')
               PROVE  Holds(cache', accepted'[i]) \/ Holds(stream', accepted'[i])
  BY DEF KeptInv
<1>2. CASE UNCHANGED <<cache, stream, accepted>>
  BY <1>1, <1>2 DEF KeptInv
<1>3. ASSUME NEW k, Restart(k)
      PROVE  FALSE
  BY <1>1, <1>3 DEF Restart
<1>4. ASSUME NEW t \in Threads, CallStep(t)
      PROVE  \/ Holds(cache', accepted'[i]) \/ Holds(stream', accepted'[i])
  <2>1. CASE PushHeader(t)
    <3>1. accepted' = accepted /\ stream' = stream
      BY <2>1 DEF PushHeader
    <3>2. Holds(cache, accepted[i]) \/ Holds(stream, accepted[i])
      BY <1>1, <3>1 DEF KeptInv
    <3>3. QED BY <2>1, <3>1, <3>2, HeaderKeeps
  <2>2. CASE PushBody(t)
    <3>1. accepted' = Append(accepted, msg[t]) /\ stream' = stream
      BY <2>2 DEF PushBody
    <3>2. CASE i = Len(accepted) + 1
      <4>1. accepted'[i] = msg[t]
        BY <1>0, <3>1, <3>2
      <4>2. QED BY <2>2, <4>1, BodyKeeps
    <3>3. CASE i \in 1 .. Len(accepted)
      <4>1. accepted'[i] = accepted[i]
        BY <1>0, <3>1, <3>3
      <4>2. Holds(cache, accepted[i]) \/ Holds(stream, accepted[i])
        BY <3>3 DEF KeptInv
      <4>3. QED BY <2>2, <3>1, <4>1, <4>2, BodyKeeps
    <3>4. QED BY <1>0, <1>1, <3>1, <3>2, <3>3
  <2>3. CASE BeginChunk(t) \/ WriteData(t)
    <3>1. /\ accepted' = accepted /\ cache' = cache
          /\ Len(stream) \in Nat /\ Len(stream') \in Nat /\ Len(stream) <= Len(stream')
          /\ \A j \in 1 .. Len(stream) : stream'[j] = stream[j]
      BY <2>3, BeginAppends, WriteAppends
    <3>2. Holds(cache, accepted[i]) \/ Holds(stream, accepted[i])
      BY <1>1, <3>1 DEF KeptInv
    <3>3. QED BY <3>1, <3>2, HoldsMore
  <2>4. CASE ClearCache(t)
    <3>1. accepted' = accepted /\ stream' = stream /\ pc[t] = "clear"
      BY <2>4 DEF ClearCache
    <3>2. Holds(cache, accepted[i]) \/ Holds(stream, accepted[i])
      BY <1>1, <3>1 DEF KeptInv
    <3>3. QED BY <3>1, <3>2, ClearedIsWritten
  <2>5. CASE Compress(t) \/ LogFails(t) \/ NeedWriteToFile(t)
    BY <1>2, <2>5 DEF Compress, LogFails, NeedWriteToFile
  <2>6. QED BY <1>4, <2>1, <2>2, <2>3, <2>4, <2>5 DEF CallStep
<1>5. ASSUME NEW t \in Threads, LogCall(t) \/ FlushCall(t)
      PROVE  UNCHANGED <<cache, stream, accepted>>
  BY <1>5 DEF LogCall, FlushCall
<1>6. CASE Construct \/ UNCHANGED vars
  BY <1>2, <1>6 DEF Construct, vars
<1>7. QED BY <1>2, <1>3, <1>4, <1>5, <1>6, Actions DEF Close
-----------------------------------------------------------------------------
(* What a Flush has written                                                   *)

\* FlushPersists for the threads in the middle of nothing new.
LEMMA FlushKept ==
    ASSUME CallInv, FlushPersists, UNCHANGED <<accepted, promised>>,
           \A m : Holds(stream, m) => Holds(stream', m),
           \A u \in Threads : op'[u] = "flush" /\ pc'[u] = "idle" =>
                                op[u] = "flush" /\ pc[u] = "idle"
    PROVE  FlushPersists'
<1>1. accepted' = accepted /\ promised' = promised
  OBVIOUS
<1>2. SUFFICES ASSUME NEW u \in Threads, op'[u] = "flush", pc'[u] = "idle",
                      NEW i \in 1 .. promised[u]
               PROVE  Holds(stream', accepted[i])
  BY <1>1 DEF FlushPersists, InStream, Holds
<1>3. Holds(stream, accepted[i])
  BY <1>2 DEF FlushPersists, InStream, Holds
<1>4. QED BY <1>3

LEMMA FlushStep ==
    ASSUME TypeOK, CallInv, ChunkInv, KeptInv, FlushPersists, [Next]_vars
    PROVE  FlushPersists'
<1> USE DEF Goto, fileVars, callVars, history
<1>0. /\ pc \in [Threads -> PCs] /\ op \in [Threads -> {"ctor", "log", "flush"}]
      /\ promised \in [Threads -> Nat] /\ accepted \in Seq(Msgs)
  BY DEF TypeOK
<1>1. CASE UNCHANGED vars
  BY <1>1, FlushKept DEF vars
<1>2. CASE Construct
  <2>1. \A u \in Threads : op'[u] # "flush"
    BY <1>2, Constants DEF Construct, CallInv, Constructing
  <2>2. QED BY <2>1 DEF FlushPersists
<1>3. ASSUME NEW k, Restart(k)
      PROVE  FlushPersists'
  BY <1>3 DEF Restart, FlushPersists
<1>4. ASSUME NEW t \in Threads, LogCall(t)
      PROVE  FlushPersists'
  BY <1>0, <1>4, FlushKept DEF LogCall
<1>5. ASSUME NEW t \in Threads, FlushCall(t)
      PROVE  FlushPersists'
  <2>1. /\ op' = [op EXCEPT ![t] = "flush"] /\ pc' = [pc EXCEPT ![t] = "cache"]
        /\ promised' = [promised EXCEPT ![t] = Len(accepted)]
        /\ accepted' = accepted /\ stream' = stream
    BY <1>5 DEF FlushCall, Always
  <2>2. SUFFICES ASSUME NEW u \in Threads, op'[u] = "flush", pc'[u] = "idle",
                        NEW i \in 1 .. promised'[u]
                 PROVE  Holds(stream, accepted[i])
    BY <2>1, SMTT(20) DEF FlushPersists, InStream, Holds
  <2>3. u # t /\ op[u] = "flush" /\ pc[u] = "idle" /\ promised'[u] = promised[u]
    BY <1>0, <2>1, <2>2
  <2>4. QED BY <2>2, <2>3 DEF FlushPersists, InStream, Holds
<1>6. ASSUME NEW t \in Threads, CallStep(t)
      PROVE  FlushPersists'
  <2>1. CASE Compress(t)
    BY <1>0, <2>1, FlushKept DEF Compress
  <2>2. CASE LogFails(t)
    <3>1. op[t] = "log"
      BY <2>2 DEF LogFails, CallInv
    <3>2. QED BY <1>0, <2>2, <3>1, FlushKept DEF LogFails
  <2>3. CASE PushHeader(t)
    BY <1>0, <2>3, FlushKept DEF PushHeader
  <2>4. CASE PushBody(t)
    <3>1. /\ op' = op /\ pc' = [pc EXCEPT ![t] = "need"] /\ promised' = promised
          /\ accepted' = Append(accepted, msg[t]) /\ stream' = stream
      BY <2>4 DEF PushBody
    <3>2. SUFFICES ASSUME NEW u \in Threads, op'[u] = "flush", pc'[u] = "idle",
                          NEW i \in 1 .. promised'[u]
                   PROVE  Holds(stream', accepted'[i])
      BY DEF FlushPersists, InStream, Holds
    <3>3. op[u] = "flush" /\ pc[u] = "idle"
      BY <1>0, <3>1, <3>2
    <3>4. promised[u] \in Nat /\ promised[u] <= Len(accepted) /\ Len(accepted) \in Nat
      BY <1>0, <3>3 DEF CallInv
    <3>5. i \in 1 .. promised[u] /\ i \in 1 .. Len(accepted)
      BY <3>1, <3>2, <3>4
    <3>6. accepted'[i] = accepted[i]
      BY <1>0, <3>1, <3>5
    <3>7. Holds(stream, accepted[i])
      BY <3>3, <3>5 DEF FlushPersists, InStream, Holds
    <3>8. QED BY <3>1, <3>6, <3>7
  <2>5. CASE NeedWriteToFile(t)
    <3>1. op[t] = "log"
      BY <2>5 DEF NeedWriteToFile, CallInv
    <3>2. QED BY <1>0, <2>5, <3>1, FlushKept DEF NeedWriteToFile
  <2>6. CASE BeginChunk(t)
    <3>1. \A m : Holds(stream, m) => Holds(stream', m)
      <4>1. Len(stream) \in Nat /\ Len(stream') \in Nat /\ Len(stream) <= Len(stream')
        BY <2>6, BeginAppends
      <4>2. QED BY <2>6, <4>1, BeginAppends, HoldsMore
    <3>2. /\ op' = op /\ pc' = [pc EXCEPT ![t] = "data"]
          /\ accepted' = accepted /\ promised' = promised
      BY <2>6, BeginAppends
    <3>3. QED BY <1>0, <3>1, <3>2, FlushKept
  <2>7. CASE WriteData(t)
    <3>1. \A m : Holds(stream, m) => Holds(stream', m)
      <4>1. Len(stream) \in Nat /\ Len(stream') \in Nat /\ Len(stream) <= Len(stream')
        BY <2>7, WriteAppends
      <4>2. QED BY <2>7, <4>1, WriteAppends, HoldsMore
    <3>2. /\ op' = op /\ pc' = [pc EXCEPT ![t] = "clear"]
          /\ accepted' = accepted /\ promised' = promised
      BY <2>7, WriteAppends
    <3>3. QED BY <1>0, <3>1, <3>2, FlushKept
  <2>8. CASE ClearCache(t)
    <3>1. /\ pc[t] = "clear" /\ op' = op /\ promised' = promised
          /\ accepted' = accepted /\ stream' = stream
      BY <2>8 DEF ClearCache
    <3>2. SUFFICES ASSUME NEW u \in Threads, op'[u] = "flush",
                          NEW i \in 1 .. promised'[u]
                   PROVE  Holds(stream', accepted'[i])
      BY DEF FlushPersists, InStream, Holds
    <3>3. promised[u] \in Nat /\ promised[u] <= Len(accepted) /\ Len(accepted) \in Nat
      BY <1>0, <3>1, <3>2 DEF CallInv
    <3>4. i \in 1 .. Len(accepted)
      BY <3>1, <3>2, <3>3
    <3>5. Holds(cache, accepted[i]) \/ Holds(stream, accepted[i])
      BY <3>4 DEF KeptInv
    <3>6. QED BY <3>1, <3>5, ClearedIsWritten
  <2>9. QED BY <1>6, <2>1, <2>2, <2>3, <2>4, <2>5, <2>6, <2>7, <2>8 DEF CallStep
<1>7. QED BY <1>1, <1>2, <1>3, <1>4, <1>5, <1>6, Actions DEF Close
-----------------------------------------------------------------------------
(* The limit of the cache                                                     *)

Writing == {"push", "need", "cache", "data", "clear"}

LEMMA WritersCount ==
    /\ IsFiniteSet(Writers) /\ Cardinality(Writers) \in Nat
    /\ IsFiniteSet(Writers') /\ Cardinality(Writers') \in Nat
<1>1. Writers \subseteq Threads /\ Writers' \subseteq Threads
  BY DEF Writers
<1>2. QED BY <1>1, Constants, FS_Subset, FS_CardinalityType

\* The cache is no longer than before, and nobody stops writing.
LEMMA BoundKept ==
    ASSUME TypeOK, CacheBounded, Len(cache') = Len(cache), Constructing => Constructing',
           \A u \in Threads : pc[u] \in Writing => pc'[u] \in Writing
    PROVE  CacheBounded'
<1>1. Writers \subseteq Writers'
  BY DEF Writers, Writing
<1>2. Cardinality(Writers) <= Cardinality(Writers')
  BY <1>1, WritersCount, FS_Subset
<1>3. Len(cache) \in Nat /\ Threshold \in Nat
  BY Constants DEF TypeOK
<1>4. QED BY <1>2, <1>3, WritersCount DEF CacheBounded

\* A cache below the limit needs nobody.
LEMMA BoundFits ==
    ASSUME Len(cache') \in Nat, Len(cache') <= Threshold
    PROVE  CacheBounded'
  BY Constants, WritersCount DEF CacheBounded

LEMMA BoundStep ==
    ASSUME TypeOK, CallInv, CacheInv, CacheBounded, [Next]_vars
    PROVE  CacheBounded'
<1> USE DEF Goto, callVars, Writing
<1>0. pc \in [Threads -> PCs] /\ Len(cache) \in Nat /\ Threshold \in Nat
  BY Constants DEF TypeOK
<1>1. CASE UNCHANGED vars
  BY <1>1, BoundKept DEF vars, Constructing
<1>2. CASE Construct
  <2>1. CASE Recovers
    <3>1. op[Main] = "ctor" /\ op' = op /\ pc' = [pc EXCEPT ![Main] = "cache"]
      BY <1>2, <2>1, Constants DEF Construct, CallInv
    <3>2. Constructing'
      BY <1>0, <3>1, Constants DEF Constructing
    <3>3. QED BY <3>2 DEF CacheBounded
  <2>2. CASE ~Recovers
    <3>1. cache' = <<>>
      BY <1>2, <2>2 DEF Construct, Recovers
    <3>2. QED BY <1>0, <3>1, BoundFits
  <2>3. QED BY <2>1, <2>2
<1>3. ASSUME NEW k, Restart(k)
      PROVE  CacheBounded'
  BY <1>3, Constants DEF Restart, CacheBounded, Constructing
<1>4. ASSUME NEW t \in Threads, LogCall(t)
      PROVE  CacheBounded'
  <2>1. /\ Constructing => Constructing'
        /\ \A u \in Threads : pc[u] \in Writing => pc'[u] \in Writing
    BY <1>0, <1>4, Constants DEF LogCall, Constructing, CallInv
  <2>2. QED BY <1>4, <2>1, BoundKept DEF LogCall
<1>5. ASSUME NEW t \in Threads, FlushCall(t)
      PROVE  CacheBounded'
  <2>1. /\ Constructing => Constructing'
        /\ \A u \in Threads : pc[u] \in Writing => pc'[u] \in Writing
    BY <1>0, <1>5, Constants DEF FlushCall, Always, Constructing, CallInv
  <2>2. QED BY <1>5, <2>1, BoundKept DEF FlushCall
<1>6. ASSUME NEW t \in Threads, CallStep(t)
      PROVE  CacheBounded'
  <2>1. CASE Compress(t)
    <3>1. /\ Constructing => Constructing'
          /\ \A u \in Threads : pc[u] \in Writing => pc'[u] \in Writing
      BY <1>0, <2>1 DEF Compress, Constructing
    <3>2. QED BY <2>1, <3>1, BoundKept DEF Compress
  <2>2. CASE LogFails(t)
    <3>1. /\ Constructing => Constructing'
          /\ \A u \in Threads : pc[u] \in Writing => pc'[u] \in Writing
      BY <1>0, <2>2 DEF LogFails, Constructing, CallInv
    <3>2. QED BY <2>2, <3>1, BoundKept DEF LogFails
  <2>3. CASE PushHeader(t)
    <3>1. pc[t] = "lock" /\ pc' = [pc EXCEPT ![t] = "push"] /\ op' = op
          /\ Len(cache') = Len(cache) + 1
      BY <2>3 DEF PushHeader, TypeOK
    <3>2. ~Constructing
      BY <3>1, Constants DEF Constructing, CallInv
    <3>3. t \notin Writers /\ Writers' = Writers \cup {t}
      BY <1>0, <3>1 DEF Writers
    <3>4. Cardinality(Writers') = Cardinality(Writers) + 1
      BY <3>3, WritersCount, FS_AddElement
    <3>5. QED BY <1>0, <3>1, <3>2, <3>4, WritersCount DEF CacheBounded
  <2>4. CASE PushBody(t)
    <3>1. /\ Constructing => Constructing'
          /\ \A u \in Threads : pc[u] \in Writing => pc'[u] \in Writing
      BY <1>0, <2>4 DEF PushBody, Constructing
    <3>2. QED BY <2>4, <3>1, BodyKeeps, BoundKept
  <2>5. CASE NeedWriteToFile(t)
    <3>1. CASE OverLimit
      <4>1. /\ Constructing => Constructing'
            /\ \A u \in Threads : pc[u] \in Writing => pc'[u] \in Writing
        BY <1>0, <2>5, <3>1 DEF NeedWriteToFile, Constructing
      <4>2. QED BY <2>5, <4>1, BoundKept DEF NeedWriteToFile
    <3>2. CASE ~OverLimit
      BY <1>0, <2>5, <3>2, BoundFits DEF NeedWriteToFile, OverLimit
    <3>3. QED BY <3>1, <3>2
  <2>6. CASE BeginChunk(t)
    <3>1. pc' = [pc EXCEPT ![t] = "data"] /\ op' = op /\ cache' = cache
      BY <2>6, BeginAppends
    <3>2. /\ Constructing => Constructing'
          /\ \A u \in Threads : pc[u] \in Writing => pc'[u] \in Writing
      BY <1>0, <3>1 DEF Constructing
    <3>3. QED BY <3>1, <3>2, BoundKept
  <2>7. CASE WriteData(t)
    <3>1. pc' = [pc EXCEPT ![t] = "clear"] /\ op' = op /\ cache' = cache
      BY <2>7, WriteAppends
    <3>2. /\ Constructing => Constructing'
          /\ \A u \in Threads : pc[u] \in Writing => pc'[u] \in Writing
      BY <1>0, <3>1 DEF Constructing
    <3>3. QED BY <3>1, <3>2, BoundKept
  <2>8. CASE ClearCache(t)
    <3>1. cache' = <<>>
      BY <2>8 DEF ClearCache, Clear
    <3>2. QED BY <1>0, <3>1, BoundFits
  <2>9. QED BY <1>6, <2>1, <2>2, <2>3, <2>4, <2>5, <2>6, <2>7, <2>8 DEF CallStep
<1>7. QED BY <1>1, <1>2, <1>3, <1>4, <1>5, <1>6, Actions DEF Close

-----------------------------------------------------------------------------
(* The theorems                                                               *)

LEMMA InitIInv == Init => IInv
<1> SUFFICES ASSUME Init PROVE IInv
  OBVIOUS
<1>1. TypeOK
  BY InitType
<1>2. /\ cache = <<>> /\ stream = <<>> /\ accepted = <<>> /\ mtx = NoOne /\ saved = 0
      /\ \A t \in Threads : /\ pc[t] = (IF t = Main THEN "ctor" ELSE "down")
                             /\ op[t] = "ctor"
  BY DEF Init
<1>3. Len(cache) = 0 /\ Len(stream) = 0 /\ Len(accepted) = 0
  BY <1>2
<1>4. 1 .. 0 = {}
  OBVIOUS
<1>5. Constructing
  BY <1>2, Constants DEF Constructing
<1>6. MutexInv /\ CallInv
  BY <1>2, <1>5, Constants DEF MutexInv, CallInv, Held
<1>7. CacheInv /\ FileInv /\ ChunkInv /\ HeaderInv /\ KeptInv
  BY <1>2, <1>3, <1>4 DEF CacheInv, FileInv, ChunkInv, HeaderInv, KeptInv
<1>8. ChunksFramed /\ TornEndsChunk /\ FlushPersists /\ CacheBounded
  BY <1>2, <1>3, <1>4, <1>5 DEF ChunksFramed, TornEndsChunk, FlushPersists, CacheBounded
<1>9. QED BY <1>1, <1>6, <1>7, <1>8 DEF IInv

LEMMA Step == IInv /\ [Next]_vars => IInv'
<1> SUFFICES ASSUME IInv, [Next]_vars PROVE IInv'
  OBVIOUS
<1>1. /\ TypeOK /\ MutexInv /\ CallInv /\ CacheInv /\ FileInv /\ ChunkInv /\ HeaderInv
      /\ KeptInv /\ ChunksFramed /\ TornEndsChunk /\ FlushPersists /\ CacheBounded
  BY DEF IInv
<1>2. TypeOK' /\ MutexInv' /\ CallInv' /\ CacheInv' /\ FileInv' /\ ChunkInv'
  BY <1>1, TypeStep, MutexStep, CallInvStep, CacheStep, FileStep, ChunkStep
<1>3. HeaderInv' /\ KeptInv' /\ ChunksFramed' /\ TornEndsChunk'
  BY <1>1, HeaderStep, KeptStep, FramedStep, TornStep
<1>4. FlushPersists' /\ CacheBounded'
  BY <1>1, FlushStep, BoundStep
<1>5. QED BY <1>2, <1>3, <1>4 DEF IInv

LEMMA Invariance == Spec => []IInv
  BY InitIInv, Step, PTL DEF Spec

\* Every variable keeps the type the code gives it, whatever the threads, the
\* bounds and the sink.
THEOREM TypeCorrect == Spec => []TypeOK
<1>1. IInv => TypeOK
  BY DEF IInv
<1>2. QED BY <1>1, Invariance, PTL

\* What CacheToFile_ writes can be walked from header to header, with any
\* number of writers and after any number of runs that ended anywhere: its
\* header, its data and Clear are in one critical section.
THEOREM FramedChunks == Spec => []ChunksFramed
<1>1. IInv => ChunksFramed
  BY DEF IInv
<1>2. QED BY <1>1, Invariance, PTL

\* An item that WriteToCache_ had not finished when its process ended is the
\* last one of a chunk: the constructor writes what it finds before Log can
\* push anything behind it.
THEOREM TornItems == Spec => []TornEndsChunk
<1>1. IInv => TornEndsChunk
  BY DEF IInv
<1>2. QED BY <1>1, Invariance, PTL

\* When Flush returns, the file has what the run had accepted before the call.
THEOREM FlushedIsWritten == Spec => []FlushPersists
<1>1. IInv => FlushPersists
  BY DEF IInv
<1>2. QED BY <1>1, Invariance, PTL

\* NeedWriteToFile_ is called after the lock was given up, and yet the cache
\* exceeds its limit by the items of unfinished calls only.
THEOREM BoundedCache == Spec => []CacheBounded
<1>1. IInv => CacheBounded
  BY DEF IInv
<1>2. QED BY <1>1, Invariance, PTL
-----------------------------------------------------------------------------
(* The messages of a sequence of cells                                        *)

Cells == Items \cup Headers

\* Induction, of which a set tells for what it holds.
LEMMA Induction ==
    ASSUME NEW T, 0 \in T, \A n \in Nat : n \in T => n + 1 \in T
    PROVE  Nat \subseteq T
<1> DEFINE R == OpToRel(<, Nat)
           D == Nat \ T
<1>1. IsWellFoundedOn(R, Nat)
  BY NatLessThanWellFounded
<1>2. \A x, y \in Nat : y < x => <<y, x>> \in R
  BY DEF OpToRel
<1>3. SUFFICES ASSUME D # {} PROVE FALSE
  OBVIOUS
<1>4. D \subseteq Nat
  OBVIOUS
<1> HIDE DEF R, D
<1>5. PICK x \in D : \A y \in D : ~(<<y, x>> \in R)
  BY <1>1, <1>3, <1>4, WFMin
<1>6. x \in Nat /\ x \notin T
  BY DEF D
<1>7. x # 0 /\ x - 1 \in Nat /\ x - 1 < x /\ (x - 1) + 1 = x
  BY <1>6
<1>8. x - 1 \notin T
  BY <1>6, <1>7
<1>9. x - 1 \in D
  BY <1>7, <1>8 DEF D
<1>10. QED BY <1>2, <1>5, <1>6, <1>7, <1>9

\* What the definition of MsgsUpTo(s) says of f[n].
UpTo(s, f, n) == IF n = 0 THEN <<>>
                 ELSE IF IsWhole(s[n]) THEN Append(f[n - 1], s[n].msg)
                 ELSE f[n - 1]

\* There is such a function: one for a shorter sequence can be extended.
LEMMA UpToExists ==
    ASSUME NEW s, NEW m \in Nat
    PROVE  \E f : f = [n \in 0 .. m |-> UpTo(s, f, n)]
<1> DEFINE T == {k \in Nat : \E f : f = [n \in 0 .. k |-> UpTo(s, f, n)]}
<1>1. 0 \in T
  <2> DEFINE f == [n \in {0} |-> <<>>]
  <2>1. 0 .. 0 = {0}
    OBVIOUS
  <2>2. f = [n \in 0 .. 0 |-> UpTo(s, f, n)]
    BY <2>1 DEF UpTo
  <2>3. QED BY <2>2
<1>2. ASSUME NEW k \in Nat, k \in T
      PROVE  k + 1 \in T
  <2>1. PICK f : f = [n \in 0 .. k |-> UpTo(s, f, n)]
    BY <1>2
  <2> DEFINE g == [n \in 0 .. k + 1 |-> IF n = k + 1 THEN UpTo(s, f, k + 1) ELSE f[n]]
  <2>2. ASSUME NEW n \in 0 .. k + 1
        PROVE  g[n] = UpTo(s, g, n)
    <3>1. n # 0 => n - 1 \in 0 .. k /\ n - 1 \in 0 .. k + 1 /\ n - 1 # k + 1
      OBVIOUS
    <3>2. n # 0 => g[n - 1] = f[n - 1]
      BY <3>1
    <3>3. UpTo(s, g, n) = UpTo(s, f, n)
      BY <3>2 DEF UpTo
    <3>4. n # k + 1 => n \in 0 .. k
      OBVIOUS
    <3>5. n # k + 1 => f[n] = UpTo(s, f, n)
      BY <2>1, <3>4
    <3>6. QED BY <3>3, <3>5
  <2>3. g = [n \in 0 .. k + 1 |-> g[n]]
    OBVIOUS
  <2> HIDE DEF g
  <2>4. g = [n \in 0 .. k + 1 |-> UpTo(s, g, n)]
    BY <2>2, <2>3
  <2>5. QED BY <2>4
<1> HIDE DEF T
<1>3. Nat \subseteq T
  BY <1>1, <1>2, Induction
<1>4. m \in T
  BY <1>3
<1>5. QED BY <1>4 DEF T

LEMMA UpToIs ==
    ASSUME NEW S, NEW s \in Seq(S)
    PROVE  /\ MsgsUpTo(s)[0] = <<>>
           /\ \A n \in 1 .. Len(s) :
                 MsgsUpTo(s)[n] = IF IsWhole(s[n]) THEN Append(MsgsUpTo(s)[n - 1], s[n].msg)
                                  ELSE MsgsUpTo(s)[n - 1]
<1> DEFINE P(f) == f = [n \in 0 .. Len(s) |-> UpTo(s, f, n)]
           f == MsgsUpTo(s)
<1>1. Len(s) \in Nat
  OBVIOUS
<1>2. \E g : P(g)
  BY <1>1, UpToExists
<1>3. f = CHOOSE g : P(g)
  BY DEF MsgsUpTo, UpTo
<1>4. P(f)
  BY <1>2, <1>3
<1> HIDE DEF f
<1>5. \A n \in 0 .. Len(s) : f[n] = UpTo(s, f, n)
  BY <1>4
<1>6. f[0] = <<>>
  BY <1>1, <1>5 DEF UpTo
<1>7. \A n \in 1 .. Len(s) : f[n] = IF IsWhole(s[n]) THEN Append(f[n - 1], s[n].msg) ELSE f[n - 1]
  BY <1>1, <1>5 DEF UpTo
<1>8. QED BY <1>6, <1>7 DEF f

\* A cell that is whole is an item.
LEMMA WholeIs ==
    ASSUME NEW c \in Cells, IsWhole(c)
    PROVE  c \in Items /\ c.msg \in Msgs
<1>1. c \notin Headers
  BY DEF Headers, IsWhole
<1>2. QED BY <1>1 DEF Cells, Items

LEMMA UpToType ==
    ASSUME NEW s \in Seq(Cells), NEW n \in 0 .. Len(s)
    PROVE  MsgsUpTo(s)[n] \in Seq(Msgs)
<1> DEFINE f == MsgsUpTo(s)
           T == {k \in Nat : k <= Len(s) => f[k] \in Seq(Msgs)}
<1>1. /\ f[0] = <<>>
      /\ \A k \in 1 .. Len(s) : f[k] = IF IsWhole(s[k]) THEN Append(f[k - 1], s[k].msg)
                                       ELSE f[k - 1]
  BY UpToIs
<1>2. Len(s) \in Nat /\ \A k \in 1 .. Len(s) : s[k] \in Cells
  OBVIOUS
<1> HIDE DEF f
<1>3. 0 \in T
  <2>1. <<>> \in Seq(Msgs)
    BY Zenon, EmptySeq
  <2>2. QED BY <1>1, <2>1
<1>4. ASSUME NEW k \in Nat, k \in T, k + 1 <= Len(s)
      PROVE  f[k + 1] \in Seq(Msgs)
  <2>1. f[k] \in Seq(Msgs) /\ k + 1 \in 1 .. Len(s) /\ (k + 1) - 1 = k
    BY <1>2, <1>4
  <2>2. CASE IsWhole(s[k + 1])
    <3>1. s[k + 1].msg \in Msgs
      BY <1>2, <2>1, <2>2, WholeIs
    <3>2. f[k + 1] = Append(f[k], s[k + 1].msg)
      BY <1>1, <2>1, <2>2
    <3>3. QED BY <2>1, <3>1, <3>2, AppendProperties
  <2>3. CASE ~IsWhole(s[k + 1])
    BY <1>1, <2>1, <2>3
  <2>4. QED BY <2>2, <2>3
<1>5. \A k \in Nat : k \in T => k + 1 \in T
  BY <1>4
<1> HIDE DEF T
<1>6. n \in T
  BY <1>2, <1>3, <1>5, Induction
<1>7. f[n] \in Seq(Msgs)
  BY <1>2, <1>6 DEF T
<1>8. QED BY <1>7 DEF f

LEMMA MsgOfType ==
    ASSUME NEW s \in Seq(Cells)
    PROVE  MsgOf(s) \in Seq(Msgs) /\ Len(MsgOf(s)) \in Nat
<1>1. MsgOf(s) \in Seq(Msgs)
  BY UpToType DEF MsgOf
<1>2. QED BY <1>1

\* The messages of the first cells are those of any sequence that begins with
\* them.
LEMMA UpToLocal ==
    ASSUME NEW s \in Seq(Cells), NEW r \in Seq(Cells), NEW m \in Nat,
           m <= Len(s), m <= Len(r), \A i \in 1 .. m : s[i] = r[i]
    PROVE  MsgsUpTo(s)[m] = MsgsUpTo(r)[m]
<1> DEFINE f == MsgsUpTo(s)
           g == MsgsUpTo(r)
           T == {k \in Nat : k <= m => f[k] = g[k]}
<1>1. /\ f[0] = <<>>
      /\ \A k \in 1 .. Len(s) : f[k] = IF IsWhole(s[k]) THEN Append(f[k - 1], s[k].msg)
                                       ELSE f[k - 1]
  BY UpToIs
<1>2. /\ g[0] = <<>>
      /\ \A k \in 1 .. Len(r) : g[k] = IF IsWhole(r[k]) THEN Append(g[k - 1], r[k].msg)
                                       ELSE g[k - 1]
  BY UpToIs
<1> HIDE DEF f, g
<1>3. 0 \in T
  BY <1>1, <1>2
<1>4. ASSUME NEW k \in Nat, k \in T, k + 1 <= m
      PROVE  f[k + 1] = g[k + 1]
  <2>1. f[k] = g[k] /\ (k + 1) - 1 = k /\ k + 1 \in 1 .. m /\ k + 1 \in 1 .. Len(s)
        /\ k + 1 \in 1 .. Len(r)
    BY <1>4
  <2>2. s[k + 1] = r[k + 1]
    BY <2>1
  <2>3. f[k + 1] = IF IsWhole(s[k + 1]) THEN Append(f[k], s[k + 1].msg) ELSE f[k]
    BY <1>1, <2>1
  <2>4. g[k + 1] = IF IsWhole(r[k + 1]) THEN Append(g[k], r[k + 1].msg) ELSE g[k]
    BY <1>2, <2>1
  <2>5. QED BY <2>1, <2>2, <2>3, <2>4
<1>5. \A k \in Nat : k \in T => k + 1 \in T
  BY <1>4
<1> HIDE DEF T
<1>6. m \in T
  BY <1>3, <1>5, Induction
<1>7. f[m] = g[m]
  BY <1>6 DEF T
<1>8. QED BY <1>7 DEF f, g

\* One more cell is one more message, if it is whole.
LEMMA MsgOfAppend ==
    ASSUME NEW s \in Seq(Cells), NEW c \in Cells
    PROVE  MsgOf(Append(s, c)) = IF IsWhole(c) THEN Append(MsgOf(s), c.msg) ELSE MsgOf(s)
<1> DEFINE r == Append(s, c)
<1>1. /\ r \in Seq(Cells) /\ Len(r) = Len(s) + 1 /\ Len(s) \in Nat
      /\ r[Len(s) + 1] = c /\ \A i \in 1 .. Len(s) : r[i] = s[i]
  BY AppendProperties
<1> HIDE DEF r
<1>2. MsgsUpTo(r)[Len(s)] = MsgsUpTo(s)[Len(s)]
  BY <1>1, UpToLocal
<1>3. Len(r) \in 1 .. Len(r) /\ Len(r) - 1 = Len(s)
  BY <1>1
<1>4. MsgsUpTo(r)[Len(r)] = IF IsWhole(c) THEN Append(MsgsUpTo(r)[Len(s)], c.msg)
                            ELSE MsgsUpTo(r)[Len(s)]
  BY <1>1, <1>3, UpToIs
<1>5. QED BY <1>2, <1>4 DEF MsgOf, r

LEMMA MsgOfEmpty == MsgOf(<<>>) = <<>>
<1>1. <<>> \in Seq(Cells) /\ Len(<<>>) = 0
  BY EmptySeq
<1>2. QED BY <1>1, UpToIs DEF MsgOf

\* A prefix has the messages of its cells.
LEMMA MsgOfPrefix ==
    ASSUME NEW s \in Seq(Cells), NEW k \in 0 .. Len(s)
    PROVE  MsgOf(SubSeq(s, 1, k)) = MsgsUpTo(s)[k]
<1> DEFINE r == SubSeq(s, 1, k)
<1>1. r \in Seq(Cells) /\ Len(r) = k /\ \A i \in 1 .. k : r[i] = s[i]
  BY SubSeqProperties
<1> HIDE DEF r
<1>2. MsgsUpTo(r)[k] = MsgsUpTo(s)[k]
  BY <1>1, UpToLocal
<1>3. QED BY <1>1, <1>2 DEF MsgOf, r

\* What is written behind something has its messages behind those.
LEMMA MsgOfConcat ==
    ASSUME NEW s \in Seq(Cells), NEW r \in Seq(Cells)
    PROVE  MsgOf(s \o r) = MsgOf(s) \o MsgOf(r)
<1> DEFINE c == s \o r
           f == MsgsUpTo(c)
           g == MsgsUpTo(r)
           u == MsgOf(s)
           T == {k \in Nat : k <= Len(r) => f[Len(s) + k] = u \o g[k]}
<1>1. /\ c \in Seq(Cells) /\ Len(c) = Len(s) + Len(r) /\ Len(s) \in Nat /\ Len(r) \in Nat
      /\ \A i \in 1 .. Len(s) : c[i] = s[i]
      /\ \A i \in 1 .. Len(r) : c[Len(s) + i] = r[i]
  BY ConcatProperties
<1>2. u \in Seq(Msgs) /\ \A k \in 0 .. Len(r) : g[k] \in Seq(Msgs)
  BY MsgOfType, UpToType
<1> HIDE DEF c
<1>3. f[Len(s)] = u
  <2>1. Len(s) <= Len(c) /\ Len(s) <= Len(s)
    BY <1>1
  <2>2. MsgsUpTo(c)[Len(s)] = MsgsUpTo(s)[Len(s)]
    BY <1>1, <2>1, UpToLocal
  <2>3. QED BY <2>2 DEF MsgOf
<1>4. \A k \in 1 .. Len(c) : f[k] = IF IsWhole(c[k]) THEN Append(f[k - 1], c[k].msg)
                                    ELSE f[k - 1]
  BY <1>1, UpToIs
<1>5. /\ g[0] = <<>>
      /\ \A k \in 1 .. Len(r) : g[k] = IF IsWhole(r[k]) THEN Append(g[k - 1], r[k].msg)
                                       ELSE g[k - 1]
  BY UpToIs
<1> HIDE DEF f, g, u
<1>6. 0 \in T
  <2>1. u \o <<>> = u /\ Len(s) + 0 = Len(s)
    BY <1>1, <1>2, ConcatEmptySeq
  <2>2. QED BY <1>3, <1>5, <2>1
<1>7. ASSUME NEW k \in Nat, k <= Len(r) => f[Len(s) + k] = u \o g[k], k + 1 <= Len(r)
      PROVE  f[Len(s) + (k + 1)] = u \o g[k + 1]
  <2>1. /\ f[Len(s) + k] = u \o g[k] /\ (k + 1) - 1 = k /\ k + 1 \in 1 .. Len(r)
        /\ Len(s) + (k + 1) \in 1 .. Len(c) /\ (Len(s) + (k + 1)) - 1 = Len(s) + k
        /\ k \in 0 .. Len(r)
    BY <1>1, <1>7
  <2>2. c[Len(s) + (k + 1)] = r[k + 1]
    BY <1>1, <2>1
  <2>3. f[Len(s) + (k + 1)] = IF IsWhole(r[k + 1]) THEN Append(u \o g[k], r[k + 1].msg)
                              ELSE u \o g[k]
    BY <1>4, <2>1, <2>2
  <2>4. g[k + 1] = IF IsWhole(r[k + 1]) THEN Append(g[k], r[k + 1].msg) ELSE g[k]
    BY <1>5, <2>1
  <2>5. CASE IsWhole(r[k + 1])
    <3>1. r[k + 1].msg \in Msgs
      BY <2>1, <2>5, WholeIs
    <3>2. g[k] \in Seq(Msgs) /\ <<r[k + 1].msg>> \in Seq(Msgs)
      BY <1>2, <2>1, <3>1
    <3>3. /\ Append(g[k], r[k + 1].msg) = g[k] \o <<r[k + 1].msg>>
          /\ Append(u \o g[k], r[k + 1].msg) = (u \o g[k]) \o <<r[k + 1].msg>>
      BY <1>2, <3>1, <3>2, AppendIsConcat, ConcatProperties
    <3>4. (u \o g[k]) \o <<r[k + 1].msg>> = u \o (g[k] \o <<r[k + 1].msg>>)
      <4>1. \A x, y, z \in Seq(Msgs) : (x \o y) \o z = x \o (y \o z)
        BY ConcatAssociative, SMTT(20)
      <4>2. QED BY <1>2, <3>2, <4>1, Zenon
    <3>5. QED BY <2>3, <2>4, <2>5, <3>3, <3>4
  <2>6. CASE ~IsWhole(r[k + 1])
    BY <2>3, <2>4, <2>6
  <2>7. QED BY <2>5, <2>6
<1>8. ASSUME NEW k \in Nat, k \in T
      PROVE  k + 1 \in T
  <2>1. k + 1 <= Len(r) => k <= Len(r)
    BY <1>1
  <2>2. k <= Len(r) => f[Len(s) + k] = u \o g[k]
    BY <1>8
  <2>3. k + 1 <= Len(r) => f[Len(s) + (k + 1)] = u \o g[k + 1]
    BY <1>7, <2>2
  <2>4. k + 1 \in Nat
    OBVIOUS
  <2>5. QED BY <2>3, <2>4
<1> HIDE DEF T
<1>9. Len(r) \in T
  BY <1>1, <1>6, <1>8, Induction
<1>10. f[Len(c)] = u \o g[Len(r)]
  BY <1>1, <1>9 DEF T
<1>11. QED BY <1>10 DEF MsgOf, c, f, g, u

\* The messages of a prefix are a prefix of the messages.
LEMMA MsgOfCut ==
    ASSUME NEW s \in Seq(Cells), NEW k \in 0 .. Len(s)
    PROVE  LET p == MsgOf(SubSeq(s, 1, k))
           IN Len(p) \in 0 .. Len(MsgOf(s)) /\ p = SubSeq(MsgOf(s), 1, Len(p))
<1> DEFINE a == SubSeq(s, 1, k)
           b == SubSeq(s, k + 1, Len(s))
           p == MsgOf(a)
           q == MsgOf(b)
<1>1. a \in Seq(Cells) /\ b \in Seq(Cells) /\ Len(s) \in Nat
  BY SubSeqProperties
<1>2. a \o b = s
  <2>1. 1 \in 1 .. Len(s) + 1 /\ k \in 1 - 1 .. Len(s) /\ Len(s) \in k .. Len(s)
    BY <1>1
  <2>2. a \o b = SubSeq(s, 1, Len(s))
    BY <2>1, ConcatAdjacentSubSeq, Zenon
  <2>3. QED BY <2>2, SubSeqFull
<1>3. MsgOf(s) = p \o q
  BY <1>1, <1>2, MsgOfConcat
<1>4. p \in Seq(Msgs) /\ q \in Seq(Msgs)
  BY <1>1, MsgOfType
<1> HIDE DEF a, b, p, q
<1>5. /\ Len(p) \in Nat /\ Len(q) \in Nat /\ p \o q \in Seq(Msgs)
      /\ Len(p \o q) = Len(p) + Len(q) /\ \A i \in 1 .. Len(p) : (p \o q)[i] = p[i]
  BY <1>4, ConcatProperties
<1> DEFINE c == p \o q
<1> HIDE DEF c
<1>6. /\ SubSeq(c, 1, Len(p)) \in Seq(Msgs) /\ Len(SubSeq(c, 1, Len(p))) = Len(p)
      /\ \A i \in 1 .. Len(p) : SubSeq(c, 1, Len(p))[i] = p[i]
  BY <1>5, SubSeqProperties DEF c
<1>7. p = SubSeq(c, 1, Len(p))
  BY <1>4, <1>6, SeqEqual
<1>8. Len(p) \in 0 .. Len(c)
  BY <1>5 DEF c
<1>9. QED BY <1>3, <1>7, <1>8 DEF a, c, p

\* A longer prefix has no fewer messages.
LEMMA MsgOfGrows ==
    ASSUME NEW s \in Seq(Cells), NEW k \in 0 .. Len(s), NEW m \in k .. Len(s)
    PROVE  Len(MsgOf(SubSeq(s, 1, k))) <= Len(MsgOf(SubSeq(s, 1, m)))
<1> DEFINE r == SubSeq(s, 1, m)
<1>1. m \in Nat /\ k \in 0 .. m /\ r \in Seq(Cells) /\ Len(r) = m /\ \A i \in 1 .. m : r[i] = s[i]
  BY SubSeqProperties
<1>2. MsgOf(SubSeq(s, 1, k)) = MsgsUpTo(s)[k]
  BY MsgOfPrefix
<1> HIDE DEF r
<1>3. MsgOf(SubSeq(r, 1, k)) = MsgsUpTo(r)[k]
  BY <1>1, MsgOfPrefix
<1>4. MsgsUpTo(r)[k] = MsgsUpTo(s)[k]
  BY <1>1, UpToLocal
<1>5. Len(MsgOf(SubSeq(r, 1, k))) \in 0 .. Len(MsgOf(r))
  BY <1>1, MsgOfCut
<1>6. Len(MsgOf(r)) \in Nat
  BY <1>1, MsgOfType
<1>7. QED BY <1>2, <1>3, <1>4, <1>5, <1>6 DEF r

-----------------------------------------------------------------------------
(* The refinement of LogStore                                                 *)

\* A chunk has been written and not yet cleared.
Written == \E t \in Threads : pc[t] = "clear"

\* The part of Done that the kernel has.
Reached == IF saved < Len(Done) THEN saved ELSE Len(Done)

\* The stream ends with Done or, while Written, with the cache behind it.
LEMMA DoneIs ==
    ASSUME TypeOK, ChunkInv
    PROVE  /\ Done \in Seq(Cells) /\ cache \in Seq(Cells) /\ stream \in Seq(Cells)
           /\ Len(Done) \in 0 .. Len(stream)
           /\ Done = SubSeq(stream, 1, Len(Done))
           /\ ~Written => Done = stream
           /\ Written => stream = Done \o cache /\ Len(Done) = Len(stream) - Len(cache)
<1>1. stream \in Seq(Cells) /\ Len(stream) \in Nat /\ cache \in Seq(Cells) /\ Len(cache) \in Nat
  BY DEF TypeOK, Cells
<1>2. CASE ~Written
  <2>1. Done = stream
    BY <1>2 DEF Done, Written
  <2>2. QED BY <1>1, <1>2, <2>1, SubSeqFull
<1>3. CASE Written
  <2> DEFINE l == Len(stream) - Len(cache)
             d == SubSeq(stream, 1, l)
             c == d \o cache
  <2>1. Done = d
    BY <1>3 DEF Done, Written
  <2>2. PICK t \in Threads : pc[t] = "clear"
    BY <1>3 DEF Written
  <2>3. /\ size = Len(cache) /\ size <= Len(stream)
        /\ \A i \in 1 .. size : stream[Len(stream) - size + i] = cache[i]
    BY <2>2 DEF ChunkInv
  <2>4. l \in 0 .. Len(stream) /\ \A i \in 1 .. Len(cache) : stream[l + i] = cache[i]
    BY <1>1, <2>3
  <2>5. d \in Seq(Cells) /\ Len(d) = l /\ \A i \in 1 .. l : d[i] = stream[i]
    BY <1>1, <2>4, SubSeqProperties
  <2> HIDE DEF d
  <2>6. /\ c \in Seq(Cells) /\ Len(c) = l + Len(cache)
        /\ \A i \in 1 .. l + Len(cache) : c[i] = IF i <= l THEN d[i] ELSE cache[i - l]
    BY <1>1, <2>5, ConcatProperties
  <2>7. Len(c) = Len(stream)
    BY <1>1, <2>6
  <2>8. ASSUME NEW i \in 1 .. Len(c)
        PROVE  c[i] = stream[i]
    <3>1. CASE i <= l
      BY <2>4, <2>5, <2>6, <3>1
    <3>2. CASE i > l
      <4>1. i - l \in 1 .. Len(cache) /\ l + (i - l) = i
        BY <1>1, <2>4, <2>6, <3>2
      <4>2. stream[i] = cache[i - l]
        BY <2>4, <4>1
      <4>3. i \in 1 .. l + Len(cache) /\ ~(i <= l)
        BY <2>4, <2>6, <3>2
      <4>4. QED BY <2>6, <4>2, <4>3
    <3>3. QED BY <2>4, <3>1, <3>2
  <2> HIDE DEF c
  <2>9. c = stream
    BY <1>1, <2>6, <2>7, <2>8, SeqEqual
  <2>10. stream = Done \o cache
    BY <2>1, <2>9 DEF c
  <2>11. Done = SubSeq(stream, 1, Len(Done)) /\ Len(Done) = l
    BY <2>1, <2>5 DEF d
  <2>12. QED BY <1>1, <1>3, <2>1, <2>4, <2>5, <2>10, <2>11
<1>4. QED BY <1>2, <1>3

\* What is durable are the messages of a prefix of the stream.
LEMMA SavedIs ==
    ASSUME TypeOK, ChunkInv
    PROVE  /\ Reached \in 0 .. Len(Done) /\ Reached <= saved /\ saved \in 0 .. Len(stream)
           /\ DoneSaved = SubSeq(Done, 1, Reached)
           /\ DoneSaved = SubSeq(stream, 1, Reached)
<1>1. /\ Done \in Seq(Cells) /\ stream \in Seq(Cells) /\ Len(Done) \in 0 .. Len(stream)
      /\ Done = SubSeq(stream, 1, Len(Done)) /\ Len(stream) \in Nat
  BY DoneIs
<1>2. saved \in 0 .. Len(stream)
  BY DEF TypeOK
<1>3. Reached \in 0 .. Len(Done) /\ Reached <= saved
  BY <1>1, <1>2 DEF Reached
<1>4. DoneSaved = SubSeq(Done, 1, Reached)
  BY DEF DoneSaved, Reached
<1> DEFINE a == SubSeq(Done, 1, Reached)
           b == SubSeq(stream, 1, Reached)
<1>5. \A i \in 1 .. Len(Done) : Done[i] = stream[i]
  <2>1. \A i \in 1 .. Len(Done) : SubSeq(stream, 1, Len(Done))[i] = stream[i]
    BY <1>1
  <2>2. QED BY <1>1, <2>1
<1>6. a \in Seq(Cells) /\ Len(a) = Reached /\ \A i \in 1 .. Reached : a[i] = Done[i]
  BY <1>1, <1>3, SubSeqProperties
<1>7. b \in Seq(Cells) /\ Len(b) = Reached /\ \A i \in 1 .. Reached : b[i] = stream[i]
  BY <1>1, <1>3, SubSeqProperties
<1> HIDE DEF a, b
<1>8. \A i \in 1 .. Len(a) : a[i] = b[i]
  BY <1>1, <1>3, <1>5, <1>6, <1>7
<1>9. a = b
  BY <1>6, <1>7, <1>8, SeqEqual
<1>10. QED BY <1>2, <1>3, <1>4, <1>9 DEF a, b

\* When the stream grows and the kernel has no less of it, it has no fewer
\* messages.
LEMMA DurableGrows ==
    ASSUME NEW s \in Seq(Cells), NEW r \in Seq(Cells),
           NEW k \in 0 .. Len(s), NEW m \in k .. Len(s \o r)
    PROVE  Len(MsgOf(SubSeq(s \o r, 1, m))) \in
              Len(MsgOf(SubSeq(s, 1, k))) .. Len(MsgOf(s \o r))
<1> DEFINE c == s \o r
<1>1. /\ c \in Seq(Cells) /\ Len(c) = Len(s) + Len(r) /\ Len(s) \in Nat /\ Len(r) \in Nat
      /\ \A i \in 1 .. Len(s) : c[i] = s[i]
  BY ConcatProperties
<1>2. /\ k \in 0 .. Len(s) /\ k \in 0 .. Len(c) /\ m \in k .. Len(c) /\ m \in 0 .. Len(c)
      /\ k \in Nat /\ k <= Len(s) /\ k <= Len(c) /\ \A i \in 1 .. k : i \in 1 .. Len(s)
  BY <1>1
<1> HIDE DEF c
<1>3. MsgOf(SubSeq(s, 1, k)) = MsgsUpTo(s)[k] /\ MsgOf(SubSeq(c, 1, k)) = MsgsUpTo(c)[k]
  BY <1>1, <1>2, MsgOfPrefix
<1>4. MsgsUpTo(s)[k] = MsgsUpTo(c)[k]
  BY <1>1, <1>2, UpToLocal
<1>5. Len(MsgOf(SubSeq(c, 1, k))) <= Len(MsgOf(SubSeq(c, 1, m)))
  BY <1>1, <1>2, MsgOfGrows
<1>6. Len(MsgOf(SubSeq(c, 1, m))) \in 0 .. Len(MsgOf(c))
  BY <1>1, <1>2, MsgOfCut
<1>7. Len(MsgOf(c)) \in Nat /\ Len(MsgsUpTo(s)[k]) \in Nat
  BY <1>1, <1>2, MsgOfType, UpToType
<1>8. QED BY <1>3, <1>4, <1>5, <1>6, <1>7 DEF c

\* The store of a state in which what it is made of is the same.
LEMMA SameStore ==
    ASSUME UNCHANGED <<sink, cache, stream, saved>>, Written' = Written
    PROVE  UNCHANGED Store!svars
<1>1. Done' = Done
  BY Zenon DEF Done, Written
<1>2. DoneSaved' = DoneSaved
  BY <1>1 DEF DoneSaved
<1>3. QED BY <1>1, <1>2 DEF Store!svars, MsgOf, MsgsUpTo, IsWhole

\* PushHeader: an item without its body is none yet.
LEMMA HeaderStutters ==
    ASSUME TypeOK, MutexInv, CallInv, NEW t \in Threads, PushHeader(t)
    PROVE  UNCHANGED Store!svars
<1>1. cache \in Seq(Cells)
  BY DEF TypeOK, Cells
<1> DEFINE c == [kind |-> "item", msg |-> msg[t], run |-> session,
                 whole |-> FALSE, text |-> KeepsText]
<1>2. c \in Cells /\ ~IsWhole(c)
  BY DEF TypeOK, PushHeader, CallInv, KeepsText, Items, Cells, IsWhole
<1>3. cache' = Append(cache, c) /\ sink' = sink /\ stream' = stream /\ saved' = saved
  BY DEF PushHeader, fileVars
<1> HIDE DEF c
<1>4. MsgOf(Append(cache, c)) = MsgOf(cache)
  BY <1>1, <1>2, MsgOfAppend
<1>5. ~Written /\ ~Written'
  BY OneHolder DEF TypeOK, PushHeader, Goto, Written, Held
<1>6. Done = stream /\ Done' = stream
  BY <1>3, <1>5 DEF Done, Written
<1>7. Done' = Done /\ DoneSaved' = DoneSaved
  BY <1>3, <1>6 DEF DoneSaved
<1>8. MsgOf(cache)' = MsgOf(cache)
  BY <1>3, <1>4 DEF MsgOf, MsgsUpTo, IsWhole
<1>9. QED BY <1>3, <1>7, <1>8, ZenonT(30) DEF Store!svars, MsgOf, MsgsUpTo, IsWhole

LEMMA PrefixIs ==
    ASSUME NEW S, NEW s \in Seq(S), NEW k \in 0 .. Len(s)
    PROVE  /\ SubSeq(s, 1, k) \in Seq(S) /\ Len(SubSeq(s, 1, k)) = k
           /\ \A i \in 1 .. k : SubSeq(s, 1, k)[i] = s[i]
  OBVIOUS

\* PushBody: the item that was last and not whole is a message now.
LEMMA BodyAccepts ==
    ASSUME TypeOK, MutexInv, CallInv, CacheInv, NEW t \in Threads, PushBody(t)
    PROVE  Store!SAccept
<1> DEFINE n == Len(cache)
           p == SubSeq(cache, 1, n - 1)
           a == cache[n]
           b == [a EXCEPT !.whole = TRUE]
<1>1. cache \in Seq(Items) /\ cache # <<>> /\ n \in Nat \ {0} /\ n \in 1 .. n
  BY DEF TypeOK, CacheInv, PushBody
<1>2. a \in Items /\ a.msg = msg[t] /\ ~a.whole /\ msg[t] \in Msgs
  BY <1>1 DEF CacheInv, CallInv, PushBody
<1>3. b \in Items /\ b.msg = msg[t] /\ b.whole /\ b.kind = "item"
  BY <1>2 DEF Items
<1>4. a \in Cells /\ b \in Cells /\ ~IsWhole(a) /\ IsWhole(b)
  BY <1>2, <1>3 DEF Cells, IsWhole
<1>5. p \in Seq(Items) /\ p \in Seq(Cells) /\ Len(p) = n - 1 /\ \A i \in 1 .. n - 1 : p[i] = cache[i]
  <2>1. n - 1 \in 0 .. n
    BY <1>1
  <2>2. p \in Seq(Items) /\ Len(p) = n - 1 /\ \A i \in 1 .. n - 1 : p[i] = cache[i]
    BY <1>1, <2>1, PrefixIs
  <2>3. p \in Seq(Cells)
    BY <2>2 DEF Cells
  <2>4. QED BY <2>2, <2>3
<1>6. cache' = [cache EXCEPT ![n] = b]
  BY DEF PushBody
<1> HIDE DEF p, a, b
<1>7. cache = Append(p, a)
  <2>1. /\ Append(p, a) \in Seq(Items) /\ Len(Append(p, a)) = n
        /\ \A i \in 1 .. n - 1 : Append(p, a)[i] = p[i]
        /\ Append(p, a)[n] = a
    BY <1>1, <1>2, <1>5, AppendProperties
  <2>2. \A i \in 1 .. n : Append(p, a)[i] = cache[i]
    BY <1>1, <1>5, <2>1 DEF a
  <2>3. QED BY <1>1, <2>1, <2>2, SeqEqual
<1>8. cache' = Append(p, b)
  <2>1. /\ Append(p, b) \in Seq(Items) /\ Len(Append(p, b)) = n
        /\ \A i \in 1 .. n - 1 : Append(p, b)[i] = p[i]
        /\ Append(p, b)[n] = b
    BY <1>1, <1>3, <1>5, AppendProperties
  <2>2. /\ cache' \in Seq(Items) /\ Len(cache') = n /\ cache'[n] = b
        /\ \A i \in 1 .. n - 1 : cache'[i] = cache[i]
    BY <1>1, <1>3, <1>6, ExceptSeq
  <2>3. \A i \in 1 .. n : Append(p, b)[i] = cache'[i]
    BY <1>1, <1>5, <2>1, <2>2
  <2>4. QED BY <2>1, <2>2, <2>3, SeqEqual
<1>9. MsgOf(cache) = MsgOf(p)
  BY <1>4, <1>5, <1>7, MsgOfAppend
<1>10. MsgOf(cache') = Append(MsgOf(p), msg[t])
  BY <1>3, <1>4, <1>5, <1>8, MsgOfAppend
<1>11. sink' = sink /\ stream' = stream /\ saved' = saved
  BY DEF PushBody, fileVars
<1>12. ~Written /\ ~Written'
  BY OneHolder DEF TypeOK, PushBody, Goto, Written, Held
<1>13. Done' = Done
  BY <1>11, <1>12 DEF Done, Written
<1>14. DoneSaved' = DoneSaved
  BY <1>11, <1>13 DEF DoneSaved
<1>15. /\ MsgOf(cache)' = Append(MsgOf(cache), msg[t])
       /\ MsgOf(Done)' = MsgOf(Done) /\ MsgOf(DoneSaved)' = MsgOf(DoneSaved)
  BY <1>9, <1>10, <1>13, <1>14, ZenonT(30) DEF MsgOf, MsgsUpTo, IsWhole
<1>16. QED BY <1>2, <1>11, <1>15 DEF Store!SAccept

\* BeginChunk: the kernel may have more of the file than before.
LEMMA BeginSyncs ==
    ASSUME TypeOK, MutexInv, ChunkInv, FileInv, NEW t \in Threads, BeginChunk(t)
    PROVE  Store!SSync
<1> DEFINE h == [kind |-> "header", run |-> session, size |-> size']
<1>1. stream \in Seq(Cells) /\ cache \in Seq(Cells) /\ saved \in 0 .. Len(stream)
  BY DEF TypeOK, Cells
<1>2. stream' = Append(stream, h) /\ cache' = cache /\ sink' = sink
  BY DEF BeginChunk
<1>3. h \in Cells /\ ~IsWhole(h)
  BY DEF TypeOK, BeginChunk, Headers, Cells, IsWhole
<1>4. saved' \in saved .. Len(stream)
  <2>1. OpenFile \/ \E k \in saved .. Len(stream) : KeepFile(k) \/ RotateFile(k)
    BY DEF BeginChunk
  <2>2. QED BY <1>1, <2>1 DEF OpenFile, KeepFile, RotateFile
<1>5. ~Written /\ ~Written'
  BY OneHolder DEF TypeOK, BeginChunk, Goto, Written, Held
<1> HIDE DEF h
<1>6. Done = stream /\ Done' = stream'
  BY <1>5 DEF Done, Written
<1>7. stream' = stream \o <<h>> /\ <<h>> \in Seq(Cells) /\ Len(stream') = Len(stream) + 1
  BY <1>1, <1>2, <1>3, AppendIsConcat, AppendProperties
<1>8. DoneSaved = SubSeq(stream, 1, saved) /\ DoneSaved' = SubSeq(stream', 1, saved')
  <2>1. saved <= Len(stream) /\ saved' < Len(stream')
    BY <1>1, <1>4, <1>7
  <2>2. DoneSaved' = SubSeq(stream', 1, saved')
    BY <1>6, <2>1 DEF DoneSaved
  <2>3. DoneSaved = SubSeq(stream, 1, saved)
    BY <1>1, <1>6, <2>1 DEF DoneSaved
  <2>4. QED BY <2>2, <2>3
<1>9. saved' \in saved .. Len(stream')
  BY <1>1, <1>4, <1>7
<1>10. Len(MsgOf(SubSeq(stream', 1, saved'))) \in
          Len(MsgOf(SubSeq(stream, 1, saved))) .. Len(MsgOf(stream'))
  BY <1>1, <1>7, <1>9, DurableGrows
<1>11. MsgOf(stream') = MsgOf(stream)
  BY <1>1, <1>2, <1>3, MsgOfAppend
<1>12. /\ MsgOf(cache)' = MsgOf(cache) /\ MsgOf(Done)' = MsgOf(Done)
       /\ MsgOf(Done)' = MsgOf(stream') /\ MsgOf(DoneSaved)' = MsgOf(SubSeq(stream', 1, saved'))
  <2>1. MsgOf(cache)' = MsgOf(cache)
    BY <1>2 DEF MsgOf, MsgsUpTo, IsWhole
  <2>2. MsgOf(Done)' = MsgOf(stream')
    BY <1>6 DEF MsgOf, MsgsUpTo, IsWhole
  <2>3. MsgOf(Done) = MsgOf(stream)
    BY <1>6
  <2>4. MsgOf(DoneSaved)' = MsgOf(SubSeq(stream', 1, saved'))
    BY <1>8 DEF MsgOf, MsgsUpTo, IsWhole
  <2>5. QED BY <1>11, <2>1, <2>2, <2>3, <2>4
<1>13. QED BY <1>2, <1>8, <1>10, <1>12 DEF Store!SSync, Store!Synced

\* WriteData: what is in the file now is still in the cache as well.
LEMMA DataSyncs ==
    ASSUME TypeOK, MutexInv, ChunkInv, NEW t \in Threads, WriteData(t)
    PROVE  Store!SSync
<1>1. stream \in Seq(Cells) /\ cache \in Seq(Cells) /\ saved \in 0 .. Len(stream)
  BY DEF TypeOK, Cells
<1>2. stream' = stream \o cache /\ cache' = cache /\ sink' = sink
  BY DEF WriteData
<1>3. Len(stream') = Len(stream) + Len(cache) /\ Len(stream) \in Nat /\ Len(cache) \in Nat
  BY <1>1, <1>2, ConcatProperties
<1>4. saved' >= saved /\ saved' \in Nat
  BY <1>1, <1>3 DEF WriteData
<1>5. ~Written
  BY OneHolder DEF TypeOK, WriteData, Written, Held
<1>6. Written'
  BY DEF TypeOK, WriteData, Goto, Written
<1>7. Done = stream
  BY <1>5 DEF Done, Written
<1>8. Done' = SubSeq(stream', 1, Len(stream') - Len(cache'))
  BY <1>6 DEF Done, Written
<1>9. Done' = stream
  <2>1. Done' = SubSeq(stream \o cache, 1, Len(stream))
    BY <1>2, <1>3, <1>8
  <2>2. /\ stream \o cache \in Seq(Cells)
        /\ \A i \in 1 .. Len(stream) : (stream \o cache)[i] = stream[i]
    BY <1>1, ConcatProperties
  <2>3. /\ SubSeq(stream \o cache, 1, Len(stream)) \in Seq(Cells)
        /\ Len(SubSeq(stream \o cache, 1, Len(stream))) = Len(stream)
        /\ \A i \in 1 .. Len(stream) : SubSeq(stream \o cache, 1, Len(stream))[i] = stream[i]
    <3>1. \A i \in 1 .. Len(stream) : (stream \o cache)[i] \in Cells
      BY <1>1, <2>2
    <3>2. QED BY <1>3, <2>2, <3>1, SubSeqProperties
  <2>4. QED BY <1>1, <2>1, <2>3, SeqEqual
<1> DEFINE m == IF saved' < Len(stream) THEN saved' ELSE Len(stream)
<1>10. DoneSaved = SubSeq(stream, 1, saved)
  BY <1>1, <1>7 DEF DoneSaved
<1>11. DoneSaved' = SubSeq(stream, 1, m)
  BY <1>9 DEF DoneSaved
<1>12. m \in saved .. Len(stream)
  BY <1>1, <1>4
<1> HIDE DEF m
<1>13. stream \o <<>> = stream /\ <<>> \in Seq(Cells)
  BY <1>1, ConcatEmptySeq, EmptySeq
<1>14. Len(MsgOf(SubSeq(stream, 1, m))) \in
          Len(MsgOf(SubSeq(stream, 1, saved))) .. Len(MsgOf(stream))
  BY <1>1, <1>12, <1>13, DurableGrows
<1>15. /\ MsgOf(cache)' = MsgOf(cache) /\ MsgOf(Done)' = MsgOf(Done)
       /\ MsgOf(Done)' = MsgOf(stream) /\ MsgOf(DoneSaved)' = MsgOf(SubSeq(stream, 1, m))
  BY <1>2, <1>7, <1>9, <1>11 DEF MsgOf, MsgsUpTo, IsWhole
<1>16. QED BY <1>2, <1>10, <1>14, <1>15 DEF Store!SSync, Store!Synced

\* ClearCache: from here on the messages are in the file only.
LEMMA ClearWrites ==
    ASSUME TypeOK, MutexInv, ChunkInv, NEW t \in Threads, ClearCache(t)
    PROVE  Store!SWrite
<1>1. /\ Done \in Seq(Cells) /\ cache \in Seq(Cells) /\ stream \in Seq(Cells)
      /\ stream = Done \o cache /\ Len(Done) \in Nat
  BY DoneIs DEF ClearCache, Written
<1>2. cache' = <<>> /\ stream' = stream /\ saved' = saved /\ sink' = sink
  BY DEF ClearCache, Clear, fileVars
<1>3. \A u \in Threads \ {t} : pc[u] # "clear"
  BY OneHolder DEF ClearCache, Held
<1>4. ~Written'
  BY <1>3 DEF TypeOK, ClearCache, Written
<1>5. Done' = stream
  BY <1>2, <1>4 DEF Done, Written
<1>6. /\ Reached \in 0 .. Len(Done) /\ Reached <= saved /\ saved \in 0 .. Len(stream)
      /\ DoneSaved = SubSeq(Done, 1, Reached)
  BY SavedIs
<1>7. DoneSaved' = SubSeq(stream, 1, saved)
  BY <1>2, <1>5, <1>6 DEF DoneSaved
<1>8. saved \in Reached .. Len(Done \o cache)
  BY <1>1, <1>6
<1>9. Len(MsgOf(SubSeq(stream, 1, saved))) \in
         Len(MsgOf(SubSeq(Done, 1, Reached))) .. Len(MsgOf(stream))
  BY <1>1, <1>6, <1>8, DurableGrows
<1>10. MsgOf(stream) = MsgOf(Done) \o MsgOf(cache)
  BY <1>1, MsgOfConcat
<1>11. MsgOf(cache) \in Seq(Msgs) /\ Len(MsgOf(cache)) \in Nat
  BY <1>1, MsgOfType
<1>12. /\ SubSeq(MsgOf(cache), 1, Len(MsgOf(cache))) = MsgOf(cache)
       /\ SubSeq(MsgOf(cache), Len(MsgOf(cache)) + 1, Len(MsgOf(cache))) = <<>>
  BY <1>11, SubSeqFull, SubSeqEmpty
<1>13. MsgOf(cache') = <<>>
  BY <1>2, MsgOfEmpty
<1>14. /\ MsgOf(cache)' = <<>> /\ MsgOf(Done)' = MsgOf(stream)
       /\ MsgOf(DoneSaved)' = MsgOf(SubSeq(stream, 1, saved))
  BY <1>5, <1>7, <1>13 DEF MsgOf, MsgsUpTo, IsWhole
<1>15. Store!Synced
  BY <1>6, <1>9, <1>14 DEF Store!Synced
<1>16. Len(MsgOf(cache)) \in 0 .. Len(MsgOf(cache))
  BY <1>11
<1>17. /\ MsgOf(Done)' = MsgOf(Done) \o SubSeq(MsgOf(cache), 1, Len(MsgOf(cache)))
       /\ MsgOf(cache)' = SubSeq(MsgOf(cache), Len(MsgOf(cache)) + 1, Len(MsgOf(cache)))
  BY <1>10, <1>12, <1>14
<1>18. QED BY <1>2, <1>15, <1>16, <1>17 DEF Store!SWrite

\* While a chunk is not cleared, the process ends behind it or before its items.
LEMMA CutOutside ==
    ASSUME TypeOK, ChunkInv, Written, NEW k \in saved .. Len(stream), WriteBoundary(k)
    PROVE  k = Len(stream) \/ k <= Len(Done)
<1>1. /\ stream = Done \o cache /\ Done \in Seq(Cells) /\ cache \in Seq(Cells)
      /\ Len(Done) \in Nat /\ Len(stream) \in Nat
  BY DoneIs
<1>2. Len(stream) = Len(Done) + Len(cache) /\ \A i \in 1 .. Len(cache) : stream[Len(Done) + i] = cache[i]
  BY <1>1, ConcatProperties
<1>3. k \in 0 .. Len(stream)
  BY DEF TypeOK
<1>4. ASSUME NEW i \in 1 .. Len(stream), i > Len(Done)
      PROVE  ~IsHeader(i)
  <2>1. i - Len(Done) \in 1 .. Len(cache) /\ Len(Done) + (i - Len(Done)) = i
    BY <1>1, <1>2, <1>4
  <2>2. stream[i] = cache[i - Len(Done)]
    BY <1>2, <2>1
  <2>3. stream[i].kind = "item"
    BY <2>1, <2>2, ItemIs
  <2>4. QED BY <2>3 DEF IsHeader
<1>5. ASSUME k # Len(stream), k > Len(Done)
      PROVE  FALSE
  <2> DEFINE n == Len(stream)
             m == Len(Done)
  <2>1. n \in Nat /\ m \in Nat /\ k \in 0 .. n /\ k # n /\ k > m
    BY <1>1, <1>3, <1>5
  <2> HIDE DEF n, m
  <2>2. k \in 1 .. n /\ k + 1 \in 1 .. n /\ k + 1 > m
    BY <2>1
  <2>3. ~IsHeader(k) /\ ~IsHeader(k + 1)
    BY <1>4, <2>1, <2>2 DEF n, m
  <2>4. QED BY <1>5, <2>3 DEF WriteBoundary
<1>6. QED BY <1>1, <1>3, <1>5

\* The end of the process takes an end of the file, or repeats the buffer.
LEMMA RestartDies ==
    ASSUME TypeOK, ChunkInv, NEW k \in saved .. Len(stream), WriteBoundary(k), Restart(k)
    PROVE  Store!SDie
<1>1. /\ Done \in Seq(Cells) /\ cache \in Seq(Cells) /\ stream \in Seq(Cells)
      /\ Len(Done) \in 0 .. Len(stream) /\ Len(stream) \in Nat
      /\ Done = SubSeq(stream, 1, Len(Done)) /\ (~Written => Done = stream)
      /\ (Written => stream = Done \o cache)
  BY DoneIs
<1>2. /\ Reached \in 0 .. Len(Done) /\ Reached <= saved /\ saved \in 0 .. Len(stream)
      /\ DoneSaved = SubSeq(stream, 1, Reached)
  BY SavedIs
<1> DEFINE s == SubSeq(stream, 1, k)
<1>3. stream' = s /\ saved' = k /\ sink' = sink /\ cache' = IF sink = "mmap" THEN cache ELSE <<>>
  BY DEF Restart
<1>4. s \in Seq(Cells) /\ Len(s) = k /\ k \in Nat /\ k \in 0 .. Len(stream)
  BY <1>1, <1>2, SubSeqProperties
<1> HIDE DEF s
<1>5. ~Written'
  BY DEF Restart, Written
<1>6. Done' = s
  BY <1>3, <1>5 DEF Done, Written
<1>7. DoneSaved' = s
  <2>1. DoneSaved' = SubSeq(s, 1, k)
    BY <1>3, <1>4, <1>6 DEF DoneSaved
  <2>2. QED BY <1>4, <2>1, SubSeqFull
<1>8. MsgOf(Done)' = MsgOf(s) /\ MsgOf(DoneSaved)' = MsgOf(s)
  BY <1>6, <1>7 DEF MsgOf, MsgsUpTo, IsWhole
<1>9. MsgOf(cache)' = IF sink = "mmap" THEN MsgOf(cache) ELSE <<>>
  <2>1. CASE sink = "mmap"
    BY <1>3, <2>1 DEF MsgOf, MsgsUpTo, IsWhole
  <2>2. CASE sink # "mmap"
    <3>1. cache' = <<>>
      BY <1>3, <2>2
    <3>2. MsgOf(cache)' = MsgOf(<<>>)
      BY <3>1 DEF MsgOf, MsgsUpTo, IsWhole
    <3>3. QED BY <2>2, <3>2, MsgOfEmpty
  <2>3. QED BY <2>1, <2>2
<1>10. \/ \E j \in Len(MsgOf(DoneSaved)) .. Len(MsgOf(Done)) : MsgOf(s) = SubSeq(MsgOf(Done), 1, j)
       \/ MsgOf(s) = MsgOf(Done) \o MsgOf(cache)
  <2>1. CASE k <= Len(Done)
    <3>1. k \in 0 .. Len(Done) /\ k \in Reached .. Len(stream) /\ Reached \in 0 .. Len(stream)
      BY <1>1, <1>2, <1>4, <2>1
    <3>2. s = SubSeq(Done, 1, k)
      <4>1. \A i \in 1 .. Len(Done) : Done[i] = stream[i]
        <5>1. \A i \in 1 .. Len(Done) : SubSeq(stream, 1, Len(Done))[i] = stream[i]
          BY <1>1
        <5>2. QED BY <1>1, <5>1
      <4>2. /\ SubSeq(Done, 1, k) \in Seq(Cells) /\ Len(SubSeq(Done, 1, k)) = k
            /\ \A i \in 1 .. k : SubSeq(Done, 1, k)[i] = Done[i]
        BY <1>1, <3>1, SubSeqProperties
      <4>3. \A i \in 1 .. k : s[i] = stream[i] /\ i \in 1 .. Len(Done)
        BY <1>1, <1>4, <3>1 DEF s
      <4>4. \A i \in 1 .. k : s[i] = SubSeq(Done, 1, k)[i]
        BY <4>1, <4>2, <4>3
      <4>5. QED BY <1>4, <4>2, <4>4, SeqEqual
    <3>3. /\ Len(MsgOf(s)) \in 0 .. Len(MsgOf(Done))
          /\ MsgOf(s) = SubSeq(MsgOf(Done), 1, Len(MsgOf(s)))
      BY <1>1, <3>1, <3>2, MsgOfCut
    <3>4. Len(MsgOf(DoneSaved)) <= Len(MsgOf(s))
      BY <1>1, <1>2, <3>1, MsgOfGrows DEF s
    <3>5. Len(MsgOf(DoneSaved)) \in Nat /\ Len(MsgOf(Done)) \in Nat
      <4>1. DoneSaved \in Seq(Cells)
        BY <1>1, <1>2, <3>1, SubSeqProperties
      <4>2. QED BY <1>1, <4>1, MsgOfType
    <3>6. Len(MsgOf(s)) \in Len(MsgOf(DoneSaved)) .. Len(MsgOf(Done))
      BY <3>3, <3>4, <3>5
    <3>7. QED BY <3>3, <3>6
  <2>2. CASE k > Len(Done)
    <3>1. Written
      BY <1>1, <1>4, <2>2
    <3>2. k = Len(stream)
      BY <1>1, <1>4, <2>2, <3>1, CutOutside
    <3>3. s = Done \o cache
      BY <1>1, <3>1, <3>2, SubSeqFull DEF s
    <3>4. QED BY <1>1, <3>3, MsgOfConcat
  <2>3. QED BY <1>1, <1>4, <2>1, <2>2
<1>11. /\ \/ \E j \in Len(MsgOf(DoneSaved)) .. Len(MsgOf(Done)) :
                MsgOf(Done)' = SubSeq(MsgOf(Done), 1, j)
          \/ MsgOf(Done)' = MsgOf(Done) \o MsgOf(cache)
       /\ Len(MsgOf(DoneSaved))' = Len(MsgOf(Done)')
  BY <1>8, <1>10
<1>12. QED BY <1>3, <1>9, <1>11 DEF Store!SDie

\* Every step is one of the store, or none.
LEMMA StoreStep ==
    ASSUME IInv, [Next]_vars
    PROVE  [Store!SNext]_(Store!svars)
<1> SUFFICES Store!SNext \/ UNCHANGED Store!svars
  OBVIOUS
<1> USE DEF IInv, Goto
<1>1. ASSUME UNCHANGED <<sink, cache, stream, saved>>,
             \A t \in Threads : pc'[t] = "clear" <=> pc[t] = "clear"
      PROVE  UNCHANGED Store!svars
  BY <1>1, SameStore DEF Written
<1>2. ASSUME NEW t \in Threads, LogCall(t) \/ FlushCall(t) \/ CallStep(t)
      PROVE  Store!SNext \/ UNCHANGED Store!svars
  <2>1. CASE PushHeader(t)
    BY <2>1, HeaderStutters
  <2>2. CASE PushBody(t)
    BY <2>2, BodyAccepts DEF Store!SNext
  <2>3. CASE BeginChunk(t)
    BY <2>3, BeginSyncs DEF Store!SNext
  <2>4. CASE WriteData(t)
    BY <2>4, DataSyncs DEF Store!SNext
  <2>5. CASE ClearCache(t)
    BY <2>5, ClearWrites DEF Store!SNext
  <2>6. CASE LogCall(t) \/ FlushCall(t) \/ Compress(t) \/ LogFails(t) \/ NeedWriteToFile(t)
    <3>1. UNCHANGED <<sink, cache, stream, saved>>
      BY <2>6 DEF LogCall, FlushCall, Compress, LogFails, NeedWriteToFile, fileVars
    <3>2. \A u \in Threads : pc'[u] = "clear" <=> pc[u] = "clear"
      BY <2>6 DEF LogCall, FlushCall, Compress, LogFails, NeedWriteToFile, Always, TypeOK
    <3>3. QED BY <1>1, <3>1, <3>2
  <2>7. QED BY <1>2, <2>1, <2>2, <2>3, <2>4, <2>5, <2>6 DEF CallStep
<1>3. CASE Construct
  <2>1. UNCHANGED <<sink, cache, stream, saved>>
    BY <1>3 DEF Construct, fileVars
  <2>2. \A t \in Threads : pc[t] # "clear"
    BY <1>3, Constants DEF Construct, CallInv, Constructing
  <2>3. \A t \in Threads : pc'[t] # "clear"
    BY <1>3, <2>2, Constants DEF Construct, TypeOK
  <2>4. QED BY <1>1, <2>1, <2>2, <2>3
<1>4. ASSUME NEW k \in saved .. Len(stream), WriteBoundary(k), Restart(k)
      PROVE  Store!SNext
  BY <1>4, RestartDies DEF Store!SNext
<1>5. CASE Close
  <2>1. Len(stream) \in saved .. Len(stream) /\ WriteBoundary(Len(stream))
    BY DEF TypeOK, WriteBoundary
  <2>2. QED BY <1>4, <1>5, <2>1 DEF Close
<1>6. CASE UNCHANGED vars
  BY <1>1, <1>6 DEF vars, fileVars, callVars
<1>7. QED BY <1>2, <1>3, <1>4, <1>5, <1>6, Actions

LEMMA InitStore == Init => Store!SInit
<1> SUFFICES ASSUME Init PROVE Store!SInit
  OBVIOUS
<1>1. cache = <<>> /\ stream = <<>> /\ saved = 0 /\ \A t \in Threads : pc[t] # "clear"
  BY DEF Init
<1>2. Done = <<>>
  BY <1>1 DEF Done
<1>3. DoneSaved = <<>>
  <2>1. SubSeq(<<>>, 1, 0) = <<>>
    BY SubSeqEmpty
  <2>2. QED BY <1>1, <1>2, <2>1 DEF DoneSaved
<1>4. MsgOf(cache) = <<>> /\ MsgOf(Done) = <<>> /\ Len(MsgOf(DoneSaved)) = 0
  BY <1>1, <1>2, <1>3, MsgOfEmpty
<1>5. (sink = "mmap") \in BOOLEAN
  OBVIOUS
<1>6. QED BY <1>4, <1>5 DEF Store!SInit

\* Each of the five sinks implements LogStore: WriteToCache_ accepts a message,
\* CacheToFile_ moves what is accepted to the file, in order and once each, and
\* only the end of the process takes any away, of those that the kernel does not
\* have, or repeats any.
THEOREM SinkIsStore == Spec => ImplementsStore
<1>1. IInv /\ [Next]_vars => [Store!SNext]_(Store!svars)
  BY StoreStep
<1>2. QED BY <1>1, InitStore, Invariance, PTL DEF Spec, ImplementsStore
=============================================================================
