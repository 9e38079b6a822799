------------------------------ MODULE SyncSink ------------------------------
(* The sinks without an executor (sinks/mmap_sink.cc, simple_sink.cc,         *)
(* protobuf_sink.cc, compress_sink.cc, crypto_sink.cc): Log puts an item into *)
(* the cache and, when that is over 80%, writes it to the log file itself.    *)
(* They share their code but for what Log does before WriteToCache_ and for   *)
(* the cache: a mapping, which outlives the process, or a MemoryBuffer.       *)
(*                                                                            *)
(* Everything that touches the cache or the file holds mtx_, but each Log     *)
(* takes it three times.  The process may end between any two steps.  (The    *)
(* operators named before the one the code has, such as NoLock, are the       *)
(* faults the properties must detect.)                                        *)
EXTENDS Naturals, Sequences, FiniteSets

CONSTANTS Threads,      \* threads that call Log and Flush
          Main,         \* the one that constructs the sink
          Sinks,        \* the sinks to look at, of SinkNames
          MaxMsgs,      \* bound: messages logged in a behaviour
          MaxFlushes,   \* bound: calls of Flush
          MaxSessions,  \* bound: runs of the process on the same directory
          Threshold,    \* a cache with more items than this is over 80%
          SingleSize,   \* conf_.single_size, in cells of the stream
          Fails,        \* the sinks whose transformation of a message may fail
          NoOne

SinkNames == {"mmap", "simple", "protobuf", "compress", "crypto"}

ASSUME SyncAssumption ==
    /\ IsFiniteSet(Threads)
    /\ Main \in Threads
    /\ Sinks \subseteq SinkNames
    /\ {MaxMsgs, MaxFlushes, MaxSessions, Threshold, SingleSize} \subseteq Nat
    /\ Fails \subseteq {"compress", "crypto"}
    /\ NoOne \notin Threads

Msgs == 1 .. MaxMsgs

\* An item in the cache or in the file.  whole is FALSE until its body is
\* pushed; text is FALSE when its bytes are not those of the message.
Items == [kind : {"item"}, msg : Msgs, run : Nat, whole : BOOLEAN, text : BOOLEAN]

\* A ChunkHeader and the number of items it announces.
Headers == [kind : {"header"}, run : Nat, size : Nat]

VARIABLES
    sink,      \* which sink this is
    cache,     \* mmap_ or cache_
    mtx,       \* the holder of mtx_ between two steps
    session,   \* which run of the process this is
    stream,    \* what went through ofs_, in this run and the earlier ones
    saved,     \* how much of it ofs_ has certainly handed to the kernel
    first,     \* where in the stream the current log file begins
    open,      \* ofs_.is_open()
    size,      \* chunk_header.size of the holder of mtx_
    pc, op, msg,  \* of each thread: where it is, its call, its message
    next,      \* history: the next message to be logged
    flushes,   \* history: calls of Flush
    accepted,  \* history: the messages this run has stored, in order
    promised   \* history: how many were accepted when the Flush began

fileVars == <<stream, saved, first, open, size>>
callVars == <<pc, op, msg>>
history  == <<next, flushes, accepted, promised>>
vars == <<sink, cache, mtx, session, fileVars, callVars, history>>

Init ==
    /\ sink \in Sinks
    /\ cache = <<>>
    /\ mtx = NoOne
    /\ session = 1
    /\ stream = <<>> /\ saved = 0 /\ first = 0 /\ open = FALSE /\ size = 0
    /\ pc = [t \in Threads |-> IF t = Main THEN "ctor" ELSE "down"]
    /\ op = [t \in Threads |-> "ctor"]
    /\ msg = [t \in Threads |-> 0]
    /\ next = 1 /\ flushes = 0
    /\ accepted = <<>> /\ promised = [t \in Threads |-> 0]

NoLock == TRUE
CanLock == mtx = NoOne

Goto(t, l) == pc' = [pc EXCEPT ![t] = l]

-----------------------------------------------------------------------------
(* Log                                                                        *)

\* Format.  CompressSink then compresses in a critical section of its own.
LogCall(t) ==
    /\ pc[t] = "idle"
    /\ next \in Msgs
    /\ next' = next + 1
    /\ msg' = [msg EXCEPT ![t] = next]
    /\ op' = [op EXCEPT ![t] = "log"]
    /\ Goto(t, IF sink = "compress" THEN "compress" ELSE "lock")
    /\ UNCHANGED <<sink, cache, mtx, session, fileVars>>
    /\ UNCHANGED <<flushes, accepted, promised>>

Compress(t) ==
    /\ pc[t] = "compress"
    /\ CanLock
    /\ Goto(t, "lock")
    /\ UNCHANGED <<sink, cache, mtx, session, fileVars, op, msg, history>>

\* Compress or Encrypt returns nothing, and Log returns.
LogFails(t) ==
    /\ sink \in Fails
    /\ pc[t] = IF sink = "compress" THEN "compress" ELSE "lock"
    /\ CanLock
    /\ Goto(t, "idle")
    /\ UNCHANGED <<sink, cache, mtx, session, fileVars, op, msg, history>>

\* MMapAux keeps what is pushed.  MemoryBuffer copies it behind its string and
\* then resizes the string, which fills the place with zeros; CompressSink
\* pushes a body of size 0 besides.
KeepsText == sink = "mmap"

\* WriteToCache_: the lock and the first Push (CryptoSink encrypts under it).
PushHeader(t) ==
    /\ pc[t] = "lock"
    /\ CanLock
    /\ mtx' = t
    /\ cache' = Append(cache, [kind |-> "item", msg |-> msg[t], run |-> session,
                               whole |-> FALSE, text |-> KeepsText])
    /\ Goto(t, "push")
    /\ UNCHANGED <<sink, session, fileVars, op, msg, history>>

\* The second Push; the lock is released.
PushBody(t) ==
    /\ pc[t] = "push"
    /\ cache' = [cache EXCEPT ![Len(cache)].whole = TRUE]
    /\ accepted' = Append(accepted, msg[t])
    /\ mtx' = NoOne
    /\ Goto(t, "need")
    /\ UNCHANGED <<sink, session, fileVars, op, msg, next, flushes, promised>>

\* NeedWriteToFile_, under a lock of its own.  The ratio is of the capacity, which
\* grows only when a push does not fit; Threshold is 80% of one that does not grow.
OnlyAtLimit == Len(cache) = Threshold + 1
OverLimit == Len(cache) > Threshold

NeedWriteToFile(t) ==
    /\ pc[t] = "need"
    /\ CanLock
    /\ Goto(t, IF OverLimit THEN "cache" ELSE "idle")
    /\ UNCHANGED <<sink, cache, mtx, session, fileVars, op, msg, history>>

-----------------------------------------------------------------------------
(* Flush, and CacheToFile_ for Log, Flush and the constructor                 *)

OnlyWhenFull == IF OverLimit THEN "cache" ELSE "idle"
Always == "cache"

FlushCall(t) ==
    /\ pc[t] = "idle"
    /\ flushes < MaxFlushes
    /\ flushes' = flushes + 1
    /\ promised' = [promised EXCEPT ![t] = Len(accepted)]
    /\ op' = [op EXCEPT ![t] = "flush"]
    /\ Goto(t, Always)
    /\ UNCHANGED <<sink, cache, mtx, session, fileVars, msg, next, accepted>>

\* std::filebuf never splits a write.
IsHeader(i) == i \in 1 .. Len(stream) /\ stream[i].kind = "header"
WriteBoundary(k) == k = Len(stream) \/ IsHeader(k) \/ IsHeader(k + 1)

\* The path is empty: a name with the time of day, which the last run may have
\* used as well.
OpenFile ==
    /\ ~open
    /\ first' \in {first, Len(stream)}
    /\ saved' = saved

\* GetFileSize sees the k - first cells that the kernel has of the file.
KeepFile(k) ==
    /\ open
    /\ k - first <= SingleSize
    /\ first' = first
    /\ saved' = k

\* The file is too long: it is closed, which empties the buffer of ofs_, and
\* another one is opened.
RotateFile(k) ==
    /\ open
    /\ k - first > SingleSize
    /\ first' = Len(stream)
    /\ saved' = Len(stream)

\* The lock, the size, the file, and ofs_.write of the ChunkHeader.
BeginChunk(t) ==
    /\ pc[t] = "cache"
    /\ CanLock
    /\ mtx' = t
    /\ size' = Len(cache)
    /\ \/ OpenFile
       \/ \E k \in saved .. Len(stream) :
             WriteBoundary(k) /\ (KeepFile(k) \/ RotateFile(k))
    /\ open' = TRUE
    /\ stream' = Append(stream, [kind |-> "header", run |-> session, size |-> size'])
    /\ Goto(t, "data")
    /\ UNCHANGED <<sink, cache, session, op, msg, history>>

\* ofs_.write of the data.  A write of 1 KB or more, and a cache over 80% is
\* one, empties the buffer of std::filebuf into the kernel; a smaller one may
\* stay in it.
WriteData(t) ==
    /\ pc[t] = "data"
    /\ stream' = stream \o cache
    /\ saved' = IF size > Threshold THEN Len(stream') ELSE saved
    /\ Goto(t, "clear")
    /\ UNCHANGED <<sink, cache, mtx, session, first, open, size, op, msg, history>>

\* Clear, and the return, which releases the lock.
NotCleared == cache' = cache
Clear == cache' = <<>>

ClearCache(t) ==
    /\ pc[t] = "clear"
    /\ Clear
    /\ mtx' = NoOne
    /\ pc' = IF op[t] = "ctor" THEN [u \in Threads |-> "idle"] ELSE [pc EXCEPT ![t] = "idle"]
    /\ UNCHANGED <<sink, session, fileVars, op, msg, history>>

-----------------------------------------------------------------------------
(* The constructor, and the ends of a run                                     *)

\* MMapSink writes what an earlier run left; any other cache is empty.
LeaveIt == FALSE
Recovers == cache # <<>>

Construct ==
    /\ pc[Main] = "ctor"
    /\ pc' = IF Recovers THEN [pc EXCEPT ![Main] = "cache"] ELSE [t \in Threads |-> "idle"]
    /\ UNCHANGED <<sink, cache, mtx, session, fileVars, op, msg, history>>

\* Another run.  The first k cells of the stream are in the files.
Restart(k) ==
    /\ session < MaxSessions
    /\ session' = session + 1
    /\ stream' = SubSeq(stream, 1, k)
    /\ saved' = k
    /\ cache' = IF sink = "mmap" THEN cache ELSE <<>>
    /\ mtx' = NoOne
    /\ open' = FALSE /\ size' = 0
    /\ pc' = [t \in Threads |-> IF t = Main THEN "ctor" ELSE "down"]
    /\ op' = [t \in Threads |-> "ctor"]
    /\ msg' = [t \in Threads |-> 0]
    /\ accepted' = <<>> /\ promised' = [t \in Threads |-> 0]
    /\ UNCHANGED <<sink, first, next, flushes>>

\* The process dies; what ofs_ has not handed to the kernel is gone.
Crash == \E k \in saved .. Len(stream) : WriteBoundary(k) /\ Restart(k)

\* The destructor, between calls: ofs_ is flushed and closed.
Close == (\A t \in Threads : pc[t] = "idle") /\ Restart(Len(stream))

CallStep(t) ==
    \/ Compress(t) \/ LogFails(t) \/ PushHeader(t) \/ PushBody(t)
    \/ NeedWriteToFile(t) \/ BeginChunk(t) \/ WriteData(t) \/ ClearCache(t)

Next ==
    \/ \E t \in Threads : LogCall(t) \/ FlushCall(t) \/ CallStep(t)
    \/ Construct
    \/ Crash
    \/ Close

Spec == Init /\ [][Next]_vars

-----------------------------------------------------------------------------
(* Properties                                                                 *)

PCs == {"down", "ctor", "idle", "compress", "lock", "push", "need", "cache",
        "data", "clear"}

TypeOK ==
    /\ sink \in Sinks
    /\ cache \in Seq(Items)
    /\ mtx \in Threads \cup {NoOne}
    /\ session \in Nat
    /\ stream \in Seq(Items \cup Headers)
    /\ saved \in 0 .. Len(stream)
    /\ first \in 0 .. saved
    /\ open \in BOOLEAN
    /\ size \in Nat
    /\ pc \in [Threads -> PCs]
    /\ op \in [Threads -> {"ctor", "log", "flush"}]
    /\ msg \in [Threads -> Msgs \cup {0}]
    /\ next \in 1 .. MaxMsgs + 1
    /\ flushes \in 0 .. MaxFlushes
    /\ accepted \in Seq(Msgs)
    /\ promised \in [Threads -> Nat]

\* The cells i + 1 .. j of the stream follow the header i and belong to it.
Covers(i, j) == \A n \in i + 1 .. j : stream[n].kind = "item"

\* A header is followed by the items it announces, and by no others, however
\* the writers interleave; a header without its items is the last thing that
\* was written, in this run or in an earlier one that ended there.  This is
\* what the decoder's offsets rely on.
ChunksFramed ==
    \A i \in 1 .. Len(stream) :
        LET h == stream[i]
            end == i + h.size
        IN h.kind = "header" =>
            \/ end <= Len(stream) /\ Covers(i, end) /\ (end < Len(stream) => IsHeader(end + 1))
            \/ i = Len(stream)
            \/ h.run < session /\ IsHeader(i + 1)

\* An item without its body comes from a run that ended between two Pushes,
\* and is the last one of its chunk: the next run writes it out before it
\* accepts anything, so that nothing is stored behind it.
TornEndsChunk ==
    \A i \in 1 .. Len(stream) :
        stream[i].kind = "item" /\ ~stream[i].whole =>
            /\ stream[i].run < session
            /\ i = Len(stream) \/ IsHeader(i + 1)

InStream(m) == \E i \in 1 .. Len(stream) :
                  stream[i].kind = "item" /\ stream[i].msg = m /\ stream[i].whole

\* What was accepted before a Flush has been written when it returns, by its
\* thread or by another one that took the lock before it.
FlushPersists ==
    \A t \in Threads : op[t] = "flush" /\ pc[t] = "idle" =>
        \A i \in 1 .. promised[t] : InStream(accepted[i])

\* The constructor has not returned.
Constructing == op[Main] = "ctor" /\ pc[Main] # "idle"

\* The threads that still have to test the limit, or to write.
Writers == {t \in Threads : pc[t] \in {"push", "need", "cache", "data", "clear"}}

\* The limit is tested after the lock was given up, but the cache exceeds it
\* only by items of calls under way: nobody leaves a full cache to the others.
CacheBounded == Constructing \/ Len(cache) <= Threshold + Cardinality(Writers)

IsWhole(c) == c.kind = "item" /\ c.whole

\* The messages of the first n cells of s, for each n; all those of s.
MsgsUpTo(s) ==
    LET upTo[n \in 0 .. Len(s)] ==
            IF n = 0 THEN <<>>
            ELSE IF IsWhole(s[n]) THEN Append(upTo[n - 1], s[n].msg)
            ELSE upTo[n - 1]
    IN upTo
MsgOf(s) == MsgsUpTo(s)[Len(s)]

\* The stream without the chunk that has been written and not yet cleared.
Done == IF \E t \in Threads : pc[t] = "clear"
        THEN SubSeq(stream, 1, Len(stream) - Len(cache)) ELSE stream

DoneSaved == SubSeq(Done, 1, IF saved < Len(Done) THEN saved ELSE Len(Done))

\* The sink is a store of messages: accepted ones are kept, in order, once,
\* except for what the end of the process may take or repeat.
Store == INSTANCE LogStore WITH
    outlives <- (sink = "mmap"),
    buffered <- MsgOf(cache),
    written  <- MsgOf(Done),
    durable  <- Len(MsgOf(DoneSaved))

ImplementsStore == Store!SInit /\ [][Store!SNext]_(Store!svars)
=============================================================================
