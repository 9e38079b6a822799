--------------------------- MODULE EffectiveSink ----------------------------
(* logger::EffectiveSink (sinks/effective_sink.cc): log items go into the     *)
(* master mapping; when it is 80% full, or on Flush, master and slave are     *)
(* swapped and the sink's strand writes the slave to the log file.            *)
(*                                                                            *)
(* Each step of a thread is what the code does between two points where       *)
(* another thread can interfere: is_slave_free_ is loaded and stored apart,   *)
(* the store is made before mtx_ is taken for the swap, CacheToFile_ holds no *)
(* lock, ResetStream is called outside the lock.  A crash may fall between    *)
(* any two steps; the mappings and what the kernel has of the file survive.   *)
(*                                                                            *)
(* A message is a number, the item that carries it is one record, and the     *)
(* size of a mapping is the number of its items.  All files of the sink are   *)
(* one stream, in which the header of a chunk tells whether a file begins     *)
(* with it: a file that is closed is not written again.  When that happens    *)
(* depends on sizes and seconds, and is left open; LogFiles has the names,    *)
(* the limits and the elimination of files.                                   *)
EXTENDS Naturals, Sequences, FiniteSets

CONSTANTS Threads,      \* threads that call Log and Flush
          Main,         \* the one that constructs the sink
          MaxMsgs,      \* bound: messages logged in a behaviour
          MaxFlushes,   \* bound: calls of Flush
          MaxSessions,  \* bound: runs of the process on the same directory
          Threshold,    \* a mapping with more items than this is over 80%
          Fails,        \* the calls that may fail, a part of FailingCalls
          NoOne

FailingCalls == {"compress", "encrypt"}

ASSUME SinkAssumption ==
    /\ Main \in Threads
    /\ {MaxMsgs, MaxFlushes, MaxSessions, Threshold} \subseteq Nat
    /\ Fails \subseteq FailingCalls
    /\ NoOne \notin Threads
    /\ "cache" \notin Threads

Bufs == {"master_mmap", "slave_mmap"}
Other(b) == CHOOSE x \in Bufs : x # b

NoMsg == 0
Msgs == 1 .. MaxMsgs

\* One log item.  prev is the message compressed just before it into the same
\* zstd frame, NoMsg when the item opens a frame; key is the session whose
\* ECDH key and IV encrypted it; whole is FALSE until its body is pushed.
Items == [kind : {"item"}, msg : Msgs, prev : Msgs \cup {NoMsg},
          key : Nat, whole : BOOLEAN]

\* The ChunkHeader: which key it names, and how many items follow; whether ofs_
\* was opened at another file for it.
Headers == [kind : {"header"}, key : Nat, size : Nat, opens : BOOLEAN]

\* Bytes behind the end of a mapping's contents, written out by mistake.
Junk == [kind |-> "item", msg |-> NoMsg, prev |-> NoMsg, key |-> 0, whole |-> FALSE]

VARIABLES
    mem,        \* contents of the two mappings
    master,     \* the mapping master_mmap_ points to
    slaveFree,  \* is_slave_free_
    mtx,        \* the holder of mtx_ between two steps
    cctx,       \* the compression stream: the last message in it
    session,    \* which run of the process this is; its keys and IV
    pending,    \* the strand: "cache" for CacheToFile_, a thread for its barrier
    xpc,        \* where CacheToFile_ is
    xsize,      \* chunk_header.size
    stream,     \* what went through ofs_, in this run and the earlier ones, file
                \* behind file
    saved,      \* how much of it ofs_ has certainly handed to the kernel
    pc,         \* where each thread is
    op,         \* the call it is in
    msg,        \* the message it logs
    next,       \* history: the next message to be logged
    flushes,    \* history: calls of Flush
    accepted,   \* history: the messages whose Log stored them, in order
    promised,   \* history: how many were accepted when the Flush began
    flushed,    \* history: how many a completed Flush covers
    lost,       \* history: messages the file stream still held at a crash
    late,       \* history: messages whose Log had seen the mapping before a swap
                \* and compresses them after it
    overrun     \* history: the slave was claimed while it was in use

bufVars    == <<mem, master, slaveFree>>
lockVars   == <<mtx, cctx>>
strandVars == <<xpc, xsize>>
fileVars   == <<stream, saved>>
callVars   == <<pc, op, msg>>
history    == <<next, flushes, accepted, promised, flushed, lost, late, overrun>>
vars == <<bufVars, lockVars, session, pending, strandVars, fileVars, callVars, history>>

slave == Other(master)

\* lock_guard on mtx_ succeeds.  (NoLock and the other variants of operators
\* named below are the faults the properties must detect.)
NoLock == TRUE
CanLock == mtx = NoOne

Goto(t, l) == pc' = [pc EXCEPT ![t] = l]

Init ==
    /\ mem = [b \in Bufs |-> <<>>]
    /\ master = "master_mmap"
    /\ slaveFree = TRUE
    /\ mtx = NoOne
    /\ cctx = NoMsg
    /\ session = 1
    /\ pending = <<>>
    /\ xpc = "idle" /\ xsize = 0
    /\ stream = <<>> /\ saved = 0
    /\ pc = [t \in Threads |-> IF t = Main THEN "ctor" ELSE "down"]
    /\ op = [t \in Threads |-> "ctor"]
    /\ msg = [t \in Threads |-> NoMsg]
    /\ next = 1 /\ flushes = 0
    /\ accepted = <<>> /\ promised = [t \in Threads |-> 0] /\ flushed = 0
    /\ lost = {} /\ late = {}
    /\ overrun = FALSE

-----------------------------------------------------------------------------
(* Log                                                                        *)

\* Formatting, then Empty() of the master without the lock.
LogCall(t) ==
    /\ pc[t] = "idle"
    /\ next \in Msgs
    /\ msg' = [msg EXCEPT ![t] = next]
    /\ op' = [op EXCEPT ![t] = "log"]
    /\ next' = next + 1
    /\ Goto(t, IF mem[master] = <<>> THEN "reset" ELSE "lock")
    /\ UNCHANGED <<bufVars, lockVars, session, pending, strandVars, fileVars>>
    /\ UNCHANGED <<flushes, accepted, promised, flushed, lost, late, overrun>>

\* compress_->ResetStream(), without the lock.  While another thread is in the
\* critical section it may have come in the middle of Compress, which then puts
\* back the state of the stream that it found.
NotReset == {cctx}
AfterReset == {NoMsg} \cup IF mtx = NoOne THEN {} ELSE {cctx}

ResetStream(t) ==
    /\ pc[t] = "reset"
    /\ cctx' \in AfterReset
    /\ Goto(t, "lock")
    /\ UNCHANGED <<bufVars, mtx, session, pending, strandVars, fileVars>>
    /\ UNCHANGED <<op, msg, history>>

\* The early returns of the critical section.  Once Compress has succeeded the
\* message is part of the stream, whether or not it can be encrypted.
LogFails(t, call) ==
    /\ pc[t] = "lock"
    /\ CanLock
    /\ call \in Fails
    /\ cctx' = IF call = "encrypt" THEN msg[t] ELSE cctx
    /\ Goto(t, "idle")
    /\ UNCHANGED <<bufVars, mtx, session, pending, strandVars, fileVars>>
    /\ UNCHANGED <<op, msg, history>>

\* Or Compress finds the stream reset under its hands by u, and returns an error.
CompressBroken(t, u) ==
    /\ pc[t] = "lock" /\ pc[u] = "reset"
    /\ CanLock
    /\ cctx' = NoMsg
    /\ pc' = [pc EXCEPT ![t] = "idle", ![u] = "lock"]
    /\ UNCHANGED <<bufVars, mtx, session, pending, strandVars, fileVars>>
    /\ UNCHANGED <<op, msg, history>>

\* Under mtx_: compress, encrypt, and the first Push of WriteToCache_.
PushHeader(t) ==
    /\ pc[t] = "lock"
    /\ CanLock
    /\ mtx' = t
    /\ cctx' = msg[t]
    /\ mem' = [mem EXCEPT ![master] = Append(@,
                 [kind |-> "item", msg |-> msg[t], prev |-> cctx,
                  key |-> session, whole |-> FALSE])]
    /\ Goto(t, "push")
    /\ UNCHANGED <<master, slaveFree, session, pending, strandVars, fileVars>>
    /\ UNCHANGED <<op, msg, history>>

\* The second Push of WriteToCache_; the lock is released.
PushBody(t) ==
    /\ pc[t] = "push"
    /\ mem' = [mem EXCEPT ![master][Len(mem[master])].whole = TRUE]
    /\ accepted' = Append(accepted, msg[t])
    /\ mtx' = NoOne
    /\ Goto(t, "need")
    /\ UNCHANGED <<master, slaveFree, cctx, session, pending, strandVars, fileVars>>
    /\ UNCHANGED <<op, msg, next, flushes, promised, flushed, lost, late, overrun>>

\* NeedWriteToFile_, which takes the lock again.
NeedWriteToFile(t) ==
    /\ pc[t] = "need"
    /\ CanLock
    /\ Goto(t, IF Len(mem[master]) > Threshold THEN "load" ELSE "idle")
    /\ UNCHANGED <<bufVars, lockVars, session, pending, strandVars, fileVars>>
    /\ UNCHANGED <<op, msg, history>>

-----------------------------------------------------------------------------
(* SwapCache_ and AsyncCacheToFile_, used by Log, Flush and the constructor   *)

\* is_slave_free_.load(), and where it leads.
InvertedLoad == IF slaveFree THEN "post" ELSE "store"
AfterLoad == IF slaveFree THEN "store" ELSE "post"

LoadFree(t) ==
    /\ pc[t] = "load"
    /\ Goto(t, AfterLoad)
    /\ UNCHANGED <<bufVars, lockVars, session, pending, strandVars, fileVars>>
    /\ UNCHANGED <<op, msg, history>>

\* is_slave_free_.store(false)
StoreBusy(t) ==
    /\ pc[t] = "store"
    /\ slaveFree' = FALSE
    /\ Goto(t, "swap")
    /\ UNCHANGED <<mem, master, lockVars, session, pending, strandVars, fileVars>>
    /\ UNCHANGED <<op, msg, history>>

\* The slave is there for the swap: claimed, drained, and not being written.
SlaveAvailable == ~slaveFree /\ mem[slave] = <<>> /\ xpc \in {"idle", "empty"}

\* std::swap of the two pointers, under mtx_.
SwapPointers(t) ==
    /\ pc[t] = "swap"
    /\ CanLock
    /\ master' = slave
    /\ overrun' = (overrun \/ ~SlaveAvailable)
    /\ late' = late \cup {msg[u] : u \in {v \in Threads : pc[v] = "lock"}}
    /\ Goto(t, "post")
    /\ UNCHANGED <<mem, slaveFree, lockVars, session, pending, strandVars, fileVars>>
    /\ UNCHANGED <<op, msg, next, flushes, accepted, promised, flushed, lost>>

\* After AsyncCacheToFile_: Log and the constructor end, Flush waits.
AfterPost(t) == CASE op[t] = "log"  -> "idle"
                  [] op[t] = "ctor" -> "return"
                  [] OTHER          -> "barrier"

\* POST_TASK
PostCache(t) ==
    /\ pc[t] = "post"
    /\ pending' = Append(pending, "cache")
    /\ Goto(t, AfterPost(t))
    /\ UNCHANGED <<bufVars, lockVars, session, strandVars, fileVars>>
    /\ UNCHANGED <<op, msg, history>>

\* WAIT_TASKS_COMPLETED: an empty task behind all others, and a wait for it.
NotPosted(t) == pending' = pending
Barrier(t) == pending' = Append(pending, t)

PostBarrier(t) ==
    /\ pc[t] = "barrier"
    /\ Barrier(t)
    /\ Goto(t, "await")
    /\ UNCHANGED <<bufVars, lockVars, session, strandVars, fileVars>>
    /\ UNCHANGED <<op, msg, history>>

-----------------------------------------------------------------------------
(* Flush: post, wait, swap, post, wait                                        *)

FlushCall(t) ==
    /\ pc[t] = "idle"
    /\ flushes < MaxFlushes
    /\ flushes' = flushes + 1
    /\ promised' = [promised EXCEPT ![t] = Len(accepted)]
    /\ op' = [op EXCEPT ![t] = "flush1"]
    /\ Goto(t, "post")
    /\ UNCHANGED <<bufVars, lockVars, session, pending, strandVars, fileVars>>
    /\ UNCHANGED <<msg, next, accepted, flushed, lost, late, overrun>>

\* The strand runs the empty task, and the wait() of its poster returns.  What
\* the poster does next is a step of its own, except the end of Flush.
RunBarrier(t) ==
    /\ xpc = "idle"
    /\ pending # <<>>
    /\ Head(pending) = t
    /\ pending' = Tail(pending)
    /\ IF op[t] = "flush2"
       THEN /\ Goto(t, "idle")
            /\ flushed' = IF promised[t] > flushed THEN promised[t] ELSE flushed
            /\ UNCHANGED op
       ELSE /\ Goto(t, "load")
            /\ op' = [op EXCEPT ![t] = IF @ = "flush1" THEN "flush2" ELSE @]
            /\ UNCHANGED flushed
    /\ UNCHANGED <<bufVars, lockVars, session, strandVars, fileVars>>
    /\ UNCHANGED <<msg, next, flushes, accepted, promised, lost, late, overrun>>

-----------------------------------------------------------------------------
(* CacheToFile_, run by the strand without mtx_                               *)

\* is_slave_free_.store(true)
NotReleased == slaveFree' = slaveFree
Release == slaveFree' = TRUE

\* The task begins, and returns at once when the slave is free.
RunCache ==
    /\ xpc = "idle"
    /\ pending # <<>>
    /\ Head(pending) = "cache"
    /\ pending' = Tail(pending)
    /\ xpc' = IF slaveFree THEN "idle" ELSE "empty"
    /\ UNCHANGED <<bufVars, lockVars, session, xsize, fileVars, callVars, history>>

\* Nothing in the slave: it is declared free, and the task returns.
FreeEmptySlave ==
    /\ xpc = "empty"
    /\ mem[slave] = <<>>
    /\ Release
    /\ xpc' = "idle"
    /\ overrun' = (overrun \/ \E t \in Threads : pc[t] = "swap")
    /\ UNCHANGED <<mem, master, lockVars, session, pending, xsize, fileVars, callVars>>
    /\ UNCHANGED <<next, flushes, accepted, promised, flushed, lost, late>>

SlaveNotEmpty ==
    /\ xpc = "empty"
    /\ mem[slave] # <<>>
    /\ xpc' = "size"
    /\ UNCHANGED <<bufVars, lockVars, session, pending, xsize, fileVars, callVars, history>>

SlaveSize == Len(mem[slave])

ReadSize ==
    /\ xpc = "size"
    /\ xsize' = SlaveSize
    /\ xpc' = "header"
    /\ UNCHANGED <<bufVars, lockVars, session, pending, fileVars, callVars, history>>

\* GetFilePath_, with the close of the file and the open of another, or the file
\* is the one that was written last, in this run or in the same second by an
\* earlier one; and ofs_.write of the ChunkHeader, which names this session's key.
WriteHeader ==
    /\ xpc = "header"
    /\ \E opens \in IF stream = <<>> THEN {TRUE} ELSE BOOLEAN :
          /\ stream' = Append(stream, [kind |-> "header", key |-> session,
                                      size |-> xsize, opens |-> opens])
          /\ saved' = IF opens THEN Len(stream) ELSE saved
    /\ xpc' = "data"
    /\ UNCHANGED <<bufVars, lockVars, session, pending, xsize, callVars, history>>

\* The first n items at Data() of a mapping, whatever is there.  (ShortBlock: an
\* error of one in the size of the write.)
ShortBlock(b, n) == [i \in 1 .. n - 1 |-> IF i <= Len(mem[b]) THEN mem[b][i] ELSE Junk]
Block(b, n) == [i \in 1 .. n |-> IF i <= Len(mem[b]) THEN mem[b][i] ELSE Junk]

\* ofs_.write of chunk_header.size from what the slave is now.  A write of 1 KB
\* or more, and a mapping over 80% is one, empties the buffer of std::filebuf
\* into the kernel; a smaller one may stay in it.
WriteData ==
    /\ xpc = "data"
    /\ stream' = stream \o Block(slave, xsize)
    /\ saved' = IF xsize > Threshold THEN Len(stream') ELSE saved
    /\ xpc' = "clear"
    /\ UNCHANGED <<bufVars, lockVars, session, pending, xsize, callVars, history>>

\* slave_mmap_->Clear()
NotCleared == mem' = mem
Clear == mem' = [mem EXCEPT ![slave] = <<>>]

ClearSlave ==
    /\ xpc = "clear"
    /\ Clear
    /\ xpc' = "free"
    /\ UNCHANGED <<master, slaveFree, lockVars, session, pending, xsize>>
    /\ UNCHANGED <<fileVars, callVars, history>>

FreeSlave ==
    /\ xpc = "free"
    /\ Release
    /\ xpc' = "idle"
    /\ UNCHANGED <<mem, master, lockVars, session, pending, xsize>>
    /\ UNCHANGED <<fileVars, callVars, history>>

-----------------------------------------------------------------------------
(* The constructor on what an earlier run left, and the ends of a run         *)

\* A slave mapping that is not empty is handed to the strand first.
RecoverSlave ==
    /\ pc[Main] = "ctor"
    /\ IF mem[slave] # <<>>
       THEN slaveFree' = FALSE /\ pending' = Append(pending, "cache")
       ELSE UNCHANGED <<slaveFree, pending>>
    /\ Goto(Main, "ctor2")
    /\ UNCHANGED <<mem, master, lockVars, session, strandVars, fileVars, op, msg, history>>

\* Then, after a wait, the master mapping.
WithoutWait == IF mem[master] # <<>> THEN "load" ELSE "return"
AfterSlave == IF mem[master] # <<>> THEN "barrier" ELSE "return"

RecoverMaster ==
    /\ pc[Main] = "ctor2"
    /\ Goto(Main, AfterSlave)
    /\ UNCHANGED <<bufVars, lockVars, session, pending, strandVars, fileVars>>
    /\ UNCHANGED <<op, msg, history>>

\* The sink can be used by the other threads.
CtorReturns ==
    /\ pc[Main] = "return"
    /\ pc' = [t \in Threads |-> "idle"]
    /\ UNCHANGED <<bufVars, lockVars, session, pending, strandVars, fileVars>>
    /\ UNCHANGED <<op, msg, history>>

\* The messages in the cells of the stream after the first k.
MsgsAfter(k) == {stream[i].msg : i \in {j \in k + 1 .. Len(stream) :
                    stream[j].kind = "item" /\ stream[j].whole}}

\* A new run of the process on the same directory.  The first k cells of the
\* stream are in the file; the mappings are opened by their names.
Restart(k) ==
    /\ session < MaxSessions
    /\ session' = session + 1
    /\ stream' = SubSeq(stream, 1, k)
    /\ saved' = k
    /\ lost' = lost \cup MsgsAfter(k)
    /\ master' = "master_mmap"
    /\ slaveFree' = TRUE
    /\ mtx' = NoOne
    /\ cctx' = NoMsg
    /\ pending' = <<>>
    /\ xpc' = "idle" /\ xsize' = 0
    /\ pc' = [t \in Threads |-> IF t = Main THEN "ctor" ELSE "down"]
    /\ op' = [t \in Threads |-> "ctor"]
    /\ msg' = [t \in Threads |-> NoMsg]
    /\ UNCHANGED <<mem, next, flushes, accepted, promised, flushed, late, overrun>>

\* Where the file can end after a crash: std::filebuf never splits a write.
IsHeader(i) == i \in 1 .. Len(stream) /\ stream[i].kind = "header"
WriteBoundary(k) == k = Len(stream) \/ IsHeader(k) \/ IsHeader(k + 1)

\* The process dies; what ofs_ has not handed to the kernel is gone.
Crash == \E k \in saved .. Len(stream) : WriteBoundary(k) /\ Restart(k)

\* ~EffectiveSink between calls and tasks: ofs_ is flushed and closed, the
\* mappings keep what they have.
Close ==
    /\ \A t \in Threads : pc[t] = "idle"
    /\ pending = <<>> /\ xpc = "idle"
    /\ Restart(Len(stream))

-----------------------------------------------------------------------------

\* The steps a thread takes once it is in a call.
CallStep(t) ==
    \/ ResetStream(t) \/ PushHeader(t) \/ PushBody(t) \/ NeedWriteToFile(t)
    \/ LoadFree(t) \/ StoreBusy(t) \/ SwapPointers(t)
    \/ PostCache(t) \/ PostBarrier(t)
    \/ \E call \in FailingCalls : LogFails(t, call)

CtorStep == RecoverSlave \/ RecoverMaster \/ CtorReturns

StrandStep ==
    \/ RunCache \/ FreeEmptySlave \/ SlaveNotEmpty \/ ReadSize \/ WriteHeader
    \/ WriteData \/ ClearSlave \/ FreeSlave
    \/ \E t \in Threads : RunBarrier(t)

Next ==
    \/ \E t \in Threads : LogCall(t) \/ FlushCall(t) \/ CallStep(t)
    \/ \E t, u \in Threads : CompressBroken(t, u)
    \/ CtorStep
    \/ StrandStep
    \/ Crash
    \/ Close

Spec == Init /\ [][Next]_vars

\* Threads finish the calls they are in and the strand runs its tasks.  No
\* strong fairness for mtx_: std::mutex promises none.
Fairness ==
    /\ \A t \in Threads : WF_vars(CallStep(t))
    /\ WF_vars(CtorStep)
    /\ WF_vars(StrandStep)

FairSpec == Spec /\ Fairness
-----------------------------------------------------------------------------
(* Properties                                                                 *)

PCs == {"down", "ctor", "ctor2", "return", "idle", "reset", "lock", "push",
        "need", "load", "store", "swap", "post", "barrier", "await"}

TypeOK ==
    /\ mem \in [Bufs -> Seq(Items)]
    /\ master \in Bufs
    /\ slaveFree \in BOOLEAN
    /\ mtx \in Threads \cup {NoOne}
    /\ cctx \in Msgs \cup {NoMsg}
    /\ session \in Nat
    /\ pending \in Seq(Threads \cup {"cache"})
    /\ xpc \in {"idle", "empty", "size", "header", "data", "clear", "free"}
    /\ xsize \in Nat
    /\ stream \in Seq(Items \cup Headers \cup {Junk})
    /\ saved \in 0 .. Len(stream)
    /\ pc \in [Threads -> PCs]
    /\ op \in [Threads -> {"ctor", "log", "flush1", "flush2"}]
    /\ msg \in [Threads -> Msgs \cup {NoMsg}]
    /\ next \in 1 .. MaxMsgs + 1
    /\ flushes \in Nat
    /\ accepted \in Seq(Msgs)
    /\ promised \in [Threads -> Nat]
    /\ flushed \in 0 .. Len(accepted)
    /\ lost \subseteq Msgs
    /\ late \subseteq Msgs
    /\ overrun \in BOOLEAN

InMem(m) == \E b \in Bufs : \E i \in 1 .. Len(mem[b]) :
                mem[b][i].msg = m /\ mem[b][i].whole
InStream(m) == \E i \in 1 .. Len(stream) :
                stream[i].kind = "item" /\ stream[i].msg = m /\ stream[i].whole

\* A message whose Log has stored it is in a mapping or in the file, in every
\* interleaving of loggers, flushes and the strand, and across crashes, unless
\* a swap went wrong (overrun) or ofs_ still held it at a crash (lost).
Retained ==
    ~overrun => \A i \in 1 .. Len(accepted) :
                    LET m == accepted[i] IN InMem(m) \/ InStream(m) \/ m \in lost

\* The file gets whole items only: the lock that Push and the swap share keeps
\* the strand away from a half-pushed item of the same run.  One left by a
\* crash between the two Pushes keeps the key of its run.
TornOnlyByCrash ==
    /\ \A i \in 1 .. Len(mem[slave]) : mem[slave][i].key = session => mem[slave][i].whole
    /\ \A i \in 1 .. Len(stream) :
          stream[i].kind = "item" /\ stream[i].key = session => stream[i].whole

\* The constructor has not returned.
Constructing == op[Main] = "ctor" /\ pc[Main] # "idle"

\* Once the constructor has returned, no item recovered from an earlier run is
\* in the mapping that Log writes to, whatever the loggers and the strand do:
\* the two runs, and their keys, never meet in one chunk.
RecoveryIsolated ==
    ~Constructing =>
        \A i \in 1 .. Len(mem[master]) : mem[master][i].key = session

IsItem(c) == c.kind = "item"

\* What the strand has still to write out of the slave.
Unwritten == IF xpc = "clear" THEN <<>> ELSE mem[slave]

\* A whole item of message m is at place i of s.
StoredAt(s, i, m) == IsItem(s[i]) /\ s[i].whole /\ s[i].msg = m

\* The whole items of s are those of the messages of a, one each, and in the
\* same order.
SameOrder(s, a) ==
    /\ \A i \in 1 .. Len(s) : IsItem(s[i]) /\ s[i].whole =>
           \E k \in 1 .. Len(a) : s[i].msg = a[k]
    /\ \A k \in 1 .. Len(a) : \E i \in 1 .. Len(s) : StoredAt(s, i, a[k])
    /\ \A i, j \in 1 .. Len(s) : \A k, l \in 1 .. Len(a) :
           StoredAt(s, i, a[k]) /\ StoredAt(s, j, a[l]) => (i < j <=> k < l)

\* In a run without overrun the file, the slave and the master together hold
\* the accepted messages once each, in the order in which they were accepted.
InOrder ==
    ~overrun /\ session = 1 => SameOrder(stream \o Unwritten \o mem[master], accepted)

\* j is the place of the last item before i, and the item at i continues its
\* zstd frame.
Continues(s, i, j) ==
    /\ IsItem(s[j]) /\ s[j].msg = s[i].prev
    /\ \A l \in j + 1 .. i - 1 : ~IsItem(s[l])

\* A file begins between the places j and i.
FileBetween(s, i, j) == \E l \in j + 1 .. i - 1 : ~IsItem(s[l]) /\ s[l].opens

\* Item i of s opens a frame, or continues that of the item before it.
Decoded(s, i) == s[i].prev = NoMsg \/ \E j \in 1 .. i - 1 : Continues(s, i, j)

\* Both in one file, from which the decoder can read it if it can read the one
\* before: it goes through a file from its beginning with a stream of its own,
\* which it resets at a frame's magic number (decode.cc 77-118).
DecodedInFile(s, i) ==
    \/ s[i].prev = NoMsg
    \/ \E j \in 1 .. i - 1 : Continues(s, i, j) /\ ~FileBetween(s, i, j)

\* A frame of the file before, carried into a new one at its first item.
CarriedOver(s, i) ==
    /\ s[i].msg \in late
    /\ \E j \in 1 .. i - 1 : Continues(s, i, j) /\ FileBetween(s, i, j)

\* Whatever the race of ResetStream with the other loggers, every item continues
\* the frame of the item before it in its file or opens a new one, and so can be
\* read with it.  The one exception is the first item of a file, if its Log had
\* found the mapping in use (or had reset the stream) before the swap and then
\* was the first to compress after it: the beginning of its frame is in the file
\* before, and it and what continues the frame behind it cannot be read.
Decodable ==
    ~overrun /\ session = 1 /\ Fails = {} =>
        \A i \in 1 .. Len(stream) :
            IsItem(stream[i]) => DecodedInFile(stream, i) \/ CarriedOver(stream, i)

\* What a completed Flush covers has been written to the file.
FlushPersists ==
    ~overrun => \A i \in 1 .. flushed :
                    InStream(accepted[i]) \/ accepted[i] \in lost

IsWhole(c) == IsItem(c) /\ c.whole

\* The messages of the first n cells of s, for each n; all those of s.
MsgsUpTo(s) ==
    LET upTo[n \in 0 .. Len(s)] ==
            IF n = 0 THEN <<>>
            ELSE IF IsWhole(s[n]) THEN Append(upTo[n - 1], s[n].msg)
            ELSE upTo[n - 1]
    IN upTo
MsgOf(s) == MsgsUpTo(s)[Len(s)]

\* What a run must not end in: a slave that has been written and not cleared is
\* written again, and mappings that have changed places are in reverse order
\* when they are opened by their names.
Untidy == xpc = "clear" \/ (master = "slave_mmap" /\ \A b \in Bufs : mem[b] # <<>>)

\* The sink is a store of messages, across crashes and the recovery after them,
\* until a swap goes wrong and except for runs that end untidily.
Store == INSTANCE LogStore WITH
    outlives <- TRUE,
    buffered <- MsgOf(Unwritten \o mem[master]),
    written  <- MsgOf(stream),
    durable  <- Len(MsgOf(SubSeq(stream, 1, saved)))

ImplementsStore ==
    Store!SInit
    /\ [][overrun' \/ (session' # session /\ Untidy) \/ Store!SNext]_(Store!svars)

\* Every Flush returns: its barriers are run, by a strand that runs stale
\* tasks, claimed and unclaimed slaves alike to their end.
FlushReturns ==
    \A t \in Threads : (op[t] \in {"flush1", "flush2"} /\ pc[t] # "idle")
                           ~> (pc[t] \in {"idle", "down", "ctor"})

\* A slave that is busy becomes free again: nobody can close the door to the
\* file for good, even when two loggers claim the slave at the same time.
SlaveReleased == ~slaveFree ~> slaveFree
=============================================================================
