----------------------------- MODULE AsyncSink -----------------------------
(* logger::AsyncSink (sinks/async_sink.cc): the protocol of EffectiveSink     *)
(* with two MemoryBuffers in place of the mappings, without compression and   *)
(* encryption, and with nothing that outlives the process.                    *)
(*                                                                            *)
(* WriteToCache_ holds mtx_ for both of its Pushes and nothing reads the      *)
(* master without it, so a critical section is one step here.  is_slave_free_ *)
(* is loaded and stored apart from the swap, and CacheToFile_ looks at the    *)
(* slave anew at each line.  A chunk's header goes out with its data, and     *)
(* what MemoryBuffer does to the bytes is in SyncSink.  The owner may destroy *)
(* the sink when no call is under way; the destructor does not wait for the   *)
(* strand.                                                                    *)
EXTENDS Naturals, Sequences

CONSTANTS Threads,
          MaxCalls,     \* bound: calls of Log and Flush in a behaviour
          Lens,         \* bytes of an ItemHeader and a message
          Capacity,     \* kDafaultCapacity
          Small         \* a write of more items empties std::filebuf

ASSUME AsyncAssumption ==
    /\ "cache" \notin Threads
    /\ {MaxCalls, Small} \subseteq Nat
    /\ Lens \subseteq Nat \ {0}
    /\ Capacity \in Nat \ {0, 1}

Bufs == {"1", "2"}
Msgs == 1..MaxCalls
Items == [msg : Msgs, len : Lens]
Junk == [msg |-> 0, len |-> 0]

VARIABLES
    mem,        \* the contents of the two buffers
    cap,        \* their capacities
    master,     \* the buffer master_cache_ points to
    slaveFree,  \* is_slave_free_
    pending,    \* the strand: "cache" for CacheToFile_, a thread for its barrier
    xpc, xcount,    \* where CacheToFile_ is; the items that chunk_header.size covers
    stream,     \* the items that went through ofs_
    saved,      \* how many of them the kernel has for certain
    state,      \* "alive", or how the sink ended: "destroyed", "dead"
    pc, op, msg,    \* of each thread: where it is, in which call, with what
    next, flushes,  \* history: for the bounds
    accepted,   \* history: the messages in the order in which they were stored
    promised,   \* history: of each thread: [stored, called] when its Flush began
    flushed,    \* history: the largest of those of the completed calls
    overrun,    \* history: the slave was swapped while it was in use
    calm,       \* history: the sink was destroyed after a Flush that covers all
    dangling    \* history: a task has used a destroyed sink

bufVars == <<mem, cap, master, slaveFree>>
strandVars == <<xpc, xcount>>
fileVars == <<stream, saved>>
callVars == <<pc, op, msg>>
history == <<next, flushes, accepted, promised, flushed, overrun, calm, dangling>>
vars == <<bufVars, pending, strandVars, fileVars, state, callVars, history>>

slave == CHOOSE b \in Bufs : b # master

Init ==
    /\ mem = [b \in Bufs |-> <<>>]
    /\ cap = [b \in Bufs |-> Capacity]
    /\ master = "1" /\ slaveFree = TRUE
    /\ pending = <<>>
    /\ xpc = "idle" /\ xcount = 0
    /\ stream = <<>> /\ saved = 0
    /\ state = "alive"
    /\ pc = [t \in Threads |-> "idle"]
    /\ op = [t \in Threads |-> "none"]
    /\ msg = [t \in Threads |-> Junk]
    /\ next = 1 /\ flushes = 0 /\ accepted = <<>>
    /\ promised = [t \in Threads |-> [stored |-> 0, called |-> 0]]
    /\ flushed = [stored |-> 0, called |-> 0]
    /\ overrun = FALSE /\ calm = FALSE /\ dangling = FALSE

Goto(t, l) == pc' = [pc EXCEPT ![t] = l]

\* The call of a thread returns.
Return(t) ==
    /\ Goto(t, "idle")
    /\ op' = [op EXCEPT ![t] = "none"]
    /\ msg' = [msg EXCEPT ![t] = Junk]

-----------------------------------------------------------------------------
(* MemoryBuffer                                                               *)

\* The sum of the sizes of the items.
Size(s) == LET sum[i \in 0..Len(s)] == IF i = 0 THEN 0 ELSE sum[i-1] + s[i].len
           IN sum[Len(s)]

\* Reserve_ asks for half as much again until there is more than enough; one
\* library gives that, another doubles what there was: in halves, 3 or 4.
Growths == {3, 4}
Grown(c, need, halves) ==
    LET grow[k \in Nat] == IF k > need THEN k ELSE grow[(k * halves) \div 2]
    IN grow[c]

EnsureCapacity(c, need, halves) == IF need <= c THEN c ELSE Grown(c, need, halves)

\* GetRatio() > 0.8
OverRatio(b) == 5 * Size(mem[b]) > 4 * cap[b]

\* Clear keeps the capacity.
NotCleared == mem' = mem
Clear == mem' = [mem EXCEPT ![slave] = <<>>]

-----------------------------------------------------------------------------
(* Log and Flush                                                              *)

LogCall(t) ==
    /\ state = "alive"
    /\ pc[t] = "idle"
    /\ next + flushes <= MaxCalls
    /\ next' = next + 1
    /\ op' = [op EXCEPT ![t] = "log"]
    /\ \E n \in Lens : msg' = [msg EXCEPT ![t] = [msg |-> next, len |-> n]]
    /\ Goto(t, "push")
    /\ UNCHANGED <<bufVars, pending, strandVars, fileVars, state>>
    /\ UNCHANGED <<flushes, accepted, promised, flushed, overrun, calm, dangling>>

WriteToCache(t) ==
    /\ pc[t] = "push"
    /\ mem' = [mem EXCEPT ![master] = Append(@, msg[t])]
    /\ \E halves \in Growths :
          cap' = [cap EXCEPT ![master] = EnsureCapacity(@, Size(mem[master]) + msg[t].len, halves)]
    /\ accepted' = Append(accepted, msg[t].msg)
    /\ Goto(t, "need")
    /\ UNCHANGED <<master, slaveFree, pending, strandVars, fileVars, state, op, msg>>
    /\ UNCHANGED <<next, flushes, promised, flushed, overrun, calm, dangling>>

NeedWriteToFile(t) ==
    /\ pc[t] = "need"
    /\ IF OverRatio(master)
       THEN Goto(t, "load") /\ UNCHANGED <<op, msg>>
       ELSE Return(t)
    /\ UNCHANGED <<bufVars, pending, strandVars, fileVars, state, history>>

\* SwapCache_ loads is_slave_free_, stores it, and swaps under mtx_.
LoadFree(t) ==
    /\ pc[t] = "load"
    /\ Goto(t, IF slaveFree THEN "store" ELSE "post")
    /\ UNCHANGED <<bufVars, pending, strandVars, fileVars, state, op, msg, history>>

StoreBusy(t) ==
    /\ pc[t] = "store"
    /\ slaveFree' = FALSE
    /\ Goto(t, "swap")
    /\ UNCHANGED <<mem, cap, master, pending, strandVars, fileVars, state, op, msg, history>>

\* The slave is there for the swap: claimed, drained, and not being written.
SlaveAvailable == ~slaveFree /\ mem[slave] = <<>> /\ xpc \in {"idle", "empty"}

SwapPointers(t) ==
    /\ pc[t] = "swap"
    /\ master' = slave
    /\ overrun' = (overrun \/ ~SlaveAvailable)
    /\ Goto(t, "post")
    /\ UNCHANGED <<mem, cap, slaveFree, pending, strandVars, fileVars, state, op, msg>>
    /\ UNCHANGED <<next, flushes, accepted, promised, flushed, calm, dangling>>

\* After AsyncCacheToFile_ a Log returns and a Flush waits, twice.
WithoutFirstWait(t) == IF op[t] = "flush1" THEN "again" ELSE "barrier"
WithoutLastWait(t) == IF op[t] = "flush2" THEN "done" ELSE "barrier"
AfterPost(t) == "barrier"

AsyncCacheToFile(t) ==
    /\ pc[t] = "post"
    /\ pending' = Append(pending, "cache")
    /\ IF op[t] = "log"
       THEN Return(t)
       ELSE Goto(t, AfterPost(t)) /\ UNCHANGED <<op, msg>>
    /\ UNCHANGED <<bufVars, strandVars, fileVars, state, history>>

FlushCall(t) ==
    /\ state = "alive"
    /\ pc[t] = "idle"
    /\ next + flushes <= MaxCalls
    /\ flushes' = flushes + 1
    /\ promised' = [promised EXCEPT ![t] =
            [stored |-> Len(accepted),
             called |-> IF \E u \in Threads : pc[u] # "idle" /\ op[u] = "log"
                        THEN 0 ELSE next - 1]]
    /\ op' = [op EXCEPT ![t] = "flush1"]
    /\ Goto(t, "post")
    /\ UNCHANGED <<bufVars, pending, strandVars, fileVars, state, msg>>
    /\ UNCHANGED <<next, accepted, flushed, overrun, calm, dangling>>

\* WAIT_TASKS_COMPLETED
PostBarrier(t) ==
    /\ pc[t] = "barrier"
    /\ pending' = Append(pending, t)
    /\ Goto(t, "await")
    /\ UNCHANGED <<bufVars, strandVars, fileVars, state, op, msg, history>>

SecondHalf(t) ==
    /\ pc[t] = "again"
    /\ op' = [op EXCEPT ![t] = "flush2"]
    /\ Goto(t, "load")
    /\ UNCHANGED <<bufVars, pending, strandVars, fileVars, state, msg, history>>

Larger(m, n) == IF m > n THEN m ELSE n

FlushReturn(t) ==
    /\ pc[t] = "done"
    /\ flushed' = [stored |-> Larger(flushed.stored, promised[t].stored),
                   called |-> Larger(flushed.called, promised[t].called)]
    /\ promised' = [promised EXCEPT ![t] = [stored |-> 0, called |-> 0]]
    /\ Return(t)
    /\ UNCHANGED <<bufVars, pending, strandVars, fileVars, state>>
    /\ UNCHANGED <<next, flushes, accepted, overrun, calm, dangling>>

-----------------------------------------------------------------------------
(* The strand                                                                 *)

RunBarrier(t) ==
    /\ xpc = "idle" /\ pending # <<>> /\ Head(pending) = t
    /\ pending' = Tail(pending)
    /\ Goto(t, IF op[t] = "flush1" THEN "again" ELSE "done")
    /\ UNCHANGED <<bufVars, strandVars, fileVars, state, op, msg, history>>

\* The task begins; it returns at once when the slave is free.
RunCache ==
    /\ state = "alive"
    /\ xpc = "idle" /\ pending # <<>> /\ Head(pending) = "cache"
    /\ pending' = Tail(pending)
    /\ xpc' = IF slaveFree THEN "idle" ELSE "empty"
    /\ UNCHANGED <<bufVars, xcount, fileVars, state, callVars, history>>

Empty ==
    /\ state = "alive" /\ xpc = "empty"
    /\ IF mem[slave] = <<>>
       THEN /\ slaveFree' = TRUE
            /\ xpc' = "idle"
            /\ overrun' = (overrun \/ \E t \in Threads : pc[t] = "swap")
       ELSE /\ xpc' = "size"
            /\ UNCHANGED <<slaveFree, overrun>>
    /\ UNCHANGED <<mem, cap, master, pending, xcount, fileVars, state, callVars>>
    /\ UNCHANGED <<next, flushes, accepted, promised, flushed, calm, dangling>>

ReadSize ==
    /\ state = "alive" /\ xpc = "size"
    /\ xcount' = Len(mem[slave])
    /\ xpc' = "data"
    /\ UNCHANGED <<bufVars, pending, fileVars, state, callVars, history>>

\* That many items of what the slave is by now, with anything behind its end.
Block(b, n) == [i \in 1..n |-> IF i <= Len(mem[b]) THEN mem[b][i] ELSE Junk]

WriteData ==
    /\ state = "alive" /\ xpc = "data"
    /\ stream' = stream \o Block(slave, xcount)
    /\ saved' = IF xcount > Small THEN Len(stream') ELSE saved
    /\ xpc' = "clear"
    /\ UNCHANGED <<bufVars, pending, xcount, state, callVars, history>>

ClearSlave ==
    /\ state = "alive" /\ xpc = "clear"
    /\ Clear
    /\ xcount' = 0
    /\ xpc' = "free"
    /\ UNCHANGED <<cap, master, slaveFree, pending, fileVars, state, callVars, history>>

FreeSlave ==
    /\ state = "alive" /\ xpc = "free"
    /\ slaveFree' = TRUE
    /\ xpc' = "idle"
    /\ UNCHANGED <<mem, cap, master, pending, xcount, fileVars, state, callVars, history>>

-----------------------------------------------------------------------------
(* The ends of the sink                                                       *)

Idle == \A t \in Threads : pc[t] = "idle"

\* ~AsyncSink flushes and closes ofs_; the strand keeps the tasks it has, and
\* the one it is in.
Destroy ==
    /\ state = "alive"
    /\ Idle
    /\ state' = "destroyed"
    /\ saved' = Len(stream)
    /\ calm' = (flushed.called = next - 1)
    /\ UNCHANGED <<bufVars, pending, strandVars, stream, callVars>>
    /\ UNCHANGED <<next, flushes, accepted, promised, flushed, overrun, dangling>>

\* A task goes on after that: what it does is undefined.
UseAfter ==
    /\ state = "destroyed"
    /\ pending # <<>> \/ xpc # "idle"
    /\ dangling' = TRUE
    /\ state' = "dead"
    /\ UNCHANGED <<bufVars, pending, strandVars, fileVars, callVars>>
    /\ UNCHANGED <<next, flushes, accepted, promised, flushed, overrun, calm>>

\* The process dies with the two buffers and what std::filebuf has.
Crash ==
    /\ state = "alive"
    /\ \E k \in saved..Len(stream) : stream' = SubSeq(stream, 1, k)
    /\ saved' = Len(stream')
    /\ mem' = [b \in Bufs |-> <<>>]
    /\ state' = "dead"
    /\ pending' = <<>> /\ xpc' = "idle" /\ xcount' = 0
    /\ pc' = [t \in Threads |-> "down"]
    /\ UNCHANGED <<cap, master, slaveFree, op, msg, history>>

CallStep(t) ==
    \/ WriteToCache(t) \/ NeedWriteToFile(t) \/ LoadFree(t) \/ StoreBusy(t)
    \/ SwapPointers(t) \/ AsyncCacheToFile(t) \/ PostBarrier(t)
    \/ SecondHalf(t) \/ FlushReturn(t)

StrandStep ==
    \/ RunCache \/ Empty \/ ReadSize \/ WriteData \/ ClearSlave \/ FreeSlave
    \/ \E t \in Threads : RunBarrier(t)

Next ==
    \/ \E t \in Threads : LogCall(t) \/ FlushCall(t) \/ CallStep(t)
    \/ StrandStep
    \/ Destroy \/ UseAfter \/ Crash

Spec == Init /\ [][Next]_vars

-----------------------------------------------------------------------------
(* Properties                                                                 *)

PCs == {"idle", "push", "need", "load", "store", "swap", "post", "barrier",
        "await", "again", "done", "down"}

\* The variables have their types.
TypeOK ==
    /\ mem \in [Bufs -> Seq(Items)]
    /\ cap \in [Bufs -> Nat]
    /\ master \in Bufs /\ slaveFree \in BOOLEAN
    /\ pending \in Seq(Threads \cup {"cache"})
    /\ xpc \in {"idle", "empty", "size", "data", "clear", "free"} /\ xcount \in Nat
    /\ stream \in Seq(Items \cup {Junk}) /\ saved \in 0..Len(stream)
    /\ state \in {"alive", "destroyed", "dead"}
    /\ pc \in [Threads -> PCs]
    /\ op \in [Threads -> {"none", "log", "flush1", "flush2"}]
    /\ msg \in [Threads -> Items \cup {Junk}]
    /\ \A t \in Threads : pc[t] = "push" => msg[t] \in Items
    /\ next \in 1..MaxCalls + 1 /\ flushes \in Nat
    /\ accepted \in Seq(Msgs)
    /\ promised \in [Threads -> [stored : Nat, called : Nat]]
    /\ flushed \in [stored : 0..Len(accepted), called : Nat]
    /\ {overrun, calm, dangling} \subseteq BOOLEAN

InStream(m) == \E i \in 1..Len(stream) : stream[i].msg = m

\* What was stored before a Flush that has returned went through ofs_, whoever
\* else logs and flushes meanwhile, unless a swap went wrong.
FlushPersists ==
    ~overrun /\ state # "dead" =>
        \A i \in 1..flushed.stored : InStream(accepted[i])

\* Posted tasks refer to the sink and its destructor does not wait for them.
\* An owner that calls Flush last, when every Log has returned, is safe: no
\* task uses the sink after it, with any calls before and other Flushes meanwhile.
SafeDestroy == calm => ~dangling

MsgOf(s) == [i \in 1..Len(s) |-> s[i].msg]
Unwritten == IF xpc = "clear" THEN <<>> ELSE mem[slave]

\* Until a swap goes wrong the sink is a store of messages: they go from the
\* slave and the master to the file in order and once, and only the end of the
\* process takes any away.
Store == INSTANCE LogStore WITH
    outlives <- FALSE,
    buffered <- MsgOf(Unwritten \o mem[master]),
    written  <- MsgOf(stream),
    durable  <- saved

ImplementsStore == Store!SInit /\ [][overrun' \/ Store!SNext]_(Store!svars)
=============================================================================
