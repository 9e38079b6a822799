------------------------ MODULE EffectiveSinkProofs -------------------------
(* Proofs about EffectiveSink for any threads, messages, sessions, threshold  *)
(* and failing calls.                                                         *)
EXTENDS EffectiveSink, Integers, SequenceTheorems, WellFoundedInduction, TLAPS

USE SinkAssumption

-----------------------------------------------------------------------------
(* The two mappings and the effect of the pushes                              *)

\* The slave is the mapping that is not the master.
LEMMA TwoBufs ==
    ASSUME NEW b \in Bufs
    PROVE  Other(b) \in Bufs /\ Other(b) # b /\ Bufs = {b, Other(b)}
<1>1. \E x \in Bufs : x # b
  BY DEF Bufs
<1>2. Other(b) \in Bufs /\ Other(b) # b
  BY <1>1 DEF Other
<1>3. QED BY <1>2 DEF Bufs

\* What PushHeader does to the mappings.
LEMMA PushHeaderEffect ==
    ASSUME TypeOK, NEW t \in Threads, PushHeader(t), msg[t] \in Msgs
    PROVE  LET e == [kind |-> "item", msg |-> msg[t], prev |-> cctx,
                     key |-> session, whole |-> FALSE]
           IN /\ e \in Items
              /\ mem[master] \in Seq(Items)
              /\ mem' \in [Bufs -> Seq(Items)]
              /\ mem'[master] = Append(mem[master], e)
              /\ mem'[slave] = mem[slave]
<1> DEFINE e == [kind |-> "item", msg |-> msg[t], prev |-> cctx,
                 key |-> session, whole |-> FALSE]
<1>1. e \in Items
  BY DEF TypeOK, Items
<1>2. master \in Bufs /\ mem[master] \in Seq(Items) /\ slave # master /\ slave \in Bufs
  BY TwoBufs DEF TypeOK, slave
<1>3. mem' = [mem EXCEPT ![master] = Append(mem[master], e)]
  BY DEF PushHeader
<1> HIDE DEF e
<1>4. Append(mem[master], e) \in Seq(Items)
  BY <1>1, <1>2
<1>5. /\ mem' \in [Bufs -> Seq(Items)]
      /\ mem'[master] = Append(mem[master], e)
      /\ mem'[slave] = mem[slave]
  BY <1>2, <1>3, <1>4 DEF TypeOK
<1>6. QED BY <1>1, <1>2, <1>5 DEF e

\* What PushBody does to the mappings: the last item of the master is made
\* whole, and nothing else changes.
LEMMA PushBodyEffect ==
    ASSUME TypeOK, NEW t \in Threads, PushBody(t), mem[master] # <<>>
    PROVE  LET n == Len(mem[master])
           IN /\ n \in Nat /\ n >= 1
              /\ mem' \in [Bufs -> Seq(Items)]
              /\ mem'[slave] = mem[slave]
              /\ Len(mem'[master]) = n
              /\ \A i \in 1 .. n - 1 : mem'[master][i] = mem[master][i]
              /\ mem'[master][n] = [mem[master][n] EXCEPT !.whole = TRUE]
              /\ mem[master][n] \in Items
              /\ mem'[master][n] \in Items
<1> DEFINE n == Len(mem[master])
           e == [mem[master][n] EXCEPT !.whole = TRUE]
<1>1. master \in Bufs /\ mem[master] \in Seq(Items) /\ slave # master /\ slave \in Bufs
  BY TwoBufs DEF TypeOK, slave
<1>2. n \in Nat /\ n >= 1 /\ mem[master][n] \in Items
  BY <1>1
<1>3. e \in Items
  BY <1>2 DEF Items
<1>4. mem' = [mem EXCEPT ![master] = [mem[master] EXCEPT ![n] = e]]
  BY DEF PushBody
<1> HIDE DEF e
<1>5. /\ [mem[master] EXCEPT ![n] = e] \in Seq(Items)
      /\ Len([mem[master] EXCEPT ![n] = e]) = n
      /\ \A i \in 1 .. n : [mem[master] EXCEPT ![n] = e][i] = IF i = n THEN e ELSE mem[master][i]
  BY <1>1, <1>2, <1>3, ExceptSeq
<1>6. /\ mem' \in [Bufs -> Seq(Items)]
      /\ mem'[master] = [mem[master] EXCEPT ![n] = e]
      /\ mem'[slave] = mem[slave]
  BY <1>1, <1>4, <1>5 DEF TypeOK
<1>7. QED BY <1>2, <1>3, <1>5, <1>6 DEF e

\* What is written to the stream has the type of its cells.
LEMMA BlockType ==
    ASSUME TypeOK, NEW n \in Nat
    PROVE  Block(slave, n) \in Seq(Items \cup {Junk}) /\ Len(Block(slave, n)) = n
<1>1. slave \in Bufs /\ mem[slave] \in Seq(Items)
  BY TwoBufs DEF TypeOK, slave
<1>2. \A i \in 1 .. n : (IF i <= Len(mem[slave]) THEN mem[slave][i] ELSE Junk)
                            \in Items \cup {Junk}
  BY <1>1
<1>3. QED BY <1>2 DEF Block

\* What WriteHeader does to the stream: one header, of this session and of the
\* size that has been read, comes behind it.
LEMMA HeaderWritten ==
    ASSUME TypeOK, WriteHeader
    PROVE  \E h \in Headers :
              /\ ~IsItem(h) /\ h.kind = "header" /\ h.key = session /\ h.size = xsize
              /\ stream' = Append(stream, h)
              /\ saved' = IF h.opens THEN Len(stream) ELSE saved
              /\ stream = <<>> => h.opens
<1>1. PICK o \in BOOLEAN :
          /\ stream' = Append(stream, [kind |-> "header", key |-> session,
                                      size |-> xsize, opens |-> o])
          /\ saved' = IF o THEN Len(stream) ELSE saved
          /\ stream = <<>> => o
  BY Zenon DEF WriteHeader
<1> DEFINE h == [kind |-> "header", key |-> session, size |-> xsize, opens |-> o]
<1>2. session \in Nat /\ xsize \in Nat
  BY Zenon DEF TypeOK
<1>3. h \in Headers /\ ~IsItem(h) /\ h.kind = "header" /\ h.key = session
      /\ h.size = xsize /\ h.opens = o
  BY <1>2 DEF Headers, IsItem
<1> HIDE DEF h
<1>4. stream' = Append(stream, h)
  BY <1>1 DEF h
<1>5. QED BY <1>1, <1>3, <1>4

-----------------------------------------------------------------------------
(* The base invariant: what every step relies on                              *)

\* mtx_ is held between two steps exactly by a thread between its two Pushes.
MutexInv == \A t \in Threads : mtx = t <=> pc[t] = "push"

\* A thread that is about to store a message has one; between its two Pushes
\* the last item of the master is that message's.
CallInv ==
    /\ \A t \in Threads : pc[t] \in {"reset", "lock", "push"} => msg[t] \in Msgs
    /\ \A t \in Threads : pc[t] = "push" =>
          /\ mem[master] # <<>>
          /\ mem[master][Len(mem[master])].msg = msg[t]
    /\ \A t \in Threads : promised[t] <= Len(accepted)

\* No item is from a session to come.
KeyInv ==
    /\ session >= 1
    /\ \A b \in Bufs : \A i \in 1 .. Len(mem[b]) : mem[b][i].key <= session
    /\ \A i \in 1 .. Len(stream) : stream[i].kind = "item" => stream[i].key <= session

\* An item of this session that is not whole is the last of the master, and
\* the lock is held for it.
TornInv ==
    /\ \A b \in Bufs : \A i \in 1 .. Len(mem[b]) :
          mem[b][i].key = session /\ ~mem[b][i].whole =>
              b = master /\ i = Len(mem[b]) /\ mtx # NoOne
    /\ \A i \in 1 .. Len(stream) :
          stream[i].kind = "item" /\ stream[i].key = session => stream[i].whole

\* While the constructor runs no other thread is in the sink, and outside of it
\* no thread is where only the constructor can be.
CtorInv ==
    /\ \A t \in Threads : op[t] = "ctor" /\ pc[t] \notin {"idle", "down"} => t = Main
    /\ \A t \in Threads : pc[t] \in {"ctor", "ctor2", "return"} => t = Main
    /\ pc[Main] \in {"ctor", "ctor2", "return"} => op[Main] = "ctor"
    /\ Constructing =>
          /\ \A t \in Threads : t # Main => pc[t] = "down"
          /\ pc[Main] \in {"ctor", "ctor2", "return", "barrier", "await",
                           "load", "store", "swap", "post"}
    /\ ~Constructing => \A t \in Threads : pc[t] # "down"

\* A barrier on the strand is that of a thread that waits for it, and the only
\* one of that thread.
BarrierInv ==
    /\ \A i \in 1 .. Len(pending) : pending[i] # "cache" => pc[pending[i]] = "await"
    /\ \A i, j \in 1 .. Len(pending) :
          pending[i] = pending[j] /\ pending[i] # "cache" => i = j

BaseInv == TypeOK /\ CtorInv /\ BarrierInv /\ MutexInv /\ CallInv /\ KeyInv /\ TornInv

-----------------------------------------------------------------------------
LEMMA InitBase == Init => BaseInv
<1> SUFFICES ASSUME Init PROVE BaseInv
  OBVIOUS
<1> USE DEF Init
<1>1. TypeOK
  <2>1. /\ <<>> \in Seq(Items) /\ <<>> \in Seq(Threads \cup {"cache"})
        /\ <<>> \in Seq(Items \cup Headers \cup {Junk}) /\ <<>> \in Seq(Msgs)
    BY Zenon, EmptySeq
  <2>2. Len(<<>>) = 0 /\ MaxMsgs \in Nat
    OBVIOUS
  <2>3. mem \in [Bufs -> Seq(Items)] /\ master \in Bufs
    BY <2>1 DEF Bufs
  <2>4. /\ pc \in [Threads -> PCs] /\ msg \in [Threads -> Msgs \cup {NoMsg}]
        /\ op \in [Threads -> {"ctor", "log", "flush1", "flush2"}]
        /\ promised \in [Threads -> Nat]
    BY DEF PCs, NoMsg
  <2>5. next \in 1 .. MaxMsgs + 1 /\ flushed \in 0 .. Len(accepted)
    BY <2>2
  <2>6. /\ saved \in 0 .. Len(stream) /\ cctx \in Msgs \cup {NoMsg}
        /\ session \in Nat /\ xsize \in Nat /\ flushes \in Nat
    BY <2>2
  <2>7. slaveFree \in BOOLEAN /\ overrun \in BOOLEAN
    BY Zenon
  <2>8. QED BY <2>1, <2>3, <2>4, <2>5, <2>6, <2>7 DEF TypeOK
<1>2. MutexInv
  BY DEF MutexInv
<1>3. CallInv
  BY DEF CallInv
<1>4. KeyInv
  BY DEF KeyInv, Bufs
<1>5. TornInv
  BY DEF TornInv, Bufs
<1>6. CtorInv
  BY DEF CtorInv, Constructing
<1>7. BarrierInv
  BY DEF BarrierInv
<1>8. QED BY <1>1, <1>2, <1>3, <1>4, <1>5, <1>6, <1>7 DEF BaseInv

-----------------------------------------------------------------------------
(* Types                                                                      *)

LEMMA LogTypes ==
    ASSUME BaseInv, NEW t \in Threads
    PROVE  /\ LogCall(t) => TypeOK'
           /\ ResetStream(t) => TypeOK'
           /\ (\E u \in Threads : CompressBroken(t, u)) => TypeOK'
           /\ (\E call \in FailingCalls : LogFails(t, call)) => TypeOK'
           /\ NeedWriteToFile(t) => TypeOK'
<1> USE DEF BaseInv, TypeOK, PCs, Goto, bufVars, lockVars, strandVars, fileVars, history
<1>1. ASSUME LogCall(t) PROVE TypeOK'
  <2>0. MaxMsgs \in Nat
    OBVIOUS
  <2>1. next' \in 1 .. MaxMsgs + 1
    BY <1>1, <2>0 DEF LogCall, Msgs
  <2>2. QED BY <1>1, <2>1 DEF LogCall
<1>2. ASSUME ResetStream(t) PROVE TypeOK'
  BY <1>2 DEF ResetStream, AfterReset, NoMsg
<1>3. ASSUME NEW call \in FailingCalls, LogFails(t, call) PROVE TypeOK'
  BY <1>3 DEF LogFails
<1>4. ASSUME NeedWriteToFile(t) PROVE TypeOK'
  BY <1>4 DEF NeedWriteToFile
<1>5. ASSUME NEW u \in Threads, CompressBroken(t, u) PROVE TypeOK'
  BY <1>5 DEF CompressBroken, NoMsg
<1>6. QED BY <1>1, <1>2, <1>3, <1>4, <1>5

LEMMA SwapTypes ==
    ASSUME BaseInv, NEW t \in Threads
    PROVE  /\ LoadFree(t) => TypeOK'
           /\ StoreBusy(t) => TypeOK'
           /\ SwapPointers(t) => TypeOK'
           /\ PostCache(t) => TypeOK'
           /\ PostBarrier(t) => TypeOK'
<1> USE DEF BaseInv, TypeOK, PCs, Goto, bufVars, lockVars, strandVars, fileVars, history
<1>1. ASSUME LoadFree(t) PROVE TypeOK'
  BY <1>1 DEF LoadFree, AfterLoad
<1>2. ASSUME StoreBusy(t) PROVE TypeOK'
  BY <1>2 DEF StoreBusy
<1>3. ASSUME SwapPointers(t) PROVE TypeOK'
  <2>1. slave \in Bufs /\ overrun' \in BOOLEAN
    BY <1>3, TwoBufs DEF SwapPointers, slave
  <2>2. late' \subseteq Msgs
    BY <1>3 DEF SwapPointers, CallInv
  <2>3. QED BY <1>3, <2>1, <2>2 DEF SwapPointers
<1>4. ASSUME PostCache(t) PROVE TypeOK'
  <2>1. pending \in Seq(Threads \cup {"cache"}) /\ "cache" \in Threads \cup {"cache"}
    OBVIOUS
  <2>2. pending' \in Seq(Threads \cup {"cache"})
    BY <1>4, <2>1 DEF PostCache
  <2>3. pc' \in [Threads -> PCs]
    BY <1>4 DEF PostCache, AfterPost
  <2>4. QED BY <1>4, <2>2, <2>3 DEF PostCache
<1>5. ASSUME PostBarrier(t) PROVE TypeOK'
  BY <1>5, SMTT(20) DEF PostBarrier, Barrier
<1>6. QED BY <1>1, <1>2, <1>3, <1>4, <1>5

LEMMA FlushTypes ==
    ASSUME BaseInv, NEW t \in Threads
    PROVE  /\ FlushCall(t) => TypeOK'
           /\ RunBarrier(t) => TypeOK'
<1> USE DEF Goto, bufVars, lockVars, strandVars, fileVars, history
<1>1. ASSUME FlushCall(t) PROVE TypeOK'
  BY <1>1, SMTT(20) DEF FlushCall, BaseInv, TypeOK, PCs
<1>2. ASSUME RunBarrier(t) PROVE TypeOK'
  <2>1. /\ promised[t] \in 0 .. Len(accepted) /\ flushed \in 0 .. Len(accepted)
        /\ op \in [Threads -> {"ctor", "log", "flush1", "flush2"}] /\ pc \in [Threads -> PCs]
        /\ pending \in Seq(Threads \cup {"cache"})
    <3>1. TypeOK /\ CallInv
      BY Zenon DEF BaseInv
    <3>2. /\ flushed \in 0 .. Len(accepted) /\ promised \in [Threads -> Nat]
          /\ op \in [Threads -> {"ctor", "log", "flush1", "flush2"}] /\ pc \in [Threads -> PCs]
          /\ pending \in Seq(Threads \cup {"cache"}) /\ accepted \in Seq(Msgs)
      BY <3>1, Zenon DEF TypeOK
    <3>3. promised[t] <= Len(accepted)
      BY <3>1, Zenon DEF CallInv
    <3>4. QED BY <3>2, <3>3
  <2>2. flushed' \in 0 .. Len(accepted)
    BY <1>2, <2>1 DEF RunBarrier
  <2>3. \/ op' = op
        \/ op' = [op EXCEPT ![t] = "flush2"]
    BY <1>2, <2>1 DEF RunBarrier
  <2>4. op' \in [Threads -> {"ctor", "log", "flush1", "flush2"}]
    BY <2>1, <2>3
  <2>5. pc' \in [Threads -> PCs]
    BY <1>2, <2>1 DEF RunBarrier, PCs
  <2>6. pending' \in Seq(Threads \cup {"cache"})
    BY <1>2, <2>1 DEF RunBarrier
  <2>7. QED BY <1>2, <2>2, <2>4, <2>5, <2>6 DEF RunBarrier, BaseInv, TypeOK
<1>3. QED BY <1>1, <1>2

LEMMA StrandTypes ==
    ASSUME BaseInv
    PROVE  /\ RunCache => TypeOK'
           /\ FreeEmptySlave => TypeOK'
           /\ SlaveNotEmpty => TypeOK'
           /\ ReadSize => TypeOK'
           /\ WriteHeader => TypeOK'
           /\ WriteData => TypeOK'
           /\ ClearSlave => TypeOK'
           /\ FreeSlave => TypeOK'
<1> USE DEF BaseInv, bufVars, lockVars, strandVars, fileVars, callVars, history
<1>0. slave \in Bufs /\ mem[slave] \in Seq(Items)
  BY TwoBufs DEF TypeOK, slave
<1>1. ASSUME RunCache PROVE TypeOK'
  <2>1. pending' \in Seq(Threads \cup {"cache"})
    BY <1>1 DEF RunCache, TypeOK
  <2>2. QED BY <1>1, <2>1 DEF RunCache, TypeOK
<1>2. ASSUME FreeEmptySlave PROVE TypeOK'
  <2>1. slaveFree' \in BOOLEAN /\ overrun' \in BOOLEAN
    BY <1>2, Zenon DEF FreeEmptySlave, Release
  <2>2. QED BY <1>2, <2>1 DEF FreeEmptySlave, TypeOK
<1>3. ASSUME SlaveNotEmpty PROVE TypeOK'
  BY <1>3 DEF SlaveNotEmpty, TypeOK
<1>4. ASSUME ReadSize PROVE TypeOK'
  BY <1>0, <1>4, SMTT(20) DEF ReadSize, SlaveSize, TypeOK
<1>5. ASSUME WriteHeader PROVE TypeOK'
  <2>1. PICK h \in Headers : /\ stream' = Append(stream, h)
                             /\ saved' = IF h.opens THEN Len(stream) ELSE saved
    BY <1>5, HeaderWritten, Zenon
  <2>2. stream' \in Seq(Items \cup Headers \cup {Junk}) /\ Len(stream') = Len(stream) + 1
    BY <2>1 DEF TypeOK
  <2>3. saved' \in 0 .. Len(stream')
    BY <2>1, <2>2 DEF TypeOK
  <2>4. QED BY <1>5, <2>2, <2>3 DEF WriteHeader, TypeOK
<1>6. ASSUME WriteData PROVE TypeOK'
  <2>1. Block(slave, xsize) \in Seq(Items \cup Headers \cup {Junk})
    BY BlockType, SMTT(20) DEF TypeOK
  <2>2. stream' \in Seq(Items \cup Headers \cup {Junk}) /\ Len(stream') >= Len(stream)
    BY <1>6, <2>1 DEF WriteData, TypeOK
  <2>3. saved' \in 0 .. Len(stream')
    BY <1>6, <2>2, SMTT(20) DEF WriteData, TypeOK
  <2>4. QED BY <1>6, <2>2, <2>3 DEF WriteData, TypeOK
<1>7. ASSUME ClearSlave PROVE TypeOK'
  <2>1. mem' \in [Bufs -> Seq(Items)]
    BY <1>0, <1>7 DEF ClearSlave, Clear, TypeOK
  <2>2. QED BY <1>7, <2>1 DEF ClearSlave, TypeOK
<1>8. ASSUME FreeSlave PROVE TypeOK'
  BY <1>8 DEF FreeSlave, Release, TypeOK
<1>9. QED BY <1>1, <1>2, <1>3, <1>4, <1>5, <1>6, <1>7, <1>8

LEMMA PushTypes ==
    ASSUME BaseInv, NEW t \in Threads
    PROVE  /\ PushHeader(t) => TypeOK'
           /\ PushBody(t) => TypeOK'
<1> USE DEF BaseInv, PCs, Goto, strandVars, fileVars, history
<1>1. ASSUME PushHeader(t) PROVE TypeOK'
  <2>1. msg[t] \in Msgs
    BY <1>1 DEF PushHeader, CallInv
  <2>2. mem' \in [Bufs -> Seq(Items)]
    BY <1>1, <2>1, PushHeaderEffect
  <2>3. QED BY <1>1, <2>1, <2>2 DEF PushHeader, TypeOK
<1>2. ASSUME PushBody(t) PROVE TypeOK'
  <2>1. mem[master] # <<>> /\ msg[t] \in Msgs
    BY <1>2 DEF PushBody, CallInv
  <2>2. mem' \in [Bufs -> Seq(Items)]
    BY <1>2, <2>1, PushBodyEffect
  <2>3. accepted' \in Seq(Msgs) /\ Len(accepted') = Len(accepted) + 1
    BY <1>2, <2>1 DEF PushBody, TypeOK
  <2>4. flushed' \in 0 .. Len(accepted')
    BY <1>2, <2>3, SMTT(20) DEF PushBody, TypeOK
  <2>5. QED BY <1>2, <2>2, <2>3, <2>4 DEF PushBody, TypeOK
<1>3. QED BY <1>1, <1>2

LEMMA RunTypes ==
    ASSUME BaseInv
    PROVE  /\ RecoverSlave => TypeOK'
           /\ RecoverMaster => TypeOK'
           /\ CtorReturns => TypeOK'
<1> USE DEF BaseInv, PCs, Goto, bufVars, lockVars, strandVars, fileVars, history
<1>1. ASSUME RecoverSlave PROVE TypeOK'
  <2>0. pending \in Seq(Threads \cup {"cache"}) /\ "cache" \in Threads \cup {"cache"}
    BY DEF TypeOK
  <2>1. pending' \in Seq(Threads \cup {"cache"}) /\ slaveFree' \in BOOLEAN
    <3>1. Append(pending, "cache") \in Seq(Threads \cup {"cache"})
      BY <2>0
    <3>2. QED BY <1>1, <2>0, <3>1 DEF RecoverSlave, TypeOK
  <2>2. QED BY <1>1, <2>1 DEF RecoverSlave, TypeOK
<1>2. ASSUME RecoverMaster PROVE TypeOK'
  BY <1>2 DEF RecoverMaster, AfterSlave, TypeOK
<1>3. ASSUME CtorReturns PROVE TypeOK'
  BY <1>3 DEF CtorReturns, TypeOK
<1>4. QED BY <1>1, <1>2, <1>3

\* A new run finds a prefix of the stream in the file.
LEMMA RestartTypes ==
    ASSUME BaseInv, NEW k \in 0 .. Len(stream), Restart(k)
    PROVE  /\ TypeOK'
           /\ k \in Nat /\ Len(stream') = k
           /\ \A i \in 1 .. k : stream'[i] = stream[i]
<1> USE DEF BaseInv
<1>1. stream \in Seq(Items \cup Headers \cup {Junk}) /\ Len(stream) \in Nat /\ k \in Nat
  BY DEF TypeOK
<1>2. /\ stream' \in Seq(Items \cup Headers \cup {Junk}) /\ Len(stream') = k
      /\ \A i \in 1 .. k : stream'[i] = stream[i]
  BY <1>1 DEF Restart
<1>3. MsgsAfter(k) \subseteq Msgs
  <2> SUFFICES ASSUME NEW i \in k + 1 .. Len(stream),
                      stream[i].kind = "item", stream[i].whole
               PROVE  stream[i].msg \in Msgs
    BY DEF MsgsAfter
  <2>1. i \in 1 .. Len(stream)
    BY <1>1
  <2>2. stream[i] \in Items
    BY <2>1, <1>1 DEF Headers, Junk
  <2>3. QED BY <2>2 DEF Items
<1>4. pending' \in Seq(Threads \cup {"cache"})
  <2>1. <<>> \in Seq(Threads \cup {"cache"})
    BY Zenon, EmptySeq
  <2>2. QED BY <2>1 DEF Restart
<1>5. /\ pc' \in [Threads -> PCs] /\ msg' \in [Threads -> Msgs \cup {NoMsg}]
      /\ op' \in [Threads -> {"ctor", "log", "flush1", "flush2"}]
  BY DEF Restart, PCs, NoMsg
<1>6. /\ mem' = mem /\ next' = next /\ flushes' = flushes /\ accepted' = accepted
      /\ promised' = promised /\ flushed' = flushed /\ late' = late
      /\ overrun' = overrun
  BY DEF Restart
<1>7. /\ master' \in Bufs /\ slaveFree' \in BOOLEAN /\ mtx' \in Threads \cup {NoOne}
      /\ cctx' \in Msgs \cup {NoMsg} /\ session' \in Nat /\ xpc' = "idle" /\ xsize' \in Nat
      /\ saved' \in 0 .. Len(stream') /\ lost' \subseteq Msgs
  BY <1>1, <1>2, <1>3, SMTT(20) DEF Restart, TypeOK, Bufs
<1>8. TypeOK'
  BY <1>2, <1>4, <1>5, <1>6, <1>7 DEF TypeOK
<1>9. QED BY <1>1, <1>2, <1>8

LEMMA TypeStep == BaseInv /\ [Next]_vars => TypeOK'
<1> SUFFICES ASSUME BaseInv, [Next]_vars PROVE TypeOK'
  OBVIOUS
<1>1. ASSUME NEW t \in Threads, LogCall(t) \/ FlushCall(t) \/ CallStep(t) PROVE TypeOK'
  BY <1>1, LogTypes, SwapTypes, FlushTypes, PushTypes DEF CallStep
<1>2. CASE CtorStep
  BY <1>2, RunTypes DEF CtorStep
<1>3. CASE StrandStep
  BY <1>3, StrandTypes, FlushTypes DEF StrandStep
<1>4. CASE Crash
  <2>1. PICK k \in saved .. Len(stream) : Restart(k)
    BY <1>4 DEF Crash
  <2>2. k \in 0 .. Len(stream)
    BY DEF BaseInv, TypeOK
  <2>3. QED BY <2>1, <2>2, RestartTypes
<1>5. CASE Close
  <2>1. Len(stream) \in 0 .. Len(stream)
    BY DEF BaseInv, TypeOK
  <2>2. QED BY <1>5, <2>1, RestartTypes DEF Close
<1>6. CASE UNCHANGED vars
  BY <1>6 DEF vars, bufVars, lockVars, strandVars, fileVars, callVars, history, BaseInv, TypeOK
<1>7. CASE \E t, u \in Threads : CompressBroken(t, u)
  BY <1>7, LogTypes, Zenon
<1>8. QED BY <1>1, <1>2, <1>3, <1>4, <1>5, <1>6, <1>7, Zenon DEF Next

-----------------------------------------------------------------------------
(* The constructor and the barriers                                           *)

\* A step of a thread inside a call.
LEMMA ThreadMoves ==
    ASSUME BaseInv, NEW t \in Threads, NEW l \in PCs,
           pc[t] \notin {"idle", "down", "await"},
           pc' = [pc EXCEPT ![t] = l], op' = op,
           l \notin {"down", "ctor"},
           l \in {"ctor2", "return"} => op[t] = "ctor",
           op[t] = "ctor" => l \in {"ctor2", "return", "barrier", "await",
                                    "load", "store", "swap", "post"}
    PROVE  /\ CtorInv'
           /\ pending' = pending => BarrierInv'
<1> USE DEF BaseInv, TypeOK
<1>1. Main \in Threads
  OBVIOUS
<1>2. CtorInv'
  <2>1. CASE op[t] = "ctor"
    BY <1>1, <2>1 DEF CtorInv, Constructing
  <2>2. CASE op[t] # "ctor"
    BY <1>1, <2>2 DEF CtorInv, Constructing
  <2>3. QED BY <2>1, <2>2
<1>3. ASSUME pending' = pending PROVE BarrierInv'
  <2> HIDE DEF BaseInv, TypeOK
  <2>1. TypeOK /\ BarrierInv
    BY Zenon DEF BaseInv
  <2>2. pc \in [Threads -> PCs] /\ pending \in Seq(Threads \cup {"cache"})
    BY <2>1, Zenon DEF TypeOK
  <2>3. \A x \in Threads : pc[x] = "await" => pc'[x] = "await"
    BY <2>2
  <2>4. \A i \in 1 .. Len(pending) : pending[i] # "cache" => pending[i] \in Threads
    BY <2>2
  <2>5. \A i \in 1 .. Len(pending) : pending[i] # "cache" => pc'[pending[i]] = "await"
    BY <2>1, <2>3, <2>4 DEF BarrierInv
  <2>6. QED BY <1>3, <2>1, <2>5 DEF BarrierInv
<1>4. QED BY <1>2, <1>3

\* Only the recovery uses the steps of the swap on behalf of the constructor.
LEMMA InLog ==
    ASSUME BaseInv, NEW t \in Threads, pc[t] \in {"reset", "lock", "push", "need"}
    PROVE  op[t] # "ctor"
  BY DEF BaseInv, CtorInv, Constructing

\* What CompressBroken does: two loggers move, and only the stream is reset.
LEMMA BrokenEffect ==
    ASSUME BaseInv, NEW t \in Threads, NEW u \in Threads, CompressBroken(t, u)
    PROVE  /\ pc[t] = "lock" /\ pc[u] = "reset" /\ mtx = NoOne /\ cctx' = NoMsg
           /\ op[t] # "ctor" /\ op[u] # "ctor" /\ ~Constructing /\ ~Constructing'
           /\ pc'[t] = "idle" /\ pc'[u] = "lock"
           /\ \A x \in Threads \ {t, u} : pc'[x] = pc[x]
           /\ UNCHANGED <<mem, master, slaveFree, mtx, session, pending, xpc, xsize>>
           /\ UNCHANGED <<stream, saved, op, msg, next, flushes, accepted, promised>>
           /\ UNCHANGED <<flushed, lost, late, overrun>> /\ slave' = slave
           /\ \A x \in Threads : \A l \in {"swap", "store", "await"} :
                  pc'[x] = l <=> pc[x] = l
<1>1. /\ pc[t] = "lock" /\ pc[u] = "reset" /\ mtx = NoOne /\ cctx' = NoMsg
      /\ pc' = [pc EXCEPT ![t] = "idle", ![u] = "lock"]
  BY Zenon DEF CompressBroken, CanLock
<1>2. pc \in [Threads -> PCs]
  BY Zenon DEF BaseInv, TypeOK
<1>3. op[t] # "ctor" /\ op[u] # "ctor" /\ ~Constructing
  BY <1>1 DEF BaseInv, CtorInv, Constructing
<1>4. /\ pc'[t] = "idle" /\ pc'[u] = "lock"
      /\ \A x \in Threads \ {t, u} : pc'[x] = pc[x]
  BY <1>1, <1>2
<1>5. /\ UNCHANGED <<mem, master, slaveFree, mtx, session, pending, xpc, xsize>>
      /\ UNCHANGED <<stream, saved, op, msg, next, flushes, accepted, promised>>
      /\ UNCHANGED <<flushed, lost, late, overrun>>
  BY DEF CompressBroken, bufVars, strandVars, fileVars, history
<1>6. ~Constructing' /\ slave' = slave
  BY <1>3, <1>4, <1>5 DEF Constructing, slave
<1>7. \A x \in Threads : \A l \in {"swap", "store", "await"} : pc'[x] = l <=> pc[x] = l
  BY <1>1, <1>4
<1>8. QED BY <1>1, <1>3, <1>4, <1>5, <1>6, <1>7

\* A CacheToFile_ task behind the others, posted by a thread that is not one of
\* those that wait.
LEMMA PostedCache ==
    ASSUME BaseInv, pending' = Append(pending, "cache"),
           \A x \in Threads : pc[x] = "await" => pc'[x] = "await"
    PROVE  BarrierInv'
<1>1. pending \in Seq(Threads \cup {"cache"})
  BY DEF BaseInv, TypeOK
<1>2. /\ \A i \in 1 .. Len(pending) : pending'[i] = pending[i]
      /\ \A i \in 1 .. Len(pending') : i \in 1 .. Len(pending) \/ pending'[i] = "cache"
  BY <1>1
<1>3. \A i \in 1 .. Len(pending) : pending[i] # "cache" => pending[i] \in Threads
  BY <1>1
<1>4. QED BY <1>1, <1>2, <1>3 DEF BarrierInv, BaseInv

LEMMA CallControl ==
    ASSUME BaseInv, NEW t \in Threads, CallStep(t)
    PROVE  CtorInv' /\ BarrierInv'
<1> USE DEF Goto, history, PCs
<1>1. CASE ResetStream(t)
  BY <1>1, ThreadMoves, InLog DEF ResetStream, BaseInv, TypeOK
<1>2. CASE PushHeader(t)
  BY <1>2, ThreadMoves, InLog DEF PushHeader, BaseInv, TypeOK
<1>3. CASE PushBody(t)
  BY <1>3, ThreadMoves, InLog DEF PushBody, BaseInv, TypeOK
<1>4. CASE NeedWriteToFile(t)
  BY <1>4, ThreadMoves, InLog DEF NeedWriteToFile, BaseInv, TypeOK
<1>5. CASE LoadFree(t)
  BY <1>5, ThreadMoves DEF LoadFree, AfterLoad, BaseInv, TypeOK
<1>6. CASE StoreBusy(t)
  BY <1>6, ThreadMoves DEF StoreBusy, BaseInv, TypeOK
<1>7. CASE SwapPointers(t)
  BY <1>7, ThreadMoves DEF SwapPointers, BaseInv, TypeOK
<1>8. CASE PostCache(t)
  <2>1. CtorInv'
    BY <1>8, ThreadMoves DEF PostCache, AfterPost, BaseInv, TypeOK
  <2>2. BarrierInv'
    BY <1>8, PostedCache DEF PostCache, BaseInv, TypeOK
  <2>3. QED BY <2>1, <2>2
<1>9. CASE PostBarrier(t)
  <2>1. CtorInv'
    BY <1>9, ThreadMoves DEF PostBarrier, BaseInv, TypeOK
  <2>2. BarrierInv'
    <3>1. pending \in Seq(Threads \cup {"cache"}) /\ pending' = Append(pending, t)
      BY <1>9 DEF PostBarrier, Barrier, BaseInv, TypeOK
    <3>2. /\ \A i \in 1 .. Len(pending) : pending'[i] = pending[i]
          /\ \A i \in 1 .. Len(pending') : i \in 1 .. Len(pending) \/
                                           (i = Len(pending) + 1 /\ pending'[i] = t)
      BY <3>1
    <3>3. \A x \in Threads : pc'[x] = "await" <=> pc[x] = "await" \/ x = t
      BY <1>9 DEF PostBarrier, BaseInv, TypeOK
    <3>4. \A i \in 1 .. Len(pending) : pending[i] # "cache" => pending[i] \in Threads
      BY <3>1
    <3>5. \A i \in 1 .. Len(pending) : pending[i] # t
      BY <1>9 DEF PostBarrier, BarrierInv, BaseInv
    <3>6. QED BY <3>1, <3>2, <3>3, <3>4, <3>5, SMTT(20) DEF BarrierInv, BaseInv
  <2>3. QED BY <2>1, <2>2
<1>10. ASSUME NEW call \in FailingCalls, LogFails(t, call) PROVE CtorInv' /\ BarrierInv'
  BY <1>10, ThreadMoves, InLog DEF LogFails, BaseInv, TypeOK
<1>11. QED BY <1>1, <1>2, <1>3, <1>4, <1>5, <1>6, <1>7, <1>8, <1>9, <1>10 DEF CallStep

\* A new call, from a thread that is idle.
LEMMA NewCallControl ==
    ASSUME BaseInv, NEW t \in Threads, LogCall(t) \/ FlushCall(t)
    PROVE  CtorInv' /\ BarrierInv'
<1>1. /\ pc[t] = "idle" /\ pending' = pending
      /\ \E l \in {"reset", "lock", "post"} : pc' = [pc EXCEPT ![t] = l]
      /\ \E o \in {"log", "flush1"} : op' = [op EXCEPT ![t] = o]
  BY DEF LogCall, FlushCall, Goto
<1>2. ~Constructing
  BY <1>1 DEF CtorInv, Constructing, BaseInv
<1>3. CtorInv'
  BY <1>1, <1>2 DEF CtorInv, Constructing, BaseInv, TypeOK
<1>4. BarrierInv'
  BY <1>1, SMTT(20) DEF BarrierInv, BaseInv, TypeOK
<1>5. QED BY <1>3, <1>4

\* The head of the strand is taken.
LEMMA TailBarriers ==
    ASSUME BaseInv, pending # <<>>, pending' = Tail(pending),
           \A i \in 1 .. Len(pending') :
               pending'[i] # "cache" => pc'[pending'[i]] = pc[pending'[i]]
    PROVE  BarrierInv'
<1>1. pending \in Seq(Threads \cup {"cache"})
  BY DEF BaseInv, TypeOK
<1>2. \A i \in 1 .. Len(pending') : i + 1 \in 1 .. Len(pending) /\ pending'[i] = pending[i + 1]
  BY <1>1
<1>3. ASSUME NEW i \in 1 .. Len(pending'), pending'[i] # "cache"
      PROVE  pc'[pending'[i]] = "await"
  <2>1. i + 1 \in 1 .. Len(pending) /\ pending[i + 1] = pending'[i]
    BY <1>2
  <2>2. pc[pending[i + 1]] = "await"
    BY <1>3, <2>1 DEF BarrierInv, BaseInv
  <2>3. pc'[pending'[i]] = pc[pending'[i]]
    BY <1>3
  <2>4. QED BY <2>1, <2>2, <2>3
<1>4. ASSUME NEW i \in 1 .. Len(pending'), NEW j \in 1 .. Len(pending'),
             pending'[i] = pending'[j], pending'[i] # "cache"
      PROVE  i = j
  <2>1. i + 1 \in 1 .. Len(pending) /\ pending[i + 1] = pending'[i]
    BY <1>2
  <2>2. j + 1 \in 1 .. Len(pending) /\ pending[j + 1] = pending'[j]
    BY <1>2
  <2>3. i + 1 = j + 1
    BY <1>4, <2>1, <2>2 DEF BarrierInv, BaseInv
  <2>4. QED BY <2>3
<1>5. QED BY <1>3, <1>4 DEF BarrierInv

LEMMA StrandControl ==
    ASSUME BaseInv, StrandStep
    PROVE  CtorInv' /\ BarrierInv'
<1> USE DEF callVars
<1>1. CASE RunCache
  <2>1. CtorInv'
    BY <1>1 DEF RunCache, BaseInv, CtorInv, Constructing
  <2>2. BarrierInv'
    BY <1>1, TailBarriers DEF RunCache
  <2>3. QED BY <2>1, <2>2
<1>2. ASSUME NEW t \in Threads, RunBarrier(t) PROVE CtorInv' /\ BarrierInv'
  <2>0. /\ pending \in Seq(Threads \cup {"cache"}) /\ pending # <<>>
        /\ pending[1] = t /\ t # "cache" /\ Len(pending) \in Nat /\ 1 \in 1 .. Len(pending)
    BY <1>2, SMTT(20) DEF RunBarrier, BaseInv, TypeOK
  <2>1. pc[t] = "await"
    BY <2>0 DEF BarrierInv, BaseInv
  <2>2. \A i \in 1 .. Len(pending') : pending'[i] # t /\ pending'[i] \in Threads \cup {"cache"}
    <3>1. \A i \in 1 .. Len(pending') : i + 1 \in 1 .. Len(pending) /\ pending'[i] = pending[i + 1]
      BY <1>2, <2>0 DEF RunBarrier
    <3>2. QED BY <3>1, <2>0 DEF BarrierInv, BaseInv
  <2>3. \A x \in Threads : x # t => pc'[x] = pc[x] /\ op'[x] = op[x]
    BY <1>2 DEF RunBarrier, Goto, BaseInv, TypeOK
  <2>4. BarrierInv'
    BY <1>2, <2>2, <2>3, TailBarriers DEF RunBarrier
  <2>5. \/ op[t] = "flush2" /\ op'[t] = "flush2" /\ pc'[t] = "idle"
        \/ op[t] = "flush1" /\ op'[t] = "flush2" /\ pc'[t] = "load"
        \/ op[t] \in {"ctor", "log"} /\ op'[t] = op[t] /\ pc'[t] = "load"
    BY <1>2 DEF RunBarrier, Goto, BaseInv, TypeOK
  <2>6. CtorInv'
    BY <2>1, <2>3, <2>5 DEF CtorInv, Constructing, BaseInv
  <2>7. QED BY <2>4, <2>6
<1>3. CASE UNCHANGED <<pc, op, pending>>
  BY <1>3 DEF BaseInv, CtorInv, Constructing, BarrierInv
<1>4. QED
  BY <1>1, <1>2, <1>3 DEF StrandStep, FreeEmptySlave, SlaveNotEmpty, ReadSize,
                          WriteHeader, WriteData, ClearSlave, FreeSlave

LEMMA CtorControl ==
    ASSUME BaseInv, CtorStep
    PROVE  CtorInv' /\ BarrierInv'
<1> USE DEF Goto, PCs
<1>1. Main \in Threads /\ \A t \in Threads : pc[t] \in PCs
  BY DEF BaseInv, TypeOK
<1>2. CASE RecoverSlave
  <2>1. CtorInv'
    BY <1>1, <1>2, ThreadMoves DEF RecoverSlave, BaseInv, CtorInv, TypeOK
  <2>2. CASE pending' = Append(pending, "cache")
    BY <1>2, <2>1, <2>2, PostedCache DEF RecoverSlave, BaseInv, TypeOK
  <2>3. CASE pending' = pending
    BY <1>2, <2>1, <2>3, ThreadMoves DEF RecoverSlave, BaseInv, CtorInv, TypeOK
  <2>4. QED BY <1>2, <2>2, <2>3 DEF RecoverSlave
<1>3. CASE RecoverMaster
  BY <1>1, <1>3, ThreadMoves DEF RecoverMaster, AfterSlave, BaseInv, CtorInv, TypeOK
<1>4. CASE CtorReturns
  <2>1. Constructing
    BY <1>4 DEF CtorReturns, Constructing, BaseInv, CtorInv
  <2>2. \A i \in 1 .. Len(pending) : pending[i] = "cache"
    <3>1. \A t \in Threads : pc[t] # "await"
      BY <1>4, <2>1 DEF CtorReturns, BaseInv, CtorInv
    <3>2. \A i \in 1 .. Len(pending) : pending[i] \in Threads \cup {"cache"}
      BY DEF BaseInv, TypeOK
    <3>3. QED BY <3>1, <3>2 DEF BaseInv, BarrierInv
  <2>3. BarrierInv'
    BY <1>4, <2>2 DEF CtorReturns, BarrierInv
  <2>4. CtorInv'
    BY <1>4 DEF CtorReturns, CtorInv, Constructing
  <2>5. QED BY <2>3, <2>4
<1>5. QED BY <1>2, <1>3, <1>4 DEF CtorStep

LEMMA BrokenControl ==
    ASSUME BaseInv, NEW t \in Threads, NEW u \in Threads, CompressBroken(t, u)
    PROVE  CtorInv' /\ BarrierInv'
<1>1. CtorInv'
  BY BrokenEffect DEF CtorInv, Constructing, BaseInv
<1>2. \A i \in 1 .. Len(pending) : pending[i] # "cache" => pending[i] \in Threads
  BY DEF BaseInv, TypeOK
<1>3. BarrierInv'
  <2>1. \A x \in Threads : pc[x] = "await" => pc'[x] = "await"
    BY BrokenEffect
  <2>2. BarrierInv /\ pending' = pending
    BY BrokenEffect, Zenon DEF BaseInv
  <2>3. QED BY <1>2, <2>1, <2>2 DEF BarrierInv
<1>4. QED BY <1>1, <1>3

LEMMA ControlStep == BaseInv /\ [Next]_vars => CtorInv' /\ BarrierInv'
<1> SUFFICES ASSUME BaseInv, [Next]_vars PROVE CtorInv' /\ BarrierInv'
  OBVIOUS
<1>1. CASE \E t \in Threads : LogCall(t) \/ FlushCall(t) \/ CallStep(t)
  BY <1>1, CallControl, NewCallControl
<1>2. CASE CtorStep \/ StrandStep
  BY <1>2, CtorControl, StrandControl
<1>3. CASE Crash \/ Close
  <2>1. PICK k : Restart(k)
    BY <1>3 DEF Crash, Close
  <2>2. QED BY <2>1 DEF Restart, CtorInv, Constructing, BarrierInv
<1>4. CASE UNCHANGED vars
  BY <1>4 DEF vars, callVars, BaseInv, CtorInv, Constructing, BarrierInv
<1>5. CASE \E t, u \in Threads : CompressBroken(t, u)
  BY <1>5, BrokenControl, Zenon
<1>6. QED BY <1>1, <1>2, <1>3, <1>4, <1>5, Zenon DEF Next

-----------------------------------------------------------------------------
(* The mappings, the file and the lock                                        *)

DataInv == MutexInv /\ CallInv /\ KeyInv /\ TornInv

\* A step that leaves the mappings, the file, the lock and the session alone
\* only has to keep what the calls promise.
LEMMA QuietData ==
    ASSUME BaseInv,
           UNCHANGED <<mem, master, session, stream, mtx, accepted>>,
           \A t \in Threads : pc'[t] = "push" <=> pc[t] = "push",
           \A t \in Threads : pc[t] = "push" => msg'[t] = msg[t],
           \A t \in Threads : pc'[t] \in {"reset", "lock", "push"} => msg'[t] \in Msgs,
           \A t \in Threads : promised'[t] <= Len(accepted)
    PROVE  DataInv'
<1>1. MutexInv'
  BY DEF BaseInv, MutexInv
<1>2. CallInv'
  BY DEF BaseInv, CallInv
<1>3. KeyInv'
  BY DEF BaseInv, KeyInv
<1>4. TornInv'
  BY DEF BaseInv, TornInv
<1>5. QED BY <1>1, <1>2, <1>3, <1>4 DEF DataInv

LEMMA BrokenData ==
    ASSUME BaseInv, NEW t \in Threads, NEW u \in Threads, CompressBroken(t, u)
    PROVE  DataInv'
<1>1. /\ \A x \in Threads : pc[x] \in {"reset", "lock", "push"} => msg[x] \in Msgs
      /\ \A x \in Threads : promised[x] <= Len(accepted)
  BY DEF BaseInv, CallInv
<1>2. QED BY <1>1, BrokenEffect, QuietData

LEMMA QuietCall ==
    ASSUME BaseInv, NEW t \in Threads,
           \/ LogCall(t) \/ FlushCall(t) \/ ResetStream(t) \/ NeedWriteToFile(t)
           \/ LoadFree(t) \/ StoreBusy(t) \/ PostCache(t) \/ PostBarrier(t)
           \/ \E call \in FailingCalls : LogFails(t, call)
    PROVE  DataInv'
<1> USE DEF Goto, bufVars, lockVars, fileVars, strandVars, history
<1>1. /\ pc \in [Threads -> PCs] /\ msg \in [Threads -> Msgs \cup {NoMsg}]
      /\ promised \in [Threads -> Nat] /\ Len(accepted) \in Nat
      /\ \A x \in Threads : promised[x] <= Len(accepted)
      /\ \A x \in Threads : pc[x] \in {"reset", "lock", "push"} => msg[x] \in Msgs
  <2>1. TypeOK /\ CallInv
    BY Zenon DEF BaseInv
  <2>2. /\ pc \in [Threads -> PCs] /\ msg \in [Threads -> Msgs \cup {NoMsg}]
        /\ promised \in [Threads -> Nat] /\ accepted \in Seq(Msgs)
    BY <2>1, Zenon DEF TypeOK
  <2>3. /\ \A x \in Threads : promised[x] <= Len(accepted)
        /\ \A x \in Threads : pc[x] \in {"reset", "lock", "push"} => msg[x] \in Msgs
    BY <2>1, Zenon DEF CallInv
  <2>4. Len(accepted) \in Nat
    BY <2>2
  <2>5. QED BY <2>2, <2>3, <2>4
<1>2. CASE LogCall(t)
  <2>1. UNCHANGED <<mem, master, session, stream, mtx, accepted, promised>>
    BY <1>2 DEF LogCall
  <2>2. /\ \A x \in Threads : pc'[x] = "push" <=> pc[x] = "push"
        /\ \A x \in Threads : x # t => pc'[x] = pc[x] /\ msg'[x] = msg[x]
        /\ pc[t] = "idle" /\ msg'[t] \in Msgs
    BY <1>1, <1>2 DEF LogCall
  <2>3. \A x \in Threads : pc[x] = "push" => msg'[x] = msg[x]
    BY <2>2
  <2>4. \A x \in Threads : pc'[x] \in {"reset", "lock", "push"} => msg'[x] \in Msgs
    BY <1>1, <2>2
  <2>5. \A x \in Threads : promised'[x] <= Len(accepted)
    BY <1>1, <2>1
  <2>6. QED BY <2>1, <2>2, <2>3, <2>4, <2>5, QuietData
<1>3. CASE FlushCall(t)
  BY <1>1, <1>3, QuietData DEF FlushCall
<1>4. CASE ResetStream(t)
  BY <1>1, <1>4, QuietData DEF ResetStream
<1>5. CASE NeedWriteToFile(t)
  BY <1>1, <1>5, QuietData DEF NeedWriteToFile
<1>6. CASE LoadFree(t)
  BY <1>1, <1>6, QuietData DEF LoadFree, AfterLoad
<1>7. CASE StoreBusy(t)
  BY <1>1, <1>7, QuietData DEF StoreBusy
<1>8. CASE PostCache(t)
  BY <1>1, <1>8, QuietData DEF PostCache, AfterPost
<1>9. CASE PostBarrier(t)
  BY <1>1, <1>9, QuietData DEF PostBarrier
<1>10. ASSUME NEW call \in FailingCalls, LogFails(t, call) PROVE DataInv'
  BY <1>1, <1>10, QuietData DEF LogFails
<1>11. QED BY <1>2, <1>3, <1>4, <1>5, <1>6, <1>7, <1>8, <1>9, <1>10

LEMMA QuietStrand ==
    ASSUME BaseInv,
           \/ RunCache \/ FreeEmptySlave \/ SlaveNotEmpty \/ ReadSize \/ FreeSlave
           \/ RecoverSlave \/ RecoverMaster \/ CtorReturns
           \/ \E t \in Threads : RunBarrier(t)
    PROVE  DataInv'
<1> USE DEF Goto, bufVars, lockVars, fileVars, strandVars, callVars, history
<1>1. /\ pc \in [Threads -> PCs] /\ msg \in [Threads -> Msgs \cup {NoMsg}]
      /\ \A x \in Threads : promised[x] <= Len(accepted)
      /\ \A x \in Threads : pc[x] \in {"reset", "lock", "push"} => msg[x] \in Msgs
      /\ Main \in Threads
  BY DEF BaseInv, TypeOK, CallInv
<1>2. CASE RunCache \/ FreeEmptySlave \/ SlaveNotEmpty \/ ReadSize \/ FreeSlave
  BY <1>1, <1>2, QuietData DEF RunCache, FreeEmptySlave, SlaveNotEmpty, ReadSize, FreeSlave
<1>3. CASE RecoverSlave
  BY <1>1, <1>3, QuietData DEF RecoverSlave
<1>4. CASE RecoverMaster
  BY <1>1, <1>4, QuietData DEF RecoverMaster, AfterSlave
<1>5. CASE CtorReturns
  <2>1. \A x \in Threads : pc[x] # "push"
    BY <1>5 DEF CtorReturns, BaseInv, CtorInv, Constructing
  <2>2. QED BY <1>1, <1>5, <2>1, QuietData DEF CtorReturns
<1>6. ASSUME NEW t \in Threads, RunBarrier(t) PROVE DataInv'
  <2>1. pc[t] = "await"
    <3>1. /\ pending \in Seq(Threads \cup {"cache"}) /\ 1 \in 1 .. Len(pending)
          /\ pending[1] = t /\ t # "cache"
      BY <1>6, SMTT(20) DEF RunBarrier, BaseInv, TypeOK
    <3>2. QED BY <3>1 DEF BaseInv, BarrierInv
  <2>2. \A x \in Threads : pc'[x] = IF x = t THEN pc'[t] ELSE pc[x]
    BY <1>1, <1>6 DEF RunBarrier
  <2>3. pc'[t] \in {"idle", "load"} /\ msg' = msg
    BY <1>1, <1>6 DEF RunBarrier
  <2>4. UNCHANGED <<mem, master, session, stream, mtx, accepted, promised>>
    BY <1>6 DEF RunBarrier
  <2>5. QED BY <1>1, <2>1, <2>2, <2>3, <2>4, QuietData
<1>7. QED BY <1>2, <1>3, <1>4, <1>5, <1>6

LEMMA PushHeaderData ==
    ASSUME BaseInv, NEW t \in Threads, PushHeader(t)
    PROVE  DataInv'
<1> DEFINE e == [kind |-> "item", msg |-> msg[t], prev |-> cctx,
                 key |-> session, whole |-> FALSE]
           n == Len(mem[master])
<1> USE DEF Goto, fileVars, strandVars, history
<1>0. TypeOK /\ pc \in [Threads -> PCs] /\ msg[t] \in Msgs /\ session \in Nat
  BY DEF PushHeader, BaseInv, CallInv, TypeOK
<1>1. /\ e \in Items /\ mem[master] \in Seq(Items)
      /\ mem'[master] = Append(mem[master], e)
      /\ mem'[slave] = mem[slave]
  BY <1>0, PushHeaderEffect
<1>2. Bufs = {master, slave} /\ slave # master
  BY TwoBufs DEF BaseInv, TypeOK, slave
<1>3. /\ pc[t] = "lock" /\ mtx = NoOne /\ mtx' = t /\ pc' = [pc EXCEPT ![t] = "push"]
      /\ UNCHANGED <<master, session, stream, accepted, promised, msg>>
  BY DEF PushHeader, CanLock
<1>4. /\ e.msg = msg[t] /\ e.key = session
  OBVIOUS
<1> HIDE DEF e
<1>5. /\ Len(mem'[master]) = n + 1 /\ n \in Nat
      /\ \A i \in 1 .. n : mem'[master][i] = mem[master][i]
      /\ mem'[master][n + 1] = e
  BY <1>1
<1>6. \A i \in 1 .. n + 1 : i \in 1 .. n \/ i = n + 1
  BY <1>5
<1>7. MutexInv'
  BY <1>0, <1>3 DEF MutexInv, BaseInv
<1>8. CallInv'
  <2>1. mem'[master'] # <<>> /\ mem'[master'][Len(mem'[master'])].msg = msg'[t]
    BY <1>3, <1>4, <1>5
  <2>2. \A x \in Threads : x # t => pc'[x] # "push" /\ pc'[x] = pc[x]
    BY <1>0, <1>3 DEF MutexInv, BaseInv
  <2>3. QED BY <1>0, <1>3, <2>1, <2>2 DEF CallInv, BaseInv
<1>9. KeyInv'
  <2>1. \A i \in 1 .. n : mem[master][i].key <= session
    BY <1>2 DEF KeyInv, BaseInv
  <2>2. ASSUME NEW i \in 1 .. Len(mem'[master]) PROVE mem'[master][i].key <= session
    <3>1. CASE i = n + 1
      BY <1>0, <1>4, <1>5, <3>1
    <3>2. CASE i \in 1 .. n
      BY <1>5, <2>1, <3>2
    <3>3. QED BY <1>5, <1>6, <3>1, <3>2
  <2>3. QED BY <1>1, <1>2, <1>3, <2>2 DEF KeyInv, BaseInv
<1>10. TornInv'
  <2>1. mtx' # NoOne
    BY <1>3
  <2>2. \A i \in 1 .. n : mem[master][i].key = session => mem[master][i].whole
    BY <1>2, <1>3 DEF TornInv, BaseInv
  <2>3. \A i \in 1 .. Len(mem[slave]) : mem[slave][i].key = session => mem[slave][i].whole
    BY <1>2, <1>3 DEF TornInv, BaseInv
  <2>4. \A i \in 1 .. Len(mem'[master]) :
            mem'[master][i].key = session /\ ~mem'[master][i].whole => i = Len(mem'[master])
    BY <1>5, <1>6, <2>2
  <2>5. QED BY <1>1, <1>2, <1>3, <2>1, <2>3, <2>4 DEF TornInv, BaseInv
<1>11. QED BY <1>7, <1>8, <1>9, <1>10 DEF DataInv

LEMMA PushBodyData ==
    ASSUME BaseInv, NEW t \in Threads, PushBody(t)
    PROVE  DataInv'
<1> DEFINE n == Len(mem[master])
<1> USE DEF Goto, fileVars, strandVars, history
<1>0. TypeOK /\ pc \in [Threads -> PCs] /\ Len(accepted) \in Nat
  BY SMTT(20) DEF BaseInv, TypeOK
<1>1. mem[master] # <<>> /\ msg[t] \in Msgs
  BY DEF PushBody, BaseInv, CallInv
<1>2. /\ n \in Nat /\ n >= 1 /\ Len(mem'[master]) = n
      /\ mem'[slave] = mem[slave]
      /\ \A i \in 1 .. n - 1 : mem'[master][i] = mem[master][i]
      /\ mem'[master][n] = [mem[master][n] EXCEPT !.whole = TRUE]
      /\ mem[master][n] \in Items
  BY <1>0, <1>1, PushBodyEffect
<1>3. /\ mem'[master][n].whole /\ mem'[master][n].key = mem[master][n].key
  BY <1>2 DEF Items
<1>4. Bufs = {master, slave} /\ slave # master
  BY TwoBufs DEF BaseInv, TypeOK, slave
<1>5. /\ pc[t] = "push" /\ mtx' = NoOne /\ pc' = [pc EXCEPT ![t] = "need"]
      /\ accepted' = Append(accepted, msg[t])
      /\ UNCHANGED <<master, session, stream, promised, msg>>
  BY DEF PushBody
<1>6. \A i \in 1 .. n : i \in 1 .. n - 1 \/ i = n
  BY <1>2
<1>7. MutexInv'
  BY <1>0, <1>5 DEF MutexInv, BaseInv
<1>8. CallInv'
  <2>1. \A x \in Threads : pc'[x] # "push" /\ (x # t => pc'[x] = pc[x])
    BY <1>0, <1>5 DEF MutexInv, BaseInv
  <2>2. Len(accepted') = Len(accepted) + 1
    BY <1>1, <1>5 DEF BaseInv, TypeOK
  <2>3. \A x \in Threads : promised[x] \in Nat /\ promised[x] <= Len(accepted)
    BY DEF BaseInv, TypeOK, CallInv
  <2>4. \A x \in Threads : promised'[x] <= Len(accepted')
    BY <1>0, <1>5, <2>2, <2>3
  <2>5. \A x \in Threads : pc'[x] \in {"reset", "lock", "push"} => msg'[x] \in Msgs
    BY <1>0, <1>1, <1>5 DEF CallInv, BaseInv
  <2>6. QED BY <2>1, <2>4, <2>5 DEF CallInv
<1>9. KeyInv'
  <2>1. \A i \in 1 .. n : mem[master][i].key <= session
    BY <1>4 DEF KeyInv, BaseInv
  <2>2. ASSUME NEW i \in 1 .. Len(mem'[master]) PROVE mem'[master][i].key <= session
    <3>1. CASE i = n
      BY <1>2, <1>3, <2>1, <3>1
    <3>2. CASE i \in 1 .. n - 1
      BY <1>2, <2>1, <3>2
    <3>3. QED BY <1>2, <1>6, <3>1, <3>2
  <2>3. QED BY <1>2, <1>4, <1>5, <2>2 DEF KeyInv, BaseInv
<1>10. TornInv'
  <2>1. \A i \in 1 .. n - 1 : mem[master][i].key = session => mem[master][i].whole
    BY <1>2, <1>4 DEF TornInv, BaseInv
  <2>2. ASSUME NEW i \in 1 .. Len(mem'[master])
        PROVE  mem'[master][i].key = session => mem'[master][i].whole
    <3>1. CASE i = n
      BY <1>3, <3>1
    <3>2. CASE i \in 1 .. n - 1
      BY <1>2, <2>1, <3>2
    <3>3. QED BY <1>2, <1>6, <3>1, <3>2
  <2>3. \A i \in 1 .. Len(mem[slave]) : mem[slave][i].key = session => mem[slave][i].whole
    BY <1>4 DEF TornInv, BaseInv
  <2>4. QED BY <1>2, <1>4, <1>5, <2>2, <2>3 DEF TornInv, BaseInv
<1>11. QED BY <1>7, <1>8, <1>9, <1>10 DEF DataInv

LEMMA SwapData ==
    ASSUME BaseInv, NEW t \in Threads, SwapPointers(t)
    PROVE  DataInv'
<1> USE DEF Goto, lockVars, strandVars, fileVars
<1>0. /\ TypeOK /\ pc \in [Threads -> PCs] /\ pc[t] = "swap" /\ mtx = NoOne
      /\ pc' = [pc EXCEPT ![t] = "post"]
      /\ UNCHANGED <<mem, mtx, session, stream, accepted, promised, msg>>
  BY DEF SwapPointers, CanLock, BaseInv, TypeOK
<1>1. MutexInv'
  BY <1>0 DEF MutexInv, BaseInv
<1>2. CallInv'
  <2>1. \A x \in Threads : pc'[x] # "push" /\ pc[x] # "push"
    BY <1>0 DEF MutexInv, BaseInv
  <2>2. \A x \in Threads : pc'[x] \in {"reset", "lock", "push"} => pc'[x] = pc[x]
    BY <1>0
  <2>3. QED BY <1>0, <2>1, <2>2 DEF CallInv, BaseInv
<1>3. KeyInv'
  BY <1>0 DEF KeyInv, BaseInv
<1>4. TornInv'
  BY <1>0 DEF TornInv, BaseInv
<1>5. QED BY <1>1, <1>2, <1>3, <1>4 DEF DataInv

\* What the strand writes out of the slave: its items, or what is behind them.
LEMMA BlockIsSlave ==
    ASSUME BaseInv, NEW n \in Nat, NEW i \in 1 .. n
    PROVE  LET c == Block(slave, n)[i]
           IN /\ c.key <= session
              /\ c.key = session => c.whole
<1>1. slave \in Bufs /\ slave # master /\ mem[slave] \in Seq(Items)
  BY TwoBufs DEF BaseInv, TypeOK, slave
<1>2. CASE i <= Len(mem[slave])
  <2>1. Block(slave, n)[i] = mem[slave][i] /\ i \in 1 .. Len(mem[slave])
    BY <1>1, <1>2 DEF Block
  <2>2. QED BY <1>1, <2>1 DEF BaseInv, KeyInv, TornInv
<1>3. CASE ~(i <= Len(mem[slave]))
  <2>1. Block(slave, n)[i] = Junk
    BY <1>3 DEF Block
  <2>2. Junk.key = 0 /\ session \in Nat /\ session >= 1
    BY DEF Junk, BaseInv, KeyInv, TypeOK
  <2>3. QED BY <2>1, <2>2
<1>4. QED BY <1>2, <1>3

\* The steps that append to the file.
LEMMA WriteDataInv ==
    ASSUME BaseInv, WriteHeader \/ WriteData
    PROVE  DataInv'
<1> USE DEF bufVars, lockVars, callVars, history
<1>1. /\ UNCHANGED <<mem, master, mtx, session, accepted, promised, msg, pc>>
      /\ stream \in Seq(Items \cup Headers \cup {Junk}) /\ Len(stream) \in Nat
      /\ xsize \in Nat
  <2>1. UNCHANGED <<mem, master, mtx, session, accepted, promised, msg, pc>>
    BY Zenon DEF WriteHeader, WriteData
  <2>2. QED BY <2>1 DEF BaseInv, TypeOK
<1>2. MutexInv' /\ CallInv'
  BY <1>1 DEF MutexInv, CallInv, BaseInv
<1>3. /\ \A i \in 1 .. Len(stream) : stream'[i] = stream[i]
      /\ \A i \in 1 .. Len(stream') : i \notin 1 .. Len(stream) =>
            /\ stream'[i].kind = "item" => stream'[i].key <= session
            /\ stream'[i].kind = "item" /\ stream'[i].key = session => stream'[i].whole
  <2>1. CASE WriteHeader
    BY <1>1, <2>1 DEF WriteHeader
  <2>2. CASE WriteData
    <3> DEFINE b == Block(slave, xsize)
    <3>1. b \in Seq(Items \cup {Junk}) /\ Len(b) = xsize
      BY <1>1, BlockType DEF BaseInv
    <3>2. \A i \in 1 .. xsize : b[i].key <= session /\ (b[i].key = session => b[i].whole)
      BY <1>1, BlockIsSlave
    <3>3. stream' = stream \o b
      BY <2>2 DEF WriteData
    <3> HIDE DEF b
    <3>4. /\ \A i \in 1 .. Len(stream) : stream'[i] = stream[i]
          /\ \A i \in 1 .. Len(stream') : i \notin 1 .. Len(stream) =>
                i - Len(stream) \in 1 .. xsize /\ stream'[i] = b[i - Len(stream)]
      BY <1>1, <3>1, <3>3
    <3>5. QED BY <3>2, <3>4
  <2>3. QED BY <2>1, <2>2
<1>4. KeyInv'
  BY <1>1, <1>3 DEF KeyInv, BaseInv
<1>5. TornInv'
  BY <1>1, <1>3 DEF TornInv, BaseInv
<1>6. QED BY <1>2, <1>4, <1>5 DEF DataInv

LEMMA ClearData ==
    ASSUME BaseInv, ClearSlave
    PROVE  DataInv'
<1> USE DEF lockVars, fileVars, callVars, history
<1>1. Bufs = {master, slave} /\ slave # master
  BY TwoBufs DEF BaseInv, TypeOK, slave
<1>2. /\ mem'[slave] = <<>> /\ mem'[master] = mem[master] /\ Len(mem'[slave]) = 0
      /\ UNCHANGED <<master, mtx, session, stream, accepted, promised, msg, pc>>
  BY <1>1 DEF ClearSlave, Clear, BaseInv, TypeOK
<1>3. MutexInv' /\ CallInv'
  BY <1>2 DEF MutexInv, CallInv, BaseInv
<1>4. KeyInv'
  BY <1>1, <1>2 DEF KeyInv, BaseInv
<1>5. TornInv'
  BY <1>1, <1>2 DEF TornInv, BaseInv
<1>6. QED BY <1>3, <1>4, <1>5 DEF DataInv

LEMMA RestartData ==
    ASSUME BaseInv, NEW k \in 0 .. Len(stream), Restart(k)
    PROVE  DataInv'
<1>1. /\ k \in Nat /\ Len(stream') = k /\ Len(stream) \in Nat
      /\ \A i \in 1 .. k : stream'[i] = stream[i] /\ i \in 1 .. Len(stream)
  <2>1. /\ k \in Nat /\ Len(stream') = k
        /\ \A i \in 1 .. k : stream'[i] = stream[i]
    BY RestartTypes
  <2>2. stream \in Seq(Items \cup Headers \cup {Junk}) /\ Len(stream) \in Nat
    BY DEF BaseInv, TypeOK
  <2>3. QED BY <2>1, <2>2
<1>2. /\ session' = session + 1 /\ session \in Nat /\ session >= 1
      /\ mem' = mem /\ mtx' = NoOne /\ accepted' = accepted /\ promised' = promised
      /\ \A t \in Threads : pc'[t] \in {"ctor", "down"}
  BY DEF Restart, BaseInv, TypeOK, KeyInv
<1>3. \A b \in Bufs : \A i \in 1 .. Len(mem[b]) : mem[b][i].key \in Nat
  <2>1. \A b \in Bufs : mem[b] \in Seq(Items)
    BY DEF BaseInv, TypeOK
  <2>2. \A b \in Bufs : \A i \in 1 .. Len(mem[b]) : mem[b][i] \in Items
    BY <2>1
  <2>3. \A x \in Items : x.key \in Nat
    BY DEF Items
  <2>4. QED BY <2>2, <2>3
<1>4. \A i \in 1 .. Len(stream) : stream[i].kind = "item" => stream[i].key \in Nat
  <2>1. stream \in Seq(Items \cup Headers \cup {Junk})
    BY DEF BaseInv, TypeOK
  <2>2. QED BY <2>1 DEF Items, Headers, Junk
<1>5. MutexInv' /\ CallInv'
  BY <1>2 DEF MutexInv, CallInv, BaseInv
<1>6. KeyInv'
  BY <1>1, <1>2, <1>3, <1>4, SMTT(20) DEF KeyInv, BaseInv
<1>7. TornInv'
  <2>1. \A b \in Bufs : \A i \in 1 .. Len(mem[b]) : mem[b][i].key # session'
    BY <1>2, <1>3 DEF KeyInv, BaseInv
  <2>2. \A i \in 1 .. Len(stream') : stream'[i].kind = "item" => stream'[i].key # session'
    BY <1>1, <1>2, <1>4 DEF KeyInv, BaseInv
  <2>3. QED BY <1>2, <2>1, <2>2 DEF TornInv
<1>8. QED BY <1>5, <1>6, <1>7 DEF DataInv

\* Crash and Close, as restarts on a prefix of the stream.
LEMMA RunEnds ==
    ASSUME BaseInv, Crash \/ Close
    PROVE  \E k \in 0 .. Len(stream) : Restart(k)
<1>1. CASE Crash
  BY <1>1 DEF Crash, BaseInv, TypeOK
<1>2. CASE Close
  BY <1>2 DEF Close, BaseInv, TypeOK
<1>3. QED BY <1>1, <1>2

LEMMA BaseStep == BaseInv /\ [Next]_vars => BaseInv'
<1> SUFFICES ASSUME BaseInv, [Next]_vars PROVE BaseInv'
  OBVIOUS
<1>1. TypeOK' /\ CtorInv' /\ BarrierInv'
  BY TypeStep, ControlStep
<1>2. DataInv'
  <2>1. CASE \E t \in Threads : LogCall(t) \/ FlushCall(t) \/ CallStep(t)
    BY <2>1, QuietCall, PushHeaderData, PushBodyData, SwapData DEF CallStep
  <2>2. CASE CtorStep \/ StrandStep
    BY <2>2, QuietStrand, WriteDataInv, ClearData DEF CtorStep, StrandStep
  <2>3. CASE Crash \/ Close
    BY <2>3, RunEnds, RestartData
  <2>4. CASE UNCHANGED vars
    BY <2>4 DEF vars, bufVars, lockVars, fileVars, callVars, history, BaseInv, DataInv,
                MutexInv, CallInv, KeyInv, TornInv
  <2>5. CASE \E t, u \in Threads : CompressBroken(t, u)
    BY <2>5, BrokenData, Zenon
  <2>6. QED BY <2>1, <2>2, <2>3, <2>4, <2>5, Zenon DEF Next
<1>3. QED BY <1>1, <1>2 DEF BaseInv, DataInv

LEMMA BaseInvariance == Spec => []BaseInv
  BY InitBase, BaseStep, PTL DEF Spec

-----------------------------------------------------------------------------
(* No stored message disappears                                               *)

\* Until a slave is swapped away under it, the strand knows its size, and what
\* it is about to clear is in the file.
SizeInv ==
    ~overrun =>
        /\ xpc \in {"header", "data"} => xsize = Len(mem[slave])
        /\ xpc = "clear" => \A i \in 1 .. Len(mem[slave]) :
                               mem[slave][i].whole => InStream(mem[slave][i].msg)

\* Where a message is after a step.
LEMMA HeldAfter ==
    ASSUME NEW m, NEW b \in Bufs, NEW i \in 1 .. Len(mem'[b]),
           mem'[b][i].msg = m, mem'[b][i].whole
    PROVE  InMem(m)'
  BY DEF InMem

LEMMA WrittenAfter ==
    ASSUME NEW m, NEW i \in 1 .. Len(stream'),
           stream'[i].kind = "item", stream'[i].msg = m, stream'[i].whole
    PROVE  InStream(m)'
  BY DEF InStream

\* A message that was accepted before the step only moves on.
LEMMA KeepsMessages ==
    ASSUME Retained, accepted' = accepted, overrun => overrun',
           \A m : InMem(m) \/ InStream(m) \/ m \in lost =>
                  InMem(m)' \/ InStream(m)' \/ m \in lost'
    PROVE  Retained'
  BY DEF Retained

\* A step that leaves the mappings, the file and the strand alone.
LEMMA QuietRetained ==
    ASSUME Retained, SizeInv, overrun => overrun',
           UNCHANGED <<mem, master, stream, xpc, xsize, accepted, lost>>
    PROVE  Retained' /\ SizeInv'
<1>1. SizeInv'
  BY DEF SizeInv, InStream, slave
<1>2. Retained'
  BY KeepsMessages DEF InMem, InStream
<1>3. QED BY <1>1, <1>2

LEMMA PushHeaderRetained ==
    ASSUME BaseInv, Retained, SizeInv, NEW t \in Threads, PushHeader(t)
    PROVE  Retained' /\ SizeInv'
<1> USE DEF strandVars, fileVars, history
<1>0. TypeOK /\ msg[t] \in Msgs
  BY DEF PushHeader, BaseInv, CallInv
<1>1. /\ UNCHANGED <<master, stream, xpc, xsize, accepted, lost, overrun>>
      /\ mem'[slave] = mem[slave]
      /\ mem[master] \in Seq(Items)
      /\ \E e \in Items : mem'[master] = Append(mem[master], e)
  BY <1>0, PushHeaderEffect DEF PushHeader
<1>2. Bufs = {master, slave} /\ slave # master
  BY TwoBufs DEF BaseInv, TypeOK, slave
<1>3. \A i \in 1 .. Len(mem[master]) :
          mem'[master][i] = mem[master][i] /\ i \in 1 .. Len(mem'[master])
  BY <1>1
<1>4. ASSUME NEW m, InMem(m) PROVE InMem(m)'
  <2>1. PICK b \in Bufs : \E i \in 1 .. Len(mem[b]) : mem[b][i].msg = m /\ mem[b][i].whole
    BY <1>4 DEF InMem
  <2>2. PICK i \in 1 .. Len(mem[b]) : mem[b][i].msg = m /\ mem[b][i].whole
    BY <2>1
  <2>3. i \in 1 .. Len(mem'[b]) /\ mem'[b][i] = mem[b][i]
    BY <1>1, <1>2, <1>3
  <2>4. QED BY <2>2, <2>3, HeldAfter
<1>5. Retained'
  BY <1>1, <1>4, KeepsMessages DEF InStream
<1>6. SizeInv'
  BY <1>1 DEF SizeInv, InStream, slave
<1>7. QED BY <1>5, <1>6

LEMMA PushBodyRetained ==
    ASSUME BaseInv, Retained, SizeInv, NEW t \in Threads, PushBody(t)
    PROVE  Retained' /\ SizeInv'
<1> DEFINE n == Len(mem[master])
<1> USE DEF strandVars, fileVars
<1>0. TypeOK /\ msg[t] \in Msgs /\ mem[master] # <<>> /\ mem[master][n].msg = msg[t]
  BY DEF PushBody, BaseInv, CallInv
<1>1. /\ n \in Nat /\ n >= 1 /\ Len(mem'[master]) = n
      /\ mem'[slave] = mem[slave]
      /\ \A i \in 1 .. n - 1 : mem'[master][i] = mem[master][i]
      /\ mem'[master][n] = [mem[master][n] EXCEPT !.whole = TRUE]
      /\ mem[master][n] \in Items
  BY <1>0, PushBodyEffect
<1>2. mem'[master][n].whole /\ mem'[master][n].msg = msg[t]
  BY <1>0, <1>1 DEF Items
<1>3. Bufs = {master, slave} /\ slave # master
  BY TwoBufs DEF BaseInv, TypeOK, slave
<1>4. /\ UNCHANGED <<master, stream, xpc, xsize, lost, overrun>>
      /\ accepted' = Append(accepted, msg[t]) /\ accepted \in Seq(Msgs)
  BY DEF PushBody, BaseInv, TypeOK
<1>5. ASSUME NEW m, m = msg[t] PROVE InMem(m)'
  <2>1. n \in 1 .. Len(mem'[master]) /\ master \in Bufs
    BY <1>1, <1>3
  <2>2. QED BY <1>2, <1>5, <2>1, HeldAfter
<1>6. ASSUME NEW m, InMem(m) PROVE InMem(m)'
  <2>1. PICK b \in Bufs : \E i \in 1 .. Len(mem[b]) : mem[b][i].msg = m /\ mem[b][i].whole
    BY <1>6 DEF InMem
  <2>2. PICK i \in 1 .. Len(mem[b]) : mem[b][i].msg = m /\ mem[b][i].whole
    BY <2>1
  <2>3. CASE b = slave
    BY <1>1, <2>2, <2>3, HeldAfter
  <2>4. CASE b = master /\ i = n
    BY <1>0, <1>5, <2>2, <2>4
  <2>5. CASE b = master /\ i # n
    <3>1. i \in 1 .. n - 1 /\ i \in 1 .. Len(mem'[b])
      BY <1>1, <2>5
    <3>2. mem'[b][i] = mem[b][i]
      BY <1>1, <2>5, <3>1
    <3>3. QED BY <2>2, <3>1, <3>2, HeldAfter
  <2>6. QED BY <1>3, <2>3, <2>4, <2>5
<1>7. Retained'
  <2> SUFFICES ASSUME ~overrun, NEW i \in 1 .. Len(accepted'), NEW m, m = accepted'[i]
               PROVE  InMem(m)' \/ InStream(m)' \/ m \in lost'
    BY <1>4 DEF Retained
  <2>1. CASE i \in 1 .. Len(accepted)
    <3>1. m = accepted[i]
      BY <1>0, <1>4, <2>1
    <3>2. InMem(m) \/ InStream(m) \/ m \in lost
      BY <2>1, <3>1 DEF Retained
    <3>3. InStream(m) => InStream(m)'
      BY <1>4 DEF InStream
    <3>4. QED BY <1>4, <1>6, <3>2, <3>3
  <2>2. CASE i \notin 1 .. Len(accepted)
    <3>1. m = msg[t]
      BY <1>0, <1>4, <2>2
    <3>2. QED BY <1>5, <3>1
  <2>3. QED BY <2>1, <2>2
<1>8. SizeInv'
  <2>1. slave' = slave /\ mem'[slave'] = mem[slave]
    BY <1>1, <1>4 DEF slave
  <2>2. UNCHANGED <<stream, xpc, xsize, overrun>>
    BY <1>4
  <2>3. QED BY <2>1, <2>2 DEF SizeInv, InStream
<1>9. QED BY <1>7, <1>8

\* A swap that finds the strand at work on the slave is an overrun.
LEMMA SwapRetained ==
    ASSUME BaseInv, Retained, SizeInv, NEW t \in Threads, SwapPointers(t)
    PROVE  Retained' /\ SizeInv'
<1>1. /\ UNCHANGED <<mem, stream, xpc, xsize, accepted, lost>>
      /\ overrun' = (overrun \/ ~SlaveAvailable)
  BY DEF SwapPointers, strandVars, fileVars
<1>2. overrun => overrun'
  BY <1>1
<1>3. Retained'
  BY <1>1, <1>2, KeepsMessages DEF InMem, InStream
<1>4. SizeInv'
  BY <1>1 DEF SizeInv, SlaveAvailable
<1>5. QED BY <1>3, <1>4

LEMMA WriteRetained ==
    ASSUME BaseInv, Retained, SizeInv, WriteHeader \/ WriteData
    PROVE  Retained' /\ SizeInv'
<1> USE DEF bufVars, lockVars, callVars, history
<1>0. /\ stream \in Seq(Items \cup Headers \cup {Junk}) /\ Len(stream) \in Nat
      /\ xsize \in Nat
      /\ slave \in Bufs /\ mem[slave] \in Seq(Items)
  BY TwoBufs DEF BaseInv, TypeOK, slave
<1>1. /\ UNCHANGED <<mem, master, accepted, lost, overrun, xsize>>
      /\ stream \in Seq(Items \cup Headers \cup {Junk}) /\ Len(stream) \in Nat
      /\ xsize \in Nat
      /\ slave \in Bufs /\ mem[slave] \in Seq(Items)
  BY <1>0 DEF WriteHeader, WriteData
<1>2. CASE WriteHeader
  <2>1. \A m : InStream(m) => InStream(m)'
    <3>1. \A i \in 1 .. Len(stream) : i \in 1 .. Len(stream') /\ stream'[i] = stream[i]
      BY <1>1, <1>2 DEF WriteHeader
    <3>2. QED BY <3>1 DEF InStream
  <2>2. Retained'
    BY <1>1, <2>1, KeepsMessages DEF InMem
  <2>3. xpc = "header" /\ xpc' = "data"
    BY <1>2 DEF WriteHeader
  <2>4. SizeInv'
    BY <1>1, <2>3 DEF SizeInv, slave
  <2>5. QED BY <2>2, <2>4
<1>3. CASE WriteData
  <2> DEFINE b == Block(slave, xsize)
             k == Len(stream)
  <2>1. b \in Seq(Items \cup {Junk}) /\ Len(b) = xsize
    BY <1>1, BlockType DEF BaseInv
  <2>2. stream' = stream \o b /\ xpc = "data" /\ xpc' = "clear"
    BY <1>3 DEF WriteData
  <2>3. ~overrun => xsize = Len(mem[slave]) /\
                    \A i \in 1 .. xsize : b[i] = mem[slave][i]
    BY <1>1, <2>2 DEF SizeInv, Block
  <2> HIDE DEF b
  <2>4. /\ \A i \in 1 .. k : i \in 1 .. Len(stream') /\ stream'[i] = stream[i]
        /\ \A i \in 1 .. xsize : k + i \in 1 .. Len(stream') /\ stream'[k + i] = b[i]
    BY <1>1, <2>1, <2>2, SMTT(20)
  <2>5. \A m : InStream(m) => InStream(m)'
    BY <2>4 DEF InStream
  <2>6. Retained'
    BY <1>1, <2>5, KeepsMessages DEF InMem
  <2>7. ASSUME ~overrun, NEW i \in 1 .. Len(mem[slave]), mem[slave][i].whole,
               NEW m, m = mem[slave][i].msg
        PROVE  InStream(m)'
    <3>0. \A x \in Items : x.kind = "item"
      BY DEF Items
    <3>1. mem[slave][i].kind = "item"
      BY <1>1, <3>0
    <3>2. k + i \in 1 .. Len(stream') /\ stream'[k + i] = mem[slave][i]
      BY <2>3, <2>4, <2>7
    <3>3. QED BY <2>7, <3>1, <3>2, WrittenAfter
  <2>8. SizeInv'
    <3>1. slave' = slave /\ mem' = mem /\ overrun' = overrun /\ xpc' = "clear"
      BY <1>1, <2>2 DEF slave
    <3>2. \A i \in 1 .. Len(mem[slave]) : ~overrun /\ mem[slave][i].whole =>
              \A m : m = mem[slave][i].msg => InStream(m)'
      BY <2>7
    <3> HIDE DEF slave
    <3>3. QED BY <3>1, <3>2, SMTT(20) DEF SizeInv, InStream
  <2>9. QED BY <2>6, <2>8
<1>4. QED BY <1>2, <1>3

LEMMA ClearRetained ==
    ASSUME BaseInv, Retained, SizeInv, ClearSlave
    PROVE  Retained' /\ SizeInv'
<1> USE DEF fileVars, history
<1>1. Bufs = {master, slave} /\ slave # master
  BY TwoBufs DEF BaseInv, TypeOK, slave
<1>2. /\ mem'[slave] = <<>> /\ mem'[master] = mem[master]
      /\ xpc = "clear" /\ xpc' = "free"
      /\ UNCHANGED <<master, stream, accepted, lost, overrun>>
  BY <1>1 DEF ClearSlave, Clear, BaseInv, TypeOK
<1>3. ASSUME NEW m, InMem(m), ~overrun PROVE InMem(m)' \/ InStream(m)
  <2>1. PICK b \in Bufs : \E i \in 1 .. Len(mem[b]) : mem[b][i].msg = m /\ mem[b][i].whole
    BY <1>3 DEF InMem
  <2>2. PICK i \in 1 .. Len(mem[b]) : mem[b][i].msg = m /\ mem[b][i].whole
    BY <2>1
  <2>3. CASE b = slave
    BY <1>2, <1>3, <2>2, <2>3 DEF SizeInv
  <2>4. CASE b = master
    <3>1. i \in 1 .. Len(mem'[b]) /\ mem'[b][i] = mem[b][i]
      BY <1>2, <2>4
    <3>2. QED BY <2>2, <3>1, HeldAfter
  <2>5. QED BY <1>1, <2>3, <2>4
<1>4. Retained'
  <2>1. CASE overrun
    BY <1>2, <2>1 DEF Retained
  <2>2. CASE ~overrun
    BY <1>2, <1>3, <2>2, KeepsMessages DEF InStream
  <2>3. QED BY <2>1, <2>2
<1>5. SizeInv'
  BY <1>2 DEF SizeInv
<1>6. QED BY <1>4, <1>5

\* A crash keeps the mappings, and counts as lost what ofs_ still held.
LEMMA RestartRetained ==
    ASSUME BaseInv, Retained, SizeInv, NEW k \in 0 .. Len(stream), Restart(k)
    PROVE  Retained' /\ SizeInv'
<1>1. /\ k \in Nat /\ Len(stream') = k
      /\ \A i \in 1 .. k : stream'[i] = stream[i]
  BY RestartTypes
<1>2. /\ mem' = mem /\ accepted' = accepted /\ overrun' = overrun /\ xpc' = "idle"
      /\ lost' = lost \cup MsgsAfter(k)
  BY DEF Restart
<1>3. ASSUME NEW m, InStream(m) PROVE InStream(m)' \/ m \in lost'
  <2>1. PICK i \in 1 .. Len(stream) :
            stream[i].kind = "item" /\ stream[i].msg = m /\ stream[i].whole
    BY <1>3 DEF InStream
  <2>2. CASE i <= k
    <3>1. i \in 1 .. Len(stream') /\ stream'[i] = stream[i]
      BY <1>1, <2>2
    <3>2. QED BY <2>1, <3>1, WrittenAfter
  <2>3. CASE i > k
    <3>1. i \in k + 1 .. Len(stream)
      BY <1>1, <2>3
    <3>2. QED BY <1>2, <2>1, <3>1 DEF MsgsAfter
  <2>4. QED BY <1>1, <2>2, <2>3
<1>4. Retained'
  BY <1>2, <1>3, KeepsMessages DEF InMem
<1>5. SizeInv'
  BY <1>2 DEF SizeInv
<1>6. QED BY <1>4, <1>5

LEMMA RetainedStep == BaseInv /\ Retained /\ SizeInv /\ [Next]_vars => Retained' /\ SizeInv'
<1> SUFFICES ASSUME BaseInv, Retained, SizeInv, [Next]_vars PROVE Retained' /\ SizeInv'
  OBVIOUS
<1> USE DEF bufVars, lockVars, strandVars, fileVars, callVars, history
<1>1. ASSUME NEW t \in Threads, LogCall(t) \/ FlushCall(t) \/ CallStep(t)
      PROVE  Retained' /\ SizeInv'
  <2>1. CASE \/ LogCall(t) \/ FlushCall(t) \/ ResetStream(t) \/ NeedWriteToFile(t)
             \/ LoadFree(t) \/ StoreBusy(t) \/ PostCache(t) \/ PostBarrier(t)
             \/ \E call \in FailingCalls : LogFails(t, call)
    BY <2>1, QuietRetained DEF LogCall, FlushCall, ResetStream, NeedWriteToFile, LoadFree,
                               StoreBusy, PostCache, PostBarrier, LogFails
  <2>2. QED BY <1>1, <2>1, PushHeaderRetained, PushBodyRetained, SwapRetained DEF CallStep
<1>2. CASE CtorStep
  BY <1>2, QuietRetained DEF CtorStep, RecoverSlave, RecoverMaster, CtorReturns
<1>3. CASE StrandStep
  <2>1. CASE RunCache \/ FreeEmptySlave \/ SlaveNotEmpty \/ ReadSize \/ FreeSlave
    <3>1. UNCHANGED <<mem, master, stream, accepted, lost>>
      BY <2>1 DEF RunCache, FreeEmptySlave, SlaveNotEmpty, ReadSize, FreeSlave
    <3>0. overrun => overrun'
      <4>1. CASE FreeEmptySlave
        BY <4>1 DEF FreeEmptySlave
      <4>2. CASE UNCHANGED overrun
        BY <4>2
      <4>3. QED BY <2>1, <4>1, <4>2 DEF RunCache, SlaveNotEmpty, ReadSize, FreeSlave
    <3>2. /\ xpc' \notin {"data", "clear"}
          /\ xpc' = "header" => xsize' = Len(mem[slave])
      BY <2>1 DEF RunCache, FreeEmptySlave, SlaveNotEmpty, ReadSize, SlaveSize, FreeSlave
    <3>3. SizeInv'
      BY <3>0, <3>1, <3>2 DEF SizeInv, slave
    <3>4. Retained'
      BY <3>0, <3>1, KeepsMessages DEF InMem, InStream
    <3>5. QED BY <3>3, <3>4
  <2>2. ASSUME NEW t \in Threads, RunBarrier(t) PROVE Retained' /\ SizeInv'
    BY <2>2, QuietRetained DEF RunBarrier
  <2>3. QED BY <1>3, <2>1, <2>2, WriteRetained, ClearRetained DEF StrandStep
<1>4. CASE Crash \/ Close
  BY <1>4, RunEnds, RestartRetained
<1>5. CASE UNCHANGED vars
  BY <1>5, QuietRetained DEF vars
<1>6. CASE \E t, u \in Threads : CompressBroken(t, u)
  BY <1>6, QuietRetained, BrokenEffect
<1>7. QED BY <1>1, <1>2, <1>3, <1>4, <1>5, <1>6, Zenon DEF Next

-----------------------------------------------------------------------------
(* Recovered items stay apart                                                 *)

\* While the constructor waits for the recovered slave: its task is posted, or
\* the strand is at it, or the slave is empty and free.
Draining ==
    /\ pending \in {<<"cache">>, <<"cache", Main>>} => ~slaveFree /\ xpc = "idle"
    /\ xpc # "idle" => ~slaveFree
    /\ pending \in {<<>>, <<Main>>} /\ xpc = "idle" => mem[slave] = <<>> /\ slaveFree
    /\ xpc = "free" => mem[slave] = <<>>

CtorPhase ==
    Constructing =>
        /\ pending \in {<<>>, <<"cache">>, <<Main>>, <<"cache", Main>>}
        /\ pc[Main] = "await" <=> pending \in {<<Main>>, <<"cache", Main>>}
        /\ pc[Main] \in {"ctor", "load", "store", "swap", "post"} =>
              pending = <<>> /\ xpc = "idle"
        /\ pc[Main] \in {"ctor", "load", "store"} => slaveFree
        /\ pc[Main] \in {"swap", "post"} => ~slaveFree
        /\ pc[Main] \in {"load", "store", "swap"} => mem[slave] = <<>>
        /\ pc[Main] \in {"post", "return"} => mem[master] = <<>>
        /\ pc[Main] \in {"ctor2", "barrier", "await", "return"} => Draining

\* An item of an earlier session in the slave.
OldSlave == \E i \in 1 .. Len(mem[slave]) : mem[slave][i].key # session

\* Afterwards the master is the session's own, and a slave with a recovered
\* item is closed to the loggers until the strand has cleared it.
SessionInv ==
    ~Constructing =>
        /\ \A i \in 1 .. Len(mem[master]) : mem[master][i].key = session
        /\ OldSlave => /\ ~slaveFree
                       /\ xpc # "free"
                       /\ \A t \in Threads : pc[t] \notin {"store", "swap"}

\* The queues of the recovery.
LEMMA SmallQueues ==
    /\ Main # "cache"
    /\ Append(<<>>, "cache") = <<"cache">>
    /\ Append(<<>>, Main) = <<Main>>
    /\ Append(<<"cache">>, Main) = <<"cache", Main>>
    /\ Tail(<<"cache">>) = <<>> /\ Head(<<"cache">>) = "cache"
    /\ Tail(<<Main>>) = <<>> /\ Head(<<Main>>) = Main
    /\ Tail(<<"cache", Main>>) = <<Main>> /\ Head(<<"cache", Main>>) = "cache"
    /\ <<"cache">> # <<>> /\ <<Main>> # <<>> /\ <<"cache", Main>> # <<>>
    /\ <<"cache">> # <<Main>> /\ <<"cache", Main>> # <<Main>>
    /\ <<"cache", Main>> # <<"cache">>
<1>1. Main # "cache"
  OBVIOUS
<1>2. Append(<<>>, "cache") = <<"cache">> /\ Append(<<>>, Main) = <<Main>>
  OBVIOUS
<1>3. Append(<<"cache">>, Main) = <<"cache", Main>>
  <2> DEFINE S == {"cache", Main}
             q == Append(<<"cache">>, Main)
             r == <<"cache", Main>>
  <2>1. <<"cache">> \in Seq(S) /\ Main \in S
    OBVIOUS
  <2>2. q \in Seq(S) /\ Len(q) = 2 /\ q[1] = "cache" /\ q[2] = Main
    BY <2>1
  <2>3. r \in Seq(S) /\ Len(r) = 2 /\ r[1] = "cache" /\ r[2] = Main
    OBVIOUS
  <2> HIDE DEF q, r, S
  <2>4. \A i \in 1 .. Len(q) : q[i] = r[i]
    BY <2>2, <2>3
  <2>5. q = r
    BY <2>2, <2>3, <2>4, SeqEqual
  <2>6. QED BY <2>5 DEF q, r
<1>4. Tail(<<"cache">>) = <<>> /\ Head(<<"cache">>) = "cache"
  OBVIOUS
<1>5. Tail(<<Main>>) = <<>> /\ Head(<<Main>>) = Main
  OBVIOUS
<1>6. Tail(<<"cache", Main>>) = <<Main>> /\ Head(<<"cache", Main>>) = "cache"
  OBVIOUS
<1>7. <<"cache">> # <<>> /\ <<Main>> # <<>> /\ <<"cache", Main>> # <<>>
  OBVIOUS
<1>8. /\ <<"cache">> # <<Main>> /\ <<"cache", Main>> # <<Main>>
      /\ <<"cache", Main>> # <<"cache">>
  BY <1>1
<1>9. QED BY <1>1, <1>2, <1>3, <1>4, <1>5, <1>6, <1>7, <1>8

\* A call does not end the constructor, and during it only its thread is in one.
LEMMA ConstructingCall ==
    ASSUME BaseInv, NEW t \in Threads, LogCall(t) \/ FlushCall(t) \/ CallStep(t)
    PROVE  /\ Constructing' <=> Constructing
           /\ Constructing => t = Main /\ CallStep(t)
<1> USE DEF Goto, history
<1>1. pc \in [Threads -> PCs] /\ Main \in Threads
      /\ op \in [Threads -> {"ctor", "log", "flush1", "flush2"}]
  BY DEF BaseInv, TypeOK
<1>2. CASE LogCall(t) \/ FlushCall(t)
  <2>1. /\ pc[t] = "idle" /\ \A x \in Threads : x # t => pc'[x] = pc[x] /\ op'[x] = op[x]
        /\ op'[t] \in {"log", "flush1"}
    BY <1>1, <1>2 DEF LogCall, FlushCall
  <2>2. Constructing => t = Main
    BY <1>1, <2>1 DEF BaseInv, CtorInv
  <2>3. ~Constructing
    BY <2>1, <2>2 DEF Constructing
  <2>4. ~Constructing'
    BY <1>1, <2>1, <2>3 DEF Constructing
  <2>5. QED BY <2>3, <2>4
<1>3. CASE CallStep(t)
  <2>1. op' = op /\ pc[t] \notin {"idle", "down"}
    BY <1>3 DEF CallStep, ResetStream, PushHeader, PushBody, NeedWriteToFile, LoadFree,
                StoreBusy, SwapPointers, PostCache, PostBarrier, LogFails
  <2>2. \A x \in Threads : x # t => pc'[x] = pc[x]
    BY <1>1, <1>3 DEF CallStep, ResetStream, PushHeader, PushBody, NeedWriteToFile, LoadFree,
                      StoreBusy, SwapPointers, PostCache, PostBarrier, LogFails
  <2>3. Constructing => t = Main
    BY <1>1, <2>1 DEF BaseInv, CtorInv
  <2>4. ASSUME Constructing PROVE pc'[Main] # "idle"
    <3>1. t = Main /\ op[Main] = "ctor"
          /\ pc[Main] \in {"ctor", "ctor2", "return", "barrier", "await",
                           "load", "store", "swap", "post"}
      BY <2>3, <2>4 DEF BaseInv, CtorInv, Constructing
    <3>2. QED BY <1>1, <1>3, <3>1
              DEF CallStep, ResetStream, PushHeader, PushBody, NeedWriteToFile, LoadFree,
                  AfterLoad, StoreBusy, SwapPointers, PostCache, AfterPost, PostBarrier, LogFails
  <2>5. ASSUME Constructing' PROVE Constructing
    BY <1>1, <2>1, <2>2, <2>5 DEF Constructing
  <2>6. Constructing => Constructing'
    BY <2>1, <2>4 DEF Constructing
  <2>7. QED BY <1>3, <2>3, <2>5, <2>6
<1>4. QED BY <1>2, <1>3

\* The constructor's own way through the swap.
LEMMA CallPhase ==
    ASSUME BaseInv, CtorPhase, Constructing, CallStep(Main)
    PROVE  CtorPhase'
<1> USE SmallQueues DEF Goto
<1>1. /\ pc \in [Threads -> PCs] /\ Main \in Threads /\ op[Main] = "ctor"
      /\ Bufs = {master, slave} /\ slave # master /\ Other(slave) = master
  <2>1. master \in Bufs /\ pc \in [Threads -> PCs]
    BY DEF BaseInv, TypeOK
  <2>2. slave \in Bufs /\ slave # master /\ Bufs = {master, slave}
    BY <2>1, TwoBufs DEF slave
  <2>3. Other(slave) = master
    BY <2>1, <2>2, TwoBufs
  <2>4. QED BY <2>1, <2>2, <2>3 DEF Constructing
<1>2. pc[Main] \in {"ctor", "ctor2", "return", "barrier", "await",
                    "load", "store", "swap", "post"}
  BY DEF BaseInv, CtorInv
<1>3. CASE LoadFree(Main)
  <2>1. pc[Main] = "load" /\ slaveFree /\ pc'[Main] = "store"
    BY <1>1, <1>3 DEF LoadFree, AfterLoad, CtorPhase
  <2>2. UNCHANGED <<mem, master, slaveFree, pending, xpc>>
    BY <1>3 DEF LoadFree, bufVars, strandVars
  <2>3. QED BY <2>1, <2>2 DEF CtorPhase, slave
<1>4. CASE StoreBusy(Main)
  <2>1. pc[Main] = "store" /\ pc'[Main] = "swap" /\ ~slaveFree'
    BY <1>1, <1>4 DEF StoreBusy
  <2>2. UNCHANGED <<mem, master, pending, xpc>>
    BY <1>4 DEF StoreBusy, strandVars
  <2>3. QED BY <2>1, <2>2 DEF CtorPhase, slave
<1>5. CASE SwapPointers(Main)
  <2>1. pc[Main] = "swap" /\ pc'[Main] = "post"
    BY <1>1, <1>5 DEF SwapPointers
  <2>2. UNCHANGED <<mem, slaveFree, pending, xpc>> /\ master' = slave
    BY <1>5 DEF SwapPointers, strandVars
  <2>3. mem'[master'] = <<>>
    BY <2>1, <2>2 DEF CtorPhase
  <2>4. QED BY <2>1, <2>2, <2>3 DEF CtorPhase
<1>6. CASE PostCache(Main)
  <2>1. pc[Main] = "post" /\ pc'[Main] = "return"
    BY <1>1, <1>6 DEF PostCache, AfterPost
  <2>2. UNCHANGED <<mem, master, slaveFree, xpc>> /\ pending' = Append(pending, "cache")
    BY <1>6 DEF PostCache, bufVars, strandVars
  <2>3. pending = <<>> /\ xpc = "idle" /\ ~slaveFree /\ mem[master] = <<>>
    BY <2>1 DEF CtorPhase
  <2>4. pending' = <<"cache">>
    BY <2>2, <2>3
  <2>5. QED BY <2>1, <2>2, <2>3, <2>4 DEF CtorPhase, Draining
<1>7. CASE PostBarrier(Main)
  <2>1. pc[Main] = "barrier" /\ pc'[Main] = "await"
    BY <1>1, <1>7 DEF PostBarrier
  <2>2. UNCHANGED <<mem, master, slaveFree, xpc>> /\ pending' = Append(pending, Main)
    BY <1>7 DEF PostBarrier, Barrier, bufVars, strandVars
  <2>3. pending \in {<<>>, <<"cache">>} /\ Draining
    BY <2>1 DEF CtorPhase
  <2>4. \/ pending = <<>> /\ pending' = <<Main>>
        \/ pending = <<"cache">> /\ pending' = <<"cache", Main>>
    BY <2>2, <2>3
  <2>5. Draining'
    BY <2>2, <2>3, <2>4 DEF Draining, slave
  <2>6. QED BY <2>1, <2>4, <2>5 DEF CtorPhase
<1>8. QED
  BY <1>2, <1>3, <1>4, <1>5, <1>6, <1>7
     DEF CallStep, ResetStream, PushHeader, PushBody, NeedWriteToFile, LogFails

\* The strand at work for the constructor.
LEMMA StrandPhase ==
    ASSUME BaseInv, CtorPhase, Constructing, StrandStep
    PROVE  CtorPhase' /\ Constructing'
<1> USE SmallQueues
<1>1. /\ pc \in [Threads -> PCs] /\ Main \in Threads /\ op[Main] = "ctor"
      /\ op \in [Threads -> {"ctor", "log", "flush1", "flush2"}]
      /\ slave \in Bufs /\ slave # master /\ mem \in [Bufs -> Seq(Items)]
  BY TwoBufs DEF BaseInv, TypeOK, slave, Constructing
<1>2. ASSUME NEW t \in Threads, RunBarrier(t) PROVE CtorPhase' /\ Constructing'
  <2>1. pending # <<>> /\ Head(pending) = t /\ pending' = Tail(pending) /\ xpc = "idle"
        /\ t # "cache"
    BY <1>2 DEF RunBarrier
  <2>2. t = Main /\ pending = <<Main>> /\ pc[Main] = "await" /\ pending' = <<>>
    BY <2>1 DEF CtorPhase
  <2>3. pc' = [pc EXCEPT ![Main] = "load"] /\ op'[Main] = "ctor"
    BY <1>1, <1>2, <2>2 DEF RunBarrier, Goto
  <2>4. UNCHANGED <<mem, master, slaveFree, xpc>>
    BY <1>2 DEF RunBarrier, bufVars, strandVars
  <2>5. mem[slave] = <<>> /\ slaveFree
    BY <2>1, <2>2 DEF CtorPhase, Draining
  <2>6. pc'[Main] = "load"
    BY <1>1, <2>3
  <2>7. CtorPhase'
    BY <2>1, <2>2, <2>4, <2>5, <2>6 DEF CtorPhase, slave
  <2>8. Constructing'
    BY <2>3, <2>6 DEF Constructing
  <2>9. QED BY <2>7, <2>8
<1>3. CASE RunCache
  <2>1. pending \in {<<"cache">>, <<"cache", Main>>} /\ pending' = Tail(pending)
        /\ UNCHANGED <<mem, master, slaveFree, pc, op>> /\ xpc = "idle"
        /\ xpc' = IF slaveFree THEN "idle" ELSE "empty"
    BY <1>3 DEF RunCache, CtorPhase, bufVars, callVars
  <2>2. pc[Main] \in {"ctor2", "barrier", "await", "return"}
    BY <2>1 DEF CtorPhase, BaseInv, CtorInv
  <2>3. ~slaveFree
    BY <2>1, <2>2 DEF CtorPhase, Draining
  <2>4. \/ pending = <<"cache">> /\ pending' = <<>> /\ pc[Main] # "await"
        \/ pending = <<"cache", Main>> /\ pending' = <<Main>> /\ pc[Main] = "await"
    BY <2>1 DEF CtorPhase
  <2>5. Draining'
    BY <2>1, <2>3, <2>4 DEF Draining
  <2>6. CtorPhase'
    BY <2>1, <2>2, <2>4, <2>5 DEF CtorPhase
  <2>7. QED BY <2>1, <2>6 DEF Constructing
<1>4. CASE /\ UNCHANGED <<master, pc, op, pending>>
           /\ xpc # "idle"
           /\ mem'[master] = mem[master]
           /\ slaveFree' = slaveFree \/ (xpc' = "idle" /\ slaveFree')
           /\ \/ xpc' = "idle" /\ mem'[slave] = <<>> /\ slaveFree'
              \/ xpc' = "free" /\ mem'[slave] = <<>>
              \/ xpc' \notin {"idle", "free"}
  <2>1. pc[Main] \in {"ctor2", "barrier", "await", "return"}
    BY <1>4 DEF CtorPhase, BaseInv, CtorInv
  <2>2. pending \in {<<>>, <<Main>>} /\ ~slaveFree
    BY <1>4, <2>1 DEF CtorPhase, Draining
  <2>3. slave' = slave
    BY <1>4 DEF slave
  <2>4. Draining'
    BY <1>4, <2>2, <2>3 DEF Draining
  <2>5. CtorPhase'
    BY <1>4, <2>1, <2>2, <2>4 DEF CtorPhase
  <2>6. QED BY <1>4, <2>5 DEF Constructing
<1>5. CASE FreeEmptySlave
  BY <1>4, <1>5 DEF FreeEmptySlave, Release, callVars
<1>6. CASE SlaveNotEmpty \/ ReadSize \/ WriteHeader \/ WriteData
  BY <1>4, <1>6 DEF SlaveNotEmpty, ReadSize, WriteHeader, WriteData, bufVars, callVars
<1>7. CASE ClearSlave
  <2>1. mem'[slave] = <<>> /\ mem'[master] = mem[master]
    BY <1>1, <1>7 DEF ClearSlave, Clear
  <2>2. QED BY <1>4, <1>7, <2>1 DEF ClearSlave, callVars
<1>8. CASE FreeSlave
  <2>1. xpc = "free" /\ pc[Main] \in {"ctor2", "barrier", "await", "return"}
    BY <1>8 DEF FreeSlave, CtorPhase, BaseInv, CtorInv
  <2>2. mem[slave] = <<>>
    BY <2>1 DEF CtorPhase, Draining
  <2>3. QED BY <1>4, <1>8, <2>2 DEF FreeSlave, Release, callVars
<1>9. QED BY <1>2, <1>3, <1>5, <1>6, <1>7, <1>8 DEF StrandStep

\* A step outside of the constructor that moves no data and opens no door.
LEMMA QuietSession ==
    ASSUME BaseInv, SessionInv, ~Constructing, UNCHANGED <<mem, master, session>>,
           slaveFree' => slaveFree \/ mem[slave] = <<>>  \/ xpc = "free",
           xpc' = "free" => xpc = "free",
           \A t \in Threads : pc'[t] \in {"store", "swap"} =>
                                 pc[t] \in {"store", "swap"} \/ slaveFree
    PROVE  SessionInv'
<1>1. OldSlave' <=> OldSlave
  BY DEF OldSlave, slave
<1>2. OldSlave => mem[slave] # <<>>
  BY DEF OldSlave
<1>3. QED BY <1>1, <1>2 DEF SessionInv

LEMMA CallSession ==
    ASSUME BaseInv, SessionInv, ~Constructing, NEW t \in Threads,
           LogCall(t) \/ FlushCall(t) \/ CallStep(t)
    PROVE  SessionInv'
<1> USE DEF Goto, bufVars, lockVars, strandVars, fileVars, history
<1>1. /\ pc \in [Threads -> PCs] /\ master \in Bufs /\ slave \in Bufs /\ slave # master
      /\ Bufs = {master, slave} /\ TypeOK /\ mem \in [Bufs -> Seq(Items)]
  BY TwoBufs DEF BaseInv, TypeOK, slave
<1>2. CASE \/ LogCall(t) \/ FlushCall(t) \/ ResetStream(t) \/ NeedWriteToFile(t)
           \/ LoadFree(t) \/ StoreBusy(t) \/ PostCache(t) \/ PostBarrier(t)
           \/ \E call \in FailingCalls : LogFails(t, call)
  <2>1. /\ UNCHANGED <<mem, master, session, xpc>>
        /\ slaveFree' => slaveFree
        /\ \A x \in Threads : pc'[x] \in {"store", "swap"} =>
                                 pc[x] \in {"store", "swap"} \/ slaveFree
    BY <1>1, <1>2 DEF LogCall, FlushCall, ResetStream, NeedWriteToFile, LoadFree, AfterLoad,
                      StoreBusy, PostCache, AfterPost, PostBarrier, LogFails
  <2>2. QED BY <2>1, QuietSession
<1>3. CASE PushHeader(t)
  <2> DEFINE e == [kind |-> "item", msg |-> msg[t], prev |-> cctx,
                   key |-> session, whole |-> FALSE]
  <2>1. mem[master] \in Seq(Items) /\ mem'[master] = Append(mem[master], e)
        /\ mem'[slave] = mem[slave] /\ e \in Items
    BY <1>1, <1>3, PushHeaderEffect DEF PushHeader, BaseInv, CallInv
  <2>2. e.key = session
    OBVIOUS
  <2> HIDE DEF e
  <2>3. /\ UNCHANGED <<master, session, slaveFree, xpc>> /\ slave' = slave
        /\ pc' = [pc EXCEPT ![t] = "push"]
    BY <1>3 DEF PushHeader, slave
  <2>4. ASSUME NEW i \in 1 .. Len(mem'[master]) PROVE mem'[master][i].key = session
    <3>1. CASE i \in 1 .. Len(mem[master])
      BY <2>1, <3>1 DEF SessionInv
    <3>2. CASE i \notin 1 .. Len(mem[master])
      BY <2>1, <2>2, <3>2
    <3>3. QED BY <3>1, <3>2
  <2>5. OldSlave' => OldSlave
    BY <2>1, <2>3 DEF OldSlave
  <2>6. \A x \in Threads : pc'[x] \in {"store", "swap"} => pc[x] \in {"store", "swap"}
    BY <1>1, <2>3
  <2>7. QED BY <2>3, <2>4, <2>5, <2>6 DEF SessionInv
<1>4. CASE PushBody(t)
  <2> DEFINE n == Len(mem[master])
  <2>1. /\ n \in Nat /\ n >= 1 /\ Len(mem'[master]) = n
        /\ mem'[slave] = mem[slave]
        /\ \A i \in 1 .. n - 1 : mem'[master][i] = mem[master][i]
        /\ mem'[master][n] = [mem[master][n] EXCEPT !.whole = TRUE]
        /\ mem[master][n] \in Items
    BY <1>1, <1>4, PushBodyEffect DEF PushBody, BaseInv, CallInv
  <2>2. mem'[master][n].key = mem[master][n].key
    BY <2>1 DEF Items
  <2>3. /\ UNCHANGED <<master, session, slaveFree, xpc>> /\ slave' = slave
        /\ pc' = [pc EXCEPT ![t] = "need"]
    BY <1>4 DEF PushBody, slave
  <2>4. ASSUME NEW i \in 1 .. Len(mem'[master]) PROVE mem'[master][i].key = session
    <3>1. CASE i = n
      BY <2>1, <2>2, <3>1 DEF SessionInv
    <3>2. CASE i # n
      BY <2>1, <3>2 DEF SessionInv
    <3>3. QED BY <3>1, <3>2
  <2>5. OldSlave' => OldSlave
    BY <2>1, <2>3 DEF OldSlave
  <2>6. \A x \in Threads : pc'[x] \in {"store", "swap"} => pc[x] \in {"store", "swap"}
    BY <1>1, <2>3
  <2>7. QED BY <2>3, <2>4, <2>5, <2>6 DEF SessionInv
<1>5. CASE SwapPointers(t)
  <2>1. /\ pc[t] = "swap" /\ master' = slave /\ UNCHANGED <<mem, session>>
        /\ Other(slave) = master
    BY <1>1, <1>5, TwoBufs DEF SwapPointers
  <2>2. slave' = master
    BY <2>1 DEF slave
  <2>3. ~OldSlave
    BY <2>1 DEF SessionInv
  <2>4. \A i \in 1 .. Len(mem'[master']) : mem'[master'][i].key = session'
    BY <2>1, <2>3 DEF OldSlave
  <2>5. ~OldSlave'
    BY <2>1, <2>2 DEF OldSlave, SessionInv
  <2>6. QED BY <2>4, <2>5 DEF SessionInv
<1>6. QED BY <1>2, <1>3, <1>4, <1>5 DEF CallStep

LEMMA StrandSession ==
    ASSUME BaseInv, SessionInv, ~Constructing, StrandStep
    PROVE  SessionInv' /\ ~Constructing'
<1> USE DEF bufVars, lockVars, strandVars, fileVars, callVars, history
<1>1. /\ pc \in [Threads -> PCs] /\ Main \in Threads /\ slave \in Bufs /\ slave # master
      /\ op \in [Threads -> {"ctor", "log", "flush1", "flush2"}]
      /\ mem \in [Bufs -> Seq(Items)]
  BY TwoBufs DEF BaseInv, TypeOK, slave
<1>2. CASE RunCache \/ FreeEmptySlave \/ SlaveNotEmpty \/ ReadSize \/ WriteHeader
           \/ WriteData \/ FreeSlave
  <2>1. /\ UNCHANGED <<mem, master, session, pc, op>>
        /\ slaveFree' => slaveFree \/ mem[slave] = <<>> \/ xpc = "free"
        /\ xpc' = "free" => xpc = "free"
    <3>1. CASE WriteHeader
      <4>1. /\ UNCHANGED <<mem, master, session, pc, op, slaveFree>>
            /\ xpc' = "data"
        BY <3>1, Zenon DEF WriteHeader
      <4>2. QED BY <4>1
    <3>2. QED BY <1>2, <3>1 DEF RunCache, FreeEmptySlave, SlaveNotEmpty, ReadSize, WriteData,
                                FreeSlave
  <2>2. QED BY <2>1, QuietSession DEF Constructing
<1>3. CASE ClearSlave
  <2>1. /\ mem'[slave] = <<>> /\ mem'[master] = mem[master]
        /\ UNCHANGED <<master, session, pc, op>> /\ slave' = slave
    BY <1>1, <1>3 DEF ClearSlave, Clear, slave
  <2>2. ~OldSlave'
    BY <2>1 DEF OldSlave
  <2>3. QED BY <2>1, <2>2 DEF SessionInv, Constructing
<1>4. ASSUME NEW t \in Threads, RunBarrier(t) PROVE SessionInv' /\ ~Constructing'
  <2>1. /\ pending \in Seq(Threads \cup {"cache"}) /\ 1 \in 1 .. Len(pending)
        /\ pending[1] = t /\ t # "cache"
    BY <1>4, SMTT(20) DEF RunBarrier, BaseInv, TypeOK
  <2>2. pc[t] = "await"
    BY <2>1 DEF BaseInv, BarrierInv
  <2>3. /\ UNCHANGED <<mem, master, session, slaveFree, xpc>>
        /\ \A x \in Threads : x # t => pc'[x] = pc[x] /\ op'[x] = op[x]
        /\ pc'[t] \in {"idle", "load"}
        /\ op'[t] = "ctor" => op[t] = "ctor"
    BY <1>1, <1>4 DEF RunBarrier, Goto
  <2>4. SessionInv'
    BY <2>3, QuietSession
  <2>5. ~Constructing'
    BY <1>1, <2>2, <2>3 DEF Constructing
  <2>6. QED BY <2>4, <2>5
<1>5. QED BY <1>2, <1>3, <1>4 DEF StrandStep

\* The constructor's own steps; with its return the session begins.
LEMMA CtorSession ==
    ASSUME BaseInv, CtorPhase, CtorStep
    PROVE  CtorPhase' /\ SessionInv'
<1> USE SmallQueues DEF Goto
<1>1. pc \in [Threads -> PCs] /\ Main \in Threads
  BY DEF BaseInv, TypeOK
<1>2. pc[Main] \in {"ctor", "ctor2", "return"} /\ Constructing
  BY DEF CtorStep, RecoverSlave, RecoverMaster, CtorReturns, Constructing, BaseInv, CtorInv
<1>3. CASE RecoverSlave
  <2>1. /\ pc[Main] = "ctor" /\ pc'[Main] = "ctor2" /\ UNCHANGED <<mem, master, xpc, op>>
        /\ pending = <<>> /\ xpc = "idle" /\ slaveFree
    BY <1>1, <1>2, <1>3 DEF RecoverSlave, strandVars, CtorPhase
  <2>2. \/ mem[slave] # <<>> /\ ~slaveFree' /\ pending' = <<"cache">>
        \/ mem[slave] = <<>> /\ slaveFree' /\ pending' = <<>>
    BY <1>3, <2>1 DEF RecoverSlave
  <2>3. Draining'
    BY <2>1, <2>2 DEF Draining, slave
  <2>4. Constructing'
    BY <1>2, <2>1 DEF Constructing
  <2>5. QED BY <2>1, <2>2, <2>3, <2>4 DEF CtorPhase, SessionInv
<1>4. CASE RecoverMaster
  <2>1. /\ pc[Main] = "ctor2" /\ UNCHANGED <<mem, master, slaveFree, pending, xpc, op>>
        /\ \/ pc'[Main] = "barrier"
           \/ pc'[Main] = "return" /\ mem[master] = <<>>
    BY <1>1, <1>4 DEF RecoverMaster, AfterSlave, bufVars, strandVars
  <2>2. Draining'
    BY <1>2, <2>1 DEF CtorPhase, Draining, slave
  <2>3. Constructing'
    BY <1>2, <2>1 DEF Constructing
  <2>4. QED BY <1>2, <2>1, <2>2, <2>3 DEF CtorPhase, SessionInv
<1>5. CASE CtorReturns
  <2>1. /\ pc[Main] = "return" /\ UNCHANGED <<mem, master, slaveFree, xpc, session>>
        /\ \A t \in Threads : pc'[t] = "idle"
    BY <1>5 DEF CtorReturns, bufVars, strandVars
  <2>2. mem[master] = <<>> /\ Draining
        /\ pending \in {<<>>, <<"cache">>, <<Main>>, <<"cache", Main>>}
    BY <1>2, <2>1 DEF CtorPhase
  <2>3. ~Constructing'
    BY <1>1, <2>1 DEF Constructing
  <2>4. mem[slave] # <<>> => ~slaveFree /\ xpc # "free"
    BY <2>2 DEF Draining
  <2>5. OldSlave' => mem[slave] # <<>>
    BY <2>1 DEF OldSlave, slave
  <2>6. SessionInv'
    BY <2>1, <2>2, <2>4, <2>5 DEF SessionInv
  <2>7. QED BY <2>3, <2>6 DEF CtorPhase
<1>6. QED BY <1>3, <1>4, <1>5 DEF CtorStep

LEMMA SessionStep ==
    BaseInv /\ CtorPhase /\ SessionInv /\ [Next]_vars => CtorPhase' /\ SessionInv'
<1> SUFFICES ASSUME BaseInv, CtorPhase, SessionInv, [Next]_vars
             PROVE  CtorPhase' /\ SessionInv'
  OBVIOUS
<1>1. ASSUME NEW t \in Threads, LogCall(t) \/ FlushCall(t) \/ CallStep(t)
      PROVE  CtorPhase' /\ SessionInv'
  <2>1. CASE Constructing
    <3>1. CallStep(Main) /\ Constructing'
      BY <1>1, <2>1, ConstructingCall
    <3>2. CtorPhase'
      BY <2>1, <3>1, CallPhase
    <3>3. QED BY <3>1, <3>2 DEF SessionInv
  <2>2. CASE ~Constructing
    <3>1. ~Constructing'
      BY <1>1, <2>2, ConstructingCall
    <3>2. SessionInv'
      BY <1>1, <2>2, CallSession
    <3>3. QED BY <3>1, <3>2 DEF CtorPhase
  <2>3. QED BY <2>1, <2>2
<1>2. CASE CtorStep
  BY <1>2, CtorSession
<1>3. CASE StrandStep
  <2>1. CASE Constructing
    BY <1>3, <2>1, StrandPhase DEF SessionInv
  <2>2. CASE ~Constructing
    BY <1>3, <2>2, StrandSession DEF CtorPhase
  <2>3. QED BY <2>1, <2>2
<1>4. CASE Crash \/ Close
  <2>1. PICK k : Restart(k)
    BY <1>4 DEF Crash, Close
  <2>2. /\ pc'[Main] = "ctor" /\ op'[Main] = "ctor" /\ pending' = <<>> /\ xpc' = "idle"
        /\ slaveFree'
    BY <2>1 DEF Restart
  <2>3. QED BY <2>2, SmallQueues DEF CtorPhase, SessionInv, Constructing
<1>5. CASE UNCHANGED vars
  BY <1>5 DEF vars, bufVars, strandVars, callVars, CtorPhase, Draining, SessionInv, OldSlave,
              Constructing, slave
<1>6. ASSUME NEW t \in Threads, NEW u \in Threads, CompressBroken(t, u)
      PROVE  CtorPhase' /\ SessionInv'
  <2>1. /\ ~Constructing /\ ~Constructing' /\ slave' = slave
        /\ UNCHANGED <<mem, master, slaveFree, session, pending, xpc>>
        /\ \A x \in Threads : pc'[x] \in {"store", "swap"} <=> pc[x] \in {"store", "swap"}
    BY <1>6, BrokenEffect
  <2>2. QED BY <2>1 DEF CtorPhase, SessionInv, OldSlave
<1>7. QED BY <1>1, <1>2, <1>3, <1>4, <1>5, <1>6 DEF Next

-----------------------------------------------------------------------------
(* Results                                                                    *)

\* The variables keep their types; in particular the mappings only ever hold
\* items, and what a Flush covers was accepted before.
THEOREM TypeCorrect == Spec => []TypeOK
<1>1. BaseInv => TypeOK
  BY DEF BaseInv
<1>2. QED BY <1>1, BaseInvariance, PTL

\* The file and the slave hold no half-pushed item of the running session,
\* for any number of threads (effective_sink.cc 79-93, 126-139, 147-181).
THEOREM TornItems == Spec => []TornOnlyByCrash
<1>1. BaseInv => TornOnlyByCrash
  <2> SUFFICES ASSUME BaseInv PROVE TornOnlyByCrash
    OBVIOUS
  <2>1. slave \in Bufs /\ slave # master
    BY TwoBufs DEF BaseInv, TypeOK, slave
  <2>2. QED BY <2>1 DEF BaseInv, TornInv, TornOnlyByCrash
<1>2. QED BY <1>1, BaseInvariance, PTL

\* A message whose Log has stored it is in a mapping, in the file, or was lost
\* inside ofs_ by a crash, as long as no swap met a busy slave: for any
\* threads, messages, crashes and failing calls.
THEOREM StoredMessages == Spec => []Retained
<1>1. Init => Retained /\ SizeInv
  BY DEF Init, Retained, SizeInv
<1>2. BaseInv /\ Retained /\ SizeInv /\ [Next]_vars => Retained' /\ SizeInv'
  BY RetainedStep
<1>3. QED BY <1>1, <1>2, BaseInvariance, PTL DEF Spec

\* Recovered items never share the master with those of the running session:
\* the constructor's wait, and the closed door of is_slave_free_, are enough
\* (effective_sink.cc 46-54), however many threads log and flush.
THEOREM RecoveredApart == Spec => []RecoveryIsolated
<1>1. Init => CtorPhase /\ SessionInv
  <2> SUFFICES ASSUME Init PROVE CtorPhase /\ SessionInv
    OBVIOUS
  <2>1. /\ pc[Main] = "ctor" /\ op[Main] = "ctor" /\ pending = <<>> /\ xpc = "idle"
        /\ slaveFree
    BY DEF Init
  <2>2. QED BY <2>1, SmallQueues DEF CtorPhase, SessionInv, Constructing
<1>2. BaseInv /\ CtorPhase /\ SessionInv /\ [Next]_vars => CtorPhase' /\ SessionInv'
  BY SessionStep
<1>3. SessionInv => RecoveryIsolated
  BY DEF SessionInv, RecoveryIsolated
<1>4. QED BY <1>1, <1>2, <1>3, BaseInvariance, PTL DEF Spec

-----------------------------------------------------------------------------
(* The two halves of Flush                                                    *)

\* A message in the file, or lost inside ofs_ by a crash; and one that needs no
\* swap any more.
Safe(m) == InStream(m) \/ m \in lost
InSlave(m) == \E i \in 1 .. Len(mem[slave]) : mem[slave][i].msg = m /\ mem[slave][i].whole
Handed(m) == Safe(m) \/ InSlave(m)

\* A free slave has nothing in it once the constructor has returned.
FreeInv ==
    ~overrun => /\ xpc = "free" => mem[slave] = <<>>
                /\ ~Constructing /\ slaveFree => mem[slave] = <<>>

\* All messages that were stored when the Flush of t began are safe, or handed
\* over to the slave.
Saved(t) == \A i \in 1 .. promised[t] : Safe(accepted[i])
Covered(t) == \A i \in 1 .. promised[t] : Handed(accepted[i])

Swapping == \E u \in Threads : pc[u] = "swap"

\* The slave is drained, and the next swap can only go right: it is free to be
\* claimed, or a thread that has claimed it is about to swap.
Calm ==
    /\ mem[slave] = <<>> /\ xpc \in {"idle", "empty"}
    /\ slaveFree \/ Swapping

\* The same when it is claimed: CacheToFile_ cannot run to its end before that.
Claimed == mem[slave] = <<>> /\ xpc \in {"idle", "empty"} /\ ~slaveFree /\ Swapping

\* CacheToFile_ is on the strand, and not behind the barrier of t.
Ahead(t) ==
    \E j \in 1 .. Len(pending) : pending[j] = "cache" /\ \A i \in 1 .. j : pending[i] # t

\* What a waiting Flush knows, whoever steps: before its first barrier has run,
\* and, in its second half, before the last one has.
Drained(t) == Covered(t) \/ Calm \/ Ahead(t) \/ xpc # "idle"
Written(t) ==
    \/ Saved(t)
    \/ /\ Ahead(t) \/ xpc \in {"empty", "size", "header", "data"}
       /\ Covered(t) \/ Claimed

\* A Flush from its first wait to its end.  When the first barrier has run the
\* slave was drained after the Flush began, so that the swap of the second half,
\* or one that another thread is in, hands all messages over; the second
\* CacheToFile_ then writes them.
FlushPhase(t) ==
    /\ op[t] = "flush1" /\ pc[t] \in {"barrier", "await"} => Drained(t)
    /\ op[t] = "flush2" =>
          /\ pc[t] = "load" => Covered(t) \/ Calm
          /\ pc[t] = "post" => Covered(t) \/ Claimed
          /\ pc[t] \in {"barrier", "await"} => Written(t)

\* Only a Log is at the steps of a Log.
LogInv == \A t \in Threads : pc[t] \in {"reset", "lock", "push", "need"} => op[t] = "log"

\* The sink is in use, and no swap has gone wrong.
Live == ~overrun /\ ~Constructing

FlushInv ==
    /\ LogInv
    /\ Live => \A t \in Threads : FlushPhase(t)
    /\ FlushPersists

\* The slave before and after a step that does not swap.
LEMMA SameSlave == master' = master => slave' = slave
  BY DEF slave

\* A swap that went wrong is not forgotten.
LEMMA GoodBefore ==
    ASSUME [Next]_vars, ~overrun'
    PROVE  ~overrun
<1> USE DEF bufVars, lockVars, strandVars, fileVars, callVars, history
<1>1. ASSUME NEW t \in Threads, LogCall(t) \/ FlushCall(t) \/ CallStep(t) PROVE ~overrun
  BY <1>1 DEF LogCall, FlushCall, CallStep, ResetStream, PushHeader, PushBody, NeedWriteToFile,
              LoadFree, StoreBusy, SwapPointers, PostCache, PostBarrier, LogFails
<1>2. CASE CtorStep
  BY <1>2 DEF CtorStep, RecoverSlave, RecoverMaster, CtorReturns
<1>3. CASE StrandStep
  BY <1>3 DEF StrandStep, RunCache, FreeEmptySlave, SlaveNotEmpty, ReadSize, WriteHeader,
              WriteData, ClearSlave, FreeSlave, RunBarrier
<1>4. CASE Crash \/ Close \/ UNCHANGED vars
  BY <1>4 DEF Crash, Close, Restart, vars
<1>5. CASE \E t, u \in Threads : CompressBroken(t, u)
  BY <1>5 DEF CompressBroken
<1>6. QED BY <1>1, <1>2, <1>3, <1>4, <1>5, Zenon DEF Next

\* A step of the sink in use: of a thread in a call, or of the strand.
Working ==
    \/ \E u \in Threads : LogCall(u) \/ FlushCall(u) \/ CallStep(u)
    \/ \E t, u \in Threads : CompressBroken(t, u)
    \/ StrandStep
    \/ UNCHANGED vars

LEMMA UsedSink ==
    ASSUME BaseInv, [Next]_vars, ~Constructing, ~Constructing'
    PROVE  Working
<1>1. ~CtorStep
  BY DEF CtorStep, RecoverSlave, RecoverMaster, CtorReturns, BaseInv, CtorInv, Constructing
<1>2. ~Crash /\ ~Close
  BY DEF Crash, Close, Restart, Constructing
<1>3. QED BY <1>1, <1>2 DEF Next, Working

\* The constructor ends with its own step.
LEMMA SinkReturns ==
    ASSUME BaseInv, CtorPhase, [Next]_vars, Constructing, ~Constructing'
    PROVE  CtorReturns
<1>1. \A t \in Threads : ~(LogCall(t) \/ FlushCall(t) \/ CallStep(t))
  BY ConstructingCall
<1>2. ~StrandStep
  BY StrandPhase
<1>3. ~RecoverSlave /\ ~RecoverMaster
  BY DEF RecoverSlave, RecoverMaster, AfterSlave, Goto, Constructing, BaseInv, TypeOK
<1>4. ~Crash /\ ~Close
  BY DEF Crash, Close, Restart, Constructing
<1>5. ~UNCHANGED vars
  BY DEF vars, callVars, Constructing
<1>6. ~(\E t, u \in Threads : CompressBroken(t, u))
  BY BrokenEffect
<1>7. QED BY <1>1, <1>2, <1>3, <1>4, <1>5, <1>6 DEF Next, CtorStep

\* What is in the file stays there, unless a crash takes it out of ofs_.
LEMMA SafeStays ==
    ASSUME BaseInv, [Next]_vars, NEW m, Safe(m)
    PROVE  Safe(m)'
<1> USE DEF bufVars, lockVars, strandVars, fileVars, callVars, history
<1>1. ASSUME UNCHANGED <<stream, lost>> PROVE Safe(m)'
  BY <1>1 DEF Safe, InStream
<1>2. ASSUME NEW t \in Threads, LogCall(t) \/ FlushCall(t) \/ CallStep(t) PROVE Safe(m)'
  BY <1>1, <1>2 DEF LogCall, FlushCall, CallStep, ResetStream, PushHeader, PushBody,
              NeedWriteToFile, LoadFree, StoreBusy, SwapPointers, PostCache, PostBarrier, LogFails
<1>3. CASE CtorStep \/ UNCHANGED vars
  BY <1>1, <1>3 DEF CtorStep, RecoverSlave, RecoverMaster, CtorReturns, vars
<1>4. ASSUME NEW b, b \in Seq(Items \cup Headers \cup {Junk}), stream' = stream \o b, lost' = lost
      PROVE  Safe(m)'
  <2>1. stream \in Seq(Items \cup Headers \cup {Junk})
    BY DEF BaseInv, TypeOK
  <2>2. \A i \in 1 .. Len(stream) : i \in 1 .. Len(stream') /\ stream'[i] = stream[i]
    BY <1>4, <2>1
  <2>3. QED BY <1>4, <2>2 DEF Safe, InStream
<1>5. CASE WriteHeader
  <2>1. PICK h \in Headers : stream' = Append(stream, h)
    BY <1>5, HeaderWritten, Zenon DEF BaseInv
  <2>2. \A i \in 1 .. Len(stream) : i \in 1 .. Len(stream') /\ stream'[i] = stream[i]
    BY <2>1 DEF BaseInv, TypeOK
  <2>3. lost' = lost
    BY <1>5 DEF WriteHeader
  <2>4. QED BY <2>2, <2>3 DEF Safe, InStream
<1>6. CASE WriteData
  <2>1. Block(slave, xsize) \in Seq(Items \cup Headers \cup {Junk})
    BY BlockType, SMTT(20) DEF BaseInv, TypeOK
  <2>2. QED BY <1>4, <1>6, <2>1 DEF WriteData
<1>7. CASE StrandStep
  BY <1>1, <1>5, <1>6, <1>7 DEF StrandStep, RunCache, FreeEmptySlave, SlaveNotEmpty, ReadSize,
              ClearSlave, FreeSlave, RunBarrier
<1>8. CASE Crash \/ Close
  <2>1. PICK k \in 0 .. Len(stream) : Restart(k)
    BY <1>8, RunEnds
  <2>2. lost' = lost \cup MsgsAfter(k)
    BY <2>1 DEF Restart
  <2>3. CASE m \in lost
    BY <2>2, <2>3 DEF Safe
  <2>4. CASE InStream(m)
    <3>1. PICK i \in 1 .. Len(stream) :
              stream[i].kind = "item" /\ stream[i].msg = m /\ stream[i].whole
      BY <2>4 DEF InStream
    <3>2. k \in Nat /\ Len(stream') = k /\ \A j \in 1 .. k : stream'[j] = stream[j]
      BY <2>1, RestartTypes
    <3>3. CASE i <= k
      BY <3>1, <3>2, <3>3, WrittenAfter DEF Safe
    <3>4. CASE i > k
      <4>1. i \in k + 1 .. Len(stream)
        BY <3>2, <3>4
      <4>2. QED BY <2>2, <3>1, <4>1 DEF MsgsAfter, Safe
    <3>5. QED BY <3>2, <3>3, <3>4
  <2>5. QED BY <2>3, <2>4 DEF Safe
<1>9. CASE \E t, u \in Threads : CompressBroken(t, u)
  BY <1>1, <1>9, BrokenEffect
<1>10. QED BY <1>2, <1>3, <1>7, <1>8, <1>9, Zenon DEF Next

\* A step only ever adds to the accepted messages.
LEMMA AcceptedStay ==
    ASSUME BaseInv, [Next]_vars, NEW i \in 1 .. Len(accepted)
    PROVE  accepted'[i] = accepted[i]
<1> USE DEF bufVars, lockVars, strandVars, fileVars, callVars, history
<1>1. CASE accepted' = accepted
  BY <1>1
<1>2. ASSUME NEW t \in Threads, PushBody(t) PROVE accepted'[i] = accepted[i]
  <2>1. accepted \in Seq(Msgs)
    BY DEF BaseInv, TypeOK
  <2>2. accepted' = Append(accepted, msg[t])
    BY <1>2 DEF PushBody
  <2>3. QED BY <2>1, <2>2
<1>3. ASSUME NEW t \in Threads, LogCall(t) \/ FlushCall(t) \/ CallStep(t), ~PushBody(t)
      PROVE accepted' = accepted
  BY <1>3 DEF LogCall, FlushCall, CallStep, ResetStream, PushHeader,
              NeedWriteToFile, LoadFree, StoreBusy, SwapPointers, PostCache, PostBarrier, LogFails
<1>4. CASE CtorStep \/ StrandStep
  BY <1>1, <1>4 DEF CtorStep, RecoverSlave, RecoverMaster, CtorReturns, StrandStep, RunCache,
              FreeEmptySlave, SlaveNotEmpty, ReadSize, WriteHeader, WriteData, ClearSlave,
              FreeSlave, RunBarrier
<1>5. CASE Crash \/ Close \/ UNCHANGED vars
  BY <1>1, <1>5 DEF Crash, Close, Restart, vars
<1>6. CASE \E t, u \in Threads : CompressBroken(t, u)
  BY <1>1, <1>6, BrokenEffect
<1>7. QED BY <1>1, <1>2, <1>3, <1>4, <1>5, <1>6 DEF Next

\* The calls that touch no mapping, and swap none.
LEMMA QuietCalls ==
    ASSUME NEW t \in Threads, LogCall(t) \/ FlushCall(t) \/ CallStep(t)
    PROVE  \/ PushHeader(t) \/ PushBody(t) \/ SwapPointers(t)
           \/ UNCHANGED <<mem, master>>
  BY DEF LogCall, FlushCall, CallStep, ResetStream, NeedWriteToFile, LoadFree, StoreBusy,
         PostCache, PostBarrier, LogFails, bufVars

\* The loggers leave the slave alone.
LEMMA PushSlave ==
    ASSUME BaseInv, NEW t \in Threads, PushHeader(t) \/ PushBody(t)
    PROVE  master' = master /\ slave' = slave /\ mem'[slave] = mem[slave]
<1>1. CASE PushHeader(t)
  BY <1>1, PushHeaderEffect, SameSlave DEF PushHeader, BaseInv, CallInv
<1>2. CASE PushBody(t)
  BY <1>2, PushBodyEffect, SameSlave DEF PushBody, BaseInv, CallInv
<1>3. QED BY <1>1, <1>2

\* What the strand clears is in the file.
LEMMA ClearHands ==
    ASSUME BaseInv, SizeInv, ~overrun, ClearSlave, NEW m, InSlave(m)
    PROVE  InStream(m)
  BY DEF ClearSlave, SizeInv, InSlave

\* What is handed over stays so, as long as no swap goes wrong.
LEMMA HandedStays ==
    ASSUME BaseInv, SizeInv, [Next]_vars, Working, ~overrun', NEW m, Handed(m)
    PROVE  Handed(m)'
<1> USE DEF bufVars, lockVars, strandVars, fileVars, callVars, history
<1>1. CASE Safe(m)
  BY <1>1, SafeStays DEF Handed
<1> SUFFICES ASSUME InSlave(m), ~Safe(m) PROVE Handed(m)'
  BY <1>1 DEF Handed
<1>2. ASSUME master' = master, mem'[slave] = mem[slave] PROVE Handed(m)'
  BY <1>2, SameSlave DEF Handed, InSlave
<1>3. ASSUME NEW t \in Threads, LogCall(t) \/ FlushCall(t) \/ CallStep(t) PROVE Handed(m)'
  <2>1. CASE SwapPointers(t)
    <3>1. mem[slave] = <<>>
      BY <2>1 DEF SwapPointers, SlaveAvailable
    <3>2. QED BY <3>1 DEF InSlave
  <2>2. QED BY <1>2, <1>3, <2>1, QuietCalls, PushSlave
<1>4. CASE ClearSlave
  BY <1>4, GoodBefore, ClearHands DEF Safe
<1>5. CASE StrandStep \/ UNCHANGED vars
  BY <1>2, <1>4, <1>5 DEF StrandStep, RunCache, FreeEmptySlave, SlaveNotEmpty, ReadSize,
         WriteHeader, WriteData, FreeSlave, RunBarrier, vars
<1>6. CASE \E t, u \in Threads : CompressBroken(t, u)
  BY <1>2, <1>6, BrokenEffect
<1>7. QED BY <1>3, <1>5, <1>6 DEF Working

\* A swap that goes right hands every stored message over.
LEMMA SwapHands ==
    ASSUME BaseInv, Retained, ~overrun', NEW u \in Threads, SwapPointers(u),
           NEW i \in 1 .. Len(accepted)
    PROVE  Handed(accepted[i])'
<1> DEFINE m == accepted[i]
<1>1. ~overrun /\ mem[slave] = <<>> /\ master' = slave
      /\ UNCHANGED <<mem, stream, lost, accepted>>
  BY DEF SwapPointers, SlaveAvailable, fileVars
<1>2. InMem(m) \/ Safe(m)
  BY <1>1 DEF Retained, Safe
<1>3. Bufs = {master, slave} /\ Other(slave) = master
  <2>1. slave \in Bufs /\ slave # master /\ Bufs = {master, slave}
    BY TwoBufs DEF BaseInv, TypeOK, slave
  <2>2. QED BY <2>1, TwoBufs
<1>4. slave' = master
  BY <1>1, <1>3 DEF slave
<1>5. CASE Safe(m)
  BY <1>1, <1>5 DEF Handed, Safe, InStream
<1>6. CASE InMem(m)
  <2>1. PICK b \in Bufs : \E j \in 1 .. Len(mem[b]) : mem[b][j].msg = m /\ mem[b][j].whole
    BY <1>6 DEF InMem
  <2>2. b = master
    BY <1>1, <1>3, <2>1
  <2>3. \E j \in 1 .. Len(mem'[slave']) : mem'[slave'][j].msg = m /\ mem'[slave'][j].whole
    BY <1>1, <1>4, <2>1, <2>2
  <2>4. QED BY <1>1, <2>3 DEF Handed, InSlave
<1>7. QED BY <1>2, <1>5, <1>6

\* The write of the strand puts into the file what was handed over.
LEMMA WriteSaves ==
    ASSUME BaseInv, Retained, SizeInv, [Next]_vars, ~overrun, WriteData, NEW m, Handed(m)
    PROVE  Safe(m)'
<1>1. CASE Safe(m)
  BY <1>1, SafeStays
<1>2. CASE InSlave(m)
  <2>1. SizeInv'
    BY RetainedStep
  <2>2. ~overrun' /\ xpc' = "clear" /\ mem' = mem /\ slave' = slave
    BY SameSlave DEF WriteData, bufVars, history
  <2>3. QED BY <1>2, <2>1, <2>2 DEF SizeInv, InSlave, Safe
<1>3. QED BY <1>1, <1>2 DEF Handed
-----------------------------------------------------------------------------
(* A free slave is empty                                                      *)

LEMMA FreeCalls ==
    ASSUME BaseInv, FreeInv, NEW t \in Threads, LogCall(t) \/ FlushCall(t) \/ CallStep(t)
    PROVE  FreeInv'
<1> USE DEF bufVars, lockVars, strandVars, fileVars, callVars, history
<1>1. Constructing' <=> Constructing
  BY ConstructingCall
<1>2. xpc' = xpc
  BY DEF LogCall, FlushCall, CallStep, ResetStream, PushHeader, PushBody, NeedWriteToFile,
         LoadFree, StoreBusy, SwapPointers, PostCache, PostBarrier, LogFails
<1>3. CASE SwapPointers(t)
  <2>1. ~overrun' => ~slaveFree /\ xpc # "free"
    BY <1>3 DEF SwapPointers, SlaveAvailable
  <2>2. slaveFree' = slaveFree
    BY <1>3 DEF SwapPointers
  <2>3. QED BY <1>2, <2>1, <2>2 DEF FreeInv
<1>4. CASE ~SwapPointers(t)
  <2>1. slaveFree' => slaveFree
    BY <1>4 DEF LogCall, FlushCall, CallStep, ResetStream, PushHeader, PushBody,
         NeedWriteToFile, LoadFree, StoreBusy, PostCache, PostBarrier, LogFails
  <2>2. overrun' = overrun
    BY <1>4 DEF LogCall, FlushCall, CallStep, ResetStream, PushHeader, PushBody,
         NeedWriteToFile, LoadFree, StoreBusy, PostCache, PostBarrier, LogFails
  <2>3. mem'[slave'] = mem[slave]
    BY <1>4, QuietCalls, PushSlave, SameSlave
  <2>4. QED BY <1>1, <1>2, <2>1, <2>2, <2>3 DEF FreeInv
<1>5. QED BY <1>3, <1>4

LEMMA FreeStrand ==
    ASSUME BaseInv, CtorPhase, SessionInv, FreeInv, StrandStep
    PROVE  FreeInv'
<1> USE DEF bufVars, lockVars, strandVars, fileVars, callVars, history
<1>0. slave \in Bufs /\ slave # master /\ mem \in [Bufs -> Seq(Items)]
  BY TwoBufs DEF BaseInv, TypeOK, slave
<1>1. master' = master /\ slave' = slave
  BY SameSlave DEF StrandStep, RunCache, FreeEmptySlave, SlaveNotEmpty, ReadSize, WriteHeader,
         WriteData, ClearSlave, FreeSlave, RunBarrier
<1>2. Constructing => Constructing'
  BY StrandPhase
<1>3. ~overrun' => ~overrun
  BY DEF StrandStep, RunCache, FreeEmptySlave, SlaveNotEmpty, ReadSize, WriteHeader,
         WriteData, ClearSlave, FreeSlave, RunBarrier
<1>4. CASE ClearSlave
  <2>1. mem'[slave] = <<>>
    BY <1>0, <1>4 DEF ClearSlave, Clear
  <2>2. QED BY <1>1, <2>1 DEF FreeInv
<1>5. CASE FreeEmptySlave \/ FreeSlave
  <2>1. mem' = mem /\ xpc' = "idle"
    BY <1>5 DEF FreeEmptySlave, FreeSlave
  <2>2. ~overrun => mem[slave] = <<>>
    BY <1>5 DEF FreeEmptySlave, FreeSlave, FreeInv
  <2>3. QED BY <1>1, <1>3, <2>1, <2>2 DEF FreeInv
<1>6. ASSUME mem' = mem, slaveFree' = slaveFree, xpc' # "free" PROVE FreeInv'
  BY <1>1, <1>2, <1>3, <1>6 DEF FreeInv
<1>7. CASE RunCache \/ SlaveNotEmpty \/ ReadSize \/ WriteHeader \/ WriteData
  BY <1>6, <1>7 DEF RunCache, SlaveNotEmpty, ReadSize, WriteHeader, WriteData
<1>8. ASSUME NEW t \in Threads, RunBarrier(t) PROVE FreeInv'
  BY <1>6, <1>8 DEF RunBarrier
<1>9. QED BY <1>4, <1>5, <1>7, <1>8 DEF StrandStep

\* With its return the constructor opens a slave that is empty.
LEMMA FreeCtor ==
    ASSUME BaseInv, CtorPhase, FreeInv, CtorStep
    PROVE  FreeInv'
<1>1. /\ UNCHANGED <<mem, master, xpc, overrun>> /\ slave' = slave
      /\ pc[Main] \in {"ctor", "ctor2", "return"} /\ Constructing
  BY SameSlave DEF CtorStep, RecoverSlave, RecoverMaster, CtorReturns, bufVars, strandVars,
         history, Constructing, BaseInv, CtorInv
<1>2. CASE CtorReturns
  <2>1. pending \in {<<>>, <<"cache">>, <<Main>>, <<"cache", Main>>} /\ Draining
        /\ slaveFree' = slaveFree
    BY <1>1, <1>2 DEF CtorReturns, CtorPhase, bufVars
  <2>2. slaveFree => mem[slave] = <<>>
    BY <2>1 DEF Draining
  <2>3. QED BY <1>1, <2>1, <2>2 DEF FreeInv
<1>3. CASE RecoverSlave \/ RecoverMaster
  <2>1. Constructing'
    BY <1>1, <1>3 DEF RecoverSlave, RecoverMaster, AfterSlave, Goto, Constructing, BaseInv, TypeOK
  <2>2. QED BY <1>1, <2>1 DEF FreeInv
<1>4. QED BY <1>2, <1>3 DEF CtorStep

LEMMA FreeStep ==
    ASSUME BaseInv, CtorPhase, SessionInv, FreeInv, [Next]_vars
    PROVE  FreeInv'
<1>1. CASE Crash \/ Close
  BY <1>1 DEF Crash, Close, Restart, FreeInv, Constructing
<1>2. CASE UNCHANGED vars
  BY <1>2, SameSlave DEF vars, bufVars, strandVars, callVars, history, FreeInv, Constructing
<1>3. CASE \E t, u \in Threads : CompressBroken(t, u)
  BY <1>3, BrokenEffect DEF FreeInv
<1>4. QED BY <1>1, <1>2, <1>3, FreeCalls, FreeStrand, FreeCtor DEF Next

\* Only a Log reaches the steps of a Log.
LEMMA LogStep ==
    ASSUME BaseInv, LogInv, [Next]_vars
    PROVE  LogInv'
<1> USE DEF Goto, bufVars, lockVars, strandVars, fileVars, callVars, history
<1>0. /\ pc \in [Threads -> PCs] /\ op \in [Threads -> {"ctor", "log", "flush1", "flush2"}]
      /\ Main \in Threads
  BY DEF BaseInv, TypeOK
<1>1. ASSUME NEW t \in Threads, LogCall(t) \/ FlushCall(t) PROVE LogInv'
  BY <1>0, <1>1 DEF LogCall, FlushCall, LogInv
<1>2. ASSUME NEW t \in Threads, CallStep(t) PROVE LogInv'
  <2>1. op' = op /\ \A x \in Threads : x # t => pc'[x] = pc[x]
    BY <1>0, <1>2 DEF CallStep, ResetStream, PushHeader, PushBody, NeedWriteToFile, LoadFree,
              StoreBusy, SwapPointers, PostCache, PostBarrier, LogFails
  <2>2. pc'[t] \in {"reset", "lock", "push", "need"} => pc[t] \in {"reset", "lock", "push", "need"}
    BY <1>0, <1>2 DEF CallStep, ResetStream, PushHeader, PushBody, NeedWriteToFile, LoadFree,
              AfterLoad, StoreBusy, SwapPointers, PostCache, AfterPost, PostBarrier, LogFails
  <2>3. QED BY <2>1, <2>2 DEF LogInv
<1>3. CASE CtorStep
  BY <1>0, <1>3 DEF CtorStep, RecoverSlave, RecoverMaster, AfterSlave, CtorReturns, LogInv
<1>4. ASSUME NEW t \in Threads, RunBarrier(t) PROVE LogInv'
  <2>1. \A x \in Threads : x # t => pc'[x] = pc[x] /\ op'[x] = op[x]
    BY <1>0, <1>4 DEF RunBarrier
  <2>2. pc'[t] \in {"idle", "load"}
    BY <1>0, <1>4 DEF RunBarrier
  <2>3. QED BY <2>1, <2>2 DEF LogInv
<1>5. CASE UNCHANGED <<pc, op>>
  BY <1>5 DEF LogInv
<1>6. CASE StrandStep
  BY <1>4, <1>5, <1>6 DEF StrandStep, RunCache, FreeEmptySlave, SlaveNotEmpty, ReadSize,
              WriteHeader, WriteData, ClearSlave, FreeSlave
<1>7. CASE Crash \/ Close
  BY <1>7 DEF Crash, Close, Restart, LogInv
<1>8. CASE \E t, u \in Threads : CompressBroken(t, u)
  BY <1>8, BrokenEffect DEF LogInv
<1>9. QED BY <1>1, <1>2, <1>3, <1>5, <1>6, <1>7, <1>8 DEF Next, vars
-----------------------------------------------------------------------------
(* What a waiting Flush knows, step by step                                   *)

LEMMA CoveredStays ==
    ASSUME BaseInv, SizeInv, [Next]_vars, Working, ~overrun',
           NEW t \in Threads, promised'[t] = promised[t]
    PROVE  (Covered(t) => Covered(t)') /\ (Saved(t) => Saved(t)')
<1>1. promised[t] \in Nat /\ promised[t] <= Len(accepted) /\ Len(accepted) \in Nat
  BY DEF BaseInv, TypeOK, CallInv
<1>2. \A i \in 1 .. promised[t] : i \in 1 .. Len(accepted)
  BY <1>1
<1>3. \A i \in 1 .. promised[t] : accepted'[i] = accepted[i]
  BY <1>2, AcceptedStay
<1>4. Covered(t) => Covered(t)'
  BY <1>3, HandedStays DEF Covered
<1>5. Saved(t) => Saved(t)'
  BY <1>3, SafeStays DEF Saved
<1>6. QED BY <1>4, <1>5

\* With an empty slave what is covered is saved.
LEMMA CoveredIsSaved ==
    ASSUME mem[slave] = <<>>, NEW t \in Threads, Covered(t)
    PROVE  Saved(t)
  BY DEF Covered, Saved, Handed, InSlave

LEMMA SwapCovers ==
    ASSUME BaseInv, Retained, ~overrun', NEW u \in Threads, SwapPointers(u), NEW t \in Threads
    PROVE  Covered(t)'
<1>1. promised[t] \in Nat /\ promised[t] <= Len(accepted) /\ Len(accepted) \in Nat
  BY DEF BaseInv, TypeOK, CallInv
<1>2. \A i \in 1 .. promised[t] : Handed(accepted[i])'
  BY <1>1, SwapHands
<1>3. promised' = promised
  BY DEF SwapPointers
<1>4. QED BY <1>2, <1>3 DEF Covered

\* Only a swap ends the calm.
LEMMA CalmStays ==
    ASSUME BaseInv, Working, ~overrun', \A u \in Threads : ~SwapPointers(u)
    PROVE  (Calm => Calm') /\ (Claimed => Claimed')
<1> USE DEF Goto, bufVars, lockVars, strandVars, fileVars, callVars, history
<1>0. pc \in [Threads -> PCs]
  BY DEF BaseInv, TypeOK
<1>1. ASSUME NEW u \in Threads, LogCall(u) \/ FlushCall(u) \/ CallStep(u)
      PROVE  (Calm => Calm') /\ (Claimed => Claimed')
  <2>1. mem'[slave'] = mem[slave]
    BY <1>1, QuietCalls, PushSlave, SameSlave
  <2>2. xpc' = xpc
    BY <1>1 DEF LogCall, FlushCall, CallStep, ResetStream, PushHeader, PushBody,
         NeedWriteToFile, LoadFree, StoreBusy, SwapPointers, PostCache, PostBarrier, LogFails
  <2>3. CASE StoreBusy(u)
    <3>1. Swapping' /\ ~slaveFree'
      BY <1>0, <2>3 DEF StoreBusy, Swapping
    <3>2. QED BY <2>1, <2>2, <3>1 DEF Calm, Claimed
  <2>4. CASE ~StoreBusy(u)
    <3>1. slaveFree' = slaveFree
      BY <1>1, <2>4 DEF LogCall, FlushCall, CallStep, ResetStream, PushHeader, PushBody,
         NeedWriteToFile, LoadFree, SwapPointers, PostCache, PostBarrier, LogFails
    <3>2. pc[u] # "swap" /\ \A v \in Threads : v # u => pc'[v] = pc[v]
      BY <1>0, <1>1, <2>4 DEF LogCall, FlushCall, CallStep, ResetStream, PushHeader, PushBody,
         NeedWriteToFile, LoadFree, PostCache, PostBarrier, LogFails
    <3>3. Swapping => Swapping'
      BY <3>2 DEF Swapping
    <3>4. QED BY <2>1, <2>2, <3>1, <3>3 DEF Calm, Claimed
  <2>5. QED BY <2>3, <2>4
<1>2. ASSUME NEW u \in Threads, RunBarrier(u)
      PROVE  (Calm => Calm') /\ (Claimed => Claimed')
  <2>1. UNCHANGED <<mem, master, xpc, slaveFree>> /\ slave' = slave
    BY <1>2, SameSlave DEF RunBarrier
  <2>2. pending \in Seq(Threads \cup {"cache"}) /\ pending # <<>> /\ pending[1] = u
        /\ 1 \in 1 .. Len(pending) /\ u # "cache"
    BY <1>2, SMTT(20) DEF RunBarrier, BaseInv, TypeOK
  <2>3. pc[u] = "await"
    BY <2>2 DEF BaseInv, BarrierInv
  <2>4. \A v \in Threads : v # u => pc'[v] = pc[v]
    BY <1>0, <1>2 DEF RunBarrier
  <2>5. Swapping => Swapping'
    BY <2>3, <2>4 DEF Swapping
  <2>6. QED BY <2>1, <2>5 DEF Calm, Claimed
<1>3. CASE FreeEmptySlave
  <2>1. mem' = mem /\ slave' = slave /\ pc' = pc /\ xpc' = "idle" /\ slaveFree' /\ ~Swapping
    BY <1>3, SameSlave DEF FreeEmptySlave, Release, Swapping
  <2>2. QED BY <2>1 DEF Calm, Claimed
<1>4. CASE RunCache
  <2>1. UNCHANGED <<mem, slaveFree, pc>> /\ slave' = slave /\ xpc' \in {"idle", "empty"}
    BY <1>4, SameSlave DEF RunCache
  <2>2. QED BY <2>1 DEF Calm, Claimed, Swapping
<1>5. CASE SlaveNotEmpty \/ ReadSize \/ WriteHeader \/ WriteData \/ ClearSlave \/ FreeSlave
  BY <1>5 DEF SlaveNotEmpty, ReadSize, WriteHeader, WriteData, ClearSlave, FreeSlave, Calm, Claimed
<1>6. CASE UNCHANGED vars
  BY <1>6, SameSlave DEF vars, Calm, Claimed, Swapping
<1>7. CASE \E t, u \in Threads : CompressBroken(t, u)
  BY <1>7, BrokenEffect DEF Calm, Claimed, Swapping
<1>8. QED BY <1>1, <1>2, <1>3, <1>4, <1>5, <1>6, <1>7 DEF Working, StrandStep

\* A task that is ahead of a barrier stays there until it begins.
LEMMA AheadStays ==
    ASSUME BaseInv, Working, ~RunCache, NEW t \in Threads, Ahead(t)
    PROVE  Ahead(t)'
<1> USE DEF bufVars, lockVars, strandVars, fileVars, callVars, history
<1>0. pending \in Seq(Threads \cup {"cache"}) /\ Len(pending) \in Nat
  BY DEF BaseInv, TypeOK
<1>1. PICK j \in 1 .. Len(pending) : pending[j] = "cache" /\ \A i \in 1 .. j : pending[i] # t
  BY DEF Ahead
<1>2. ASSUME NEW e \in Threads \cup {"cache"}, pending' = Append(pending, e) PROVE Ahead(t)'
  <2>1. /\ j \in 1 .. Len(pending') /\ pending'[j] = "cache"
        /\ \A i \in 1 .. j : pending'[i] # t
    BY <1>0, <1>1, <1>2
  <2>2. QED BY <2>1 DEF Ahead
<1>3. ASSUME NEW u \in Threads, RunBarrier(u) PROVE Ahead(t)'
  <2>1. pending # <<>> /\ Head(pending) = u /\ pending' = Tail(pending) /\ u # "cache"
    BY <1>3 DEF RunBarrier
  <2>2. j # 1
    BY <1>0, <1>1, <2>1
  <2>3. /\ j - 1 \in 1 .. Len(pending') /\ pending'[j - 1] = "cache"
        /\ \A i \in 1 .. j - 1 : pending'[i] # t
    BY <1>0, <1>1, <2>1, <2>2
  <2>4. QED BY <2>3 DEF Ahead
<1>4. ASSUME pending' = pending PROVE Ahead(t)'
  BY <1>4 DEF Ahead
<1>5. ASSUME NEW u \in Threads, LogCall(u) \/ FlushCall(u) \/ CallStep(u) PROVE Ahead(t)'
  <2>1. CASE PostCache(u)
    BY <1>2, <2>1 DEF PostCache
  <2>2. CASE PostBarrier(u)
    BY <1>2, <2>2 DEF PostBarrier, Barrier
  <2>3. CASE ~PostCache(u) /\ ~PostBarrier(u)
    BY <1>4, <1>5, <2>3 DEF LogCall, FlushCall, CallStep, ResetStream, PushHeader, PushBody,
         NeedWriteToFile, LoadFree, StoreBusy, SwapPointers, LogFails
  <2>4. QED BY <2>1, <2>2, <2>3
<1>6. CASE \/ FreeEmptySlave \/ SlaveNotEmpty \/ ReadSize \/ WriteHeader \/ WriteData
           \/ ClearSlave \/ FreeSlave \/ UNCHANGED vars
  BY <1>4, <1>6 DEF FreeEmptySlave, SlaveNotEmpty, ReadSize, WriteHeader, WriteData,
                    ClearSlave, FreeSlave, vars
<1>7. CASE \E v, u \in Threads : CompressBroken(v, u)
  BY <1>4, <1>7, BrokenEffect
<1>8. QED BY <1>3, <1>5, <1>6, <1>7 DEF Working, StrandStep

LEMMA HalfStays ==
    ASSUME BaseInv, Retained, SizeInv, [Next]_vars, Working, ~overrun',
           NEW t \in Threads, promised'[t] = promised[t]
    PROVE  /\ Covered(t) \/ Calm => Covered(t)' \/ Calm'
           /\ Covered(t) \/ Claimed => Covered(t)' \/ Claimed'
<1>1. CASE \E u \in Threads : SwapPointers(u)
  BY <1>1, SwapCovers
<1>2. CASE \A u \in Threads : ~SwapPointers(u)
  BY <1>2, CalmStays, CoveredStays
<1>3. QED BY <1>1, <1>2

\* The steps of CacheToFile_ and the others.
LEMMA CacheSteps ==
    ASSUME Working
    PROVE  \/ xpc' = xpc /\ ~RunCache
           \/ RunCache \/ FreeEmptySlave \/ SlaveNotEmpty \/ ReadSize \/ WriteHeader
           \/ WriteData \/ ClearSlave \/ FreeSlave
<1> USE DEF bufVars, lockVars, strandVars, fileVars, callVars, history
<1>1. ASSUME NEW u \in Threads, LogCall(u) \/ FlushCall(u) \/ CallStep(u) \/ RunBarrier(u)
      PROVE  xpc' = xpc
  BY <1>1 DEF LogCall, FlushCall, CallStep, ResetStream, PushHeader, PushBody, NeedWriteToFile,
         LoadFree, StoreBusy, SwapPointers, PostCache, PostBarrier, LogFails, RunBarrier
<1>2. CASE UNCHANGED vars
  BY <1>2 DEF vars
<1>3. CASE \E t, u \in Threads : CompressBroken(t, u)
  BY <1>3 DEF CompressBroken, RunCache
<1>4. QED BY <1>1, <1>2, <1>3 DEF Working, StrandStep

LEMMA DrainedStays ==
    ASSUME BaseInv, Retained, SizeInv, FreeInv, Live, [Next]_vars, Working, ~overrun',
           NEW t \in Threads, promised'[t] = promised[t], Drained(t)
    PROVE  Drained(t)'
<1> USE DEF bufVars, lockVars, strandVars, fileVars, callVars, history
<1>1. CASE Covered(t) \/ Calm
  BY <1>1, HalfStays DEF Drained
<1>2. CASE xpc' # "idle"
  BY <1>2 DEF Drained
<1>3. CASE (RunCache \/ FreeEmptySlave \/ FreeSlave) /\ xpc' = "idle"
  <2>1. mem[slave] = <<>> /\ slaveFree' /\ mem' = mem /\ slave' = slave
    BY <1>3, SameSlave DEF RunCache, FreeEmptySlave, FreeSlave, Release, FreeInv, Live
  <2>2. Calm'
    BY <1>3, <2>1 DEF Calm
  <2>3. QED BY <2>2 DEF Drained
<1>4. CASE (SlaveNotEmpty \/ ReadSize \/ WriteHeader \/ WriteData \/ ClearSlave) /\ xpc' = "idle"
  BY <1>4 DEF SlaveNotEmpty, ReadSize, WriteHeader, WriteData, ClearSlave
<1>5. CASE Ahead(t) /\ xpc' = xpc /\ ~RunCache
  BY <1>5, AheadStays DEF Drained
<1>6. QED BY <1>1, <1>2, <1>3, <1>4, <1>5, CacheSteps DEF Drained

LEMMA WrittenStays ==
    ASSUME BaseInv, Retained, SizeInv, FreeInv, Live, [Next]_vars, Working, ~overrun',
           NEW t \in Threads, promised'[t] = promised[t], Written(t)
    PROVE  Written(t)'
<1> USE DEF bufVars, lockVars, strandVars, fileVars, callVars, history
<1>1. CASE Saved(t)
  BY <1>1, CoveredStays DEF Written
<1> SUFFICES ASSUME Ahead(t) \/ xpc \in {"empty", "size", "header", "data"},
                    Covered(t) \/ Claimed
             PROVE  Written(t)'
  BY <1>1 DEF Written
<1>2. Covered(t)' \/ Claimed'
  BY HalfStays
<1>3. CASE RunCache
  <2>1. CASE slaveFree
    <3>1. mem[slave] = <<>> /\ Covered(t)
      BY <2>1 DEF Claimed, FreeInv, Live
    <3>2. Saved(t)
      BY <3>1, CoveredIsSaved
    <3>3. QED BY <1>1, <3>2
  <2>2. CASE ~slaveFree
    <3>1. xpc' = "empty"
      BY <1>3, <2>2 DEF RunCache
    <3>2. QED BY <1>2, <3>1 DEF Written
  <2>3. QED BY <2>1, <2>2
<1>4. CASE FreeEmptySlave
  <2>1. mem[slave] = <<>> /\ ~Swapping
    BY <1>4 DEF FreeEmptySlave, Swapping
  <2>2. Covered(t)
    BY <2>1 DEF Claimed
  <2>3. Saved(t)
    BY <2>1, <2>2, CoveredIsSaved
  <2>4. QED BY <1>1, <2>3
<1>5. CASE SlaveNotEmpty \/ ReadSize \/ WriteHeader
  <2>1. xpc' \in {"size", "header", "data"}
    BY <1>5 DEF SlaveNotEmpty, ReadSize, WriteHeader
  <2>2. QED BY <1>2, <2>1 DEF Written
<1>6. CASE WriteData
  <2>1. Covered(t)
    BY <1>6 DEF WriteData, Claimed
  <2>2. \A m : Handed(m) => Safe(m)'
    BY <1>6, WriteSaves DEF Live
  <2>3. promised' = promised /\ accepted' = accepted
    BY <1>6 DEF WriteData
  <2>4. Saved(t)'
    BY <2>1, <2>2, <2>3 DEF Covered, Saved
  <2>5. QED BY <2>4 DEF Written
<1>7. CASE ClearSlave \/ FreeSlave
  <2>1. xpc \in {"clear", "free"} /\ ~RunCache
    BY <1>7 DEF ClearSlave, FreeSlave, RunCache
  <2>2. Ahead(t)'
    BY <2>1, AheadStays
  <2>3. QED BY <1>2, <2>2 DEF Written
<1>8. CASE xpc' = xpc /\ ~RunCache
  <2>1. Ahead(t) => Ahead(t)'
    BY <1>8, AheadStays
  <2>2. QED BY <1>2, <1>8, <2>1 DEF Written
<1>9. QED BY <1>3, <1>4, <1>5, <1>6, <1>7, <1>8, CacheSteps
\* A Flush in which another thread, or none, steps.
LEMMA OtherFlush ==
    ASSUME BaseInv, Retained, SizeInv, FreeInv, Live, [Next]_vars, Working, ~overrun',
           NEW t \in Threads, FlushPhase(t),
           pc'[t] = pc[t], op'[t] = op[t], promised'[t] = promised[t]
    PROVE  FlushPhase(t)'
<1>1. Drained(t) => Drained(t)'
  BY DrainedStays
<1>2. Written(t) => Written(t)'
  BY WrittenStays
<1>3. /\ Covered(t) \/ Calm => Covered(t)' \/ Calm'
      /\ Covered(t) \/ Claimed => Covered(t)' \/ Claimed'
  BY HalfStays
<1>4. QED BY <1>1, <1>2, <1>3 DEF FlushPhase

\* CacheToFile_ is posted by a thread that has no barrier on the strand.
LEMMA PostedAhead ==
    ASSUME BaseInv, NEW t \in Threads, PostCache(t)
    PROVE  Ahead(t)'
<1>1. /\ pending \in Seq(Threads \cup {"cache"}) /\ pending' = Append(pending, "cache")
      /\ pc[t] = "post"
  BY DEF PostCache, BaseInv, TypeOK
<1>2. \A i \in 1 .. Len(pending) : pending[i] # t
  BY <1>1 DEF BaseInv, BarrierInv
<1>3. /\ Len(pending) + 1 \in 1 .. Len(pending') /\ pending'[Len(pending) + 1] = "cache"
      /\ \A i \in 1 .. Len(pending) + 1 : pending'[i] # t
  BY <1>1, <1>2
<1>4. QED BY <1>3 DEF Ahead

\* A barrier at the head of the strand has no task ahead of it.
LEMMA HeadBarrier ==
    ASSUME BaseInv, NEW t \in Threads, RunBarrier(t)
    PROVE  pc[t] = "await" /\ ~Ahead(t)
<1>1. /\ pending \in Seq(Threads \cup {"cache"}) /\ pending[1] = t /\ 1 \in 1 .. Len(pending)
      /\ t # "cache"
  BY SMTT(20) DEF RunBarrier, BaseInv, TypeOK
<1>2. pc[t] = "await"
  BY <1>1 DEF BaseInv, BarrierInv
<1>3. ~Ahead(t)
  BY <1>1 DEF Ahead
<1>4. QED BY <1>2, <1>3

\* A Flush that steps itself.
LEMMA OwnFlush ==
    ASSUME BaseInv, Retained, SizeInv, FreeInv, LogInv, Live, [Next]_vars, Working, ~overrun',
           NEW t \in Threads, FlushPhase(t),
           LogCall(t) \/ FlushCall(t) \/ CallStep(t) \/ RunBarrier(t)
    PROVE  FlushPhase(t)'
<1> USE DEF Goto, bufVars, lockVars, strandVars, fileVars, callVars, history
<1>0. /\ pc \in [Threads -> PCs] /\ op \in [Threads -> {"ctor", "log", "flush1", "flush2"}]
      /\ pending \in Seq(Threads \cup {"cache"})
  BY DEF BaseInv, TypeOK
<1>1. CASE LogCall(t)
  BY <1>0, <1>1 DEF LogCall, FlushPhase
<1>2. CASE FlushCall(t)
  BY <1>0, <1>2 DEF FlushCall, FlushPhase
<1>3. CASE \/ ResetStream(t) \/ PushHeader(t) \/ PushBody(t) \/ NeedWriteToFile(t)
           \/ \E call \in FailingCalls : LogFails(t, call)
  <2>1. op'[t] = "log"
    BY <1>3 DEF ResetStream, PushHeader, PushBody, NeedWriteToFile, LogFails, LogInv
  <2>2. QED BY <2>1 DEF FlushPhase
<1>4. CASE LoadFree(t)
  <2>1. pc[t] = "load" /\ op' = op /\ slaveFree' = slaveFree /\ promised' = promised
    BY <1>4 DEF LoadFree
  <2>2. pc'[t] = IF slaveFree THEN "store" ELSE "post"
    BY <1>0, <1>4 DEF LoadFree, AfterLoad
  <2>3. op[t] = "flush2" => Covered(t)' \/ Calm'
    BY <2>1, HalfStays DEF FlushPhase
  <2>4. Calm' /\ ~slaveFree => Claimed'
    BY <2>1 DEF Calm, Claimed
  <2>5. QED BY <2>1, <2>2, <2>3, <2>4 DEF FlushPhase
<1>5. CASE StoreBusy(t)
  BY <1>0, <1>5 DEF StoreBusy, FlushPhase
<1>6. CASE SwapPointers(t)
  <2>1. Covered(t)'
    BY <1>6, SwapCovers
  <2>2. pc'[t] = "post"
    BY <1>0, <1>6 DEF SwapPointers
  <2>3. QED BY <2>1, <2>2 DEF FlushPhase
<1>7. CASE PostCache(t)
  <2>1. Ahead(t)'
    BY <1>7, PostedAhead
  <2>2. pc[t] = "post" /\ promised' = promised /\ op' = op
    BY <1>7 DEF PostCache
  <2>3. op[t] = "flush2" => Covered(t)' \/ Claimed'
    BY <2>2, HalfStays DEF FlushPhase
  <2>4. pc'[t] \in {"idle", "return", "barrier"}
    BY <1>0, <1>7 DEF PostCache, AfterPost
  <2>5. QED BY <2>1, <2>2, <2>3, <2>4 DEF FlushPhase, Drained, Written
<1>8. CASE PostBarrier(t)
  <2>1. pc[t] = "barrier" /\ op' = op /\ promised' = promised /\ pc'[t] = "await"
    BY <1>0, <1>8 DEF PostBarrier
  <2>2. op[t] = "flush1" => Drained(t)'
    BY <2>1, DrainedStays DEF FlushPhase
  <2>3. op[t] = "flush2" => Written(t)'
    BY <2>1, WrittenStays DEF FlushPhase
  <2>4. QED BY <2>1, <2>2, <2>3 DEF FlushPhase
<1>9. CASE RunBarrier(t)
  <2>1. xpc = "idle" /\ promised' = promised /\ pc[t] = "await" /\ ~Ahead(t)
    BY <1>9, HeadBarrier DEF RunBarrier
  <2>2. CASE op[t] = "flush2"
    BY <1>0, <1>9, <2>2 DEF RunBarrier, FlushPhase
  <2>3. CASE op[t] = "flush1"
    <3>1. op'[t] = "flush2" /\ pc'[t] = "load"
      BY <1>0, <1>9, <2>3 DEF RunBarrier
    <3>2. Covered(t)' \/ Calm'
      BY <2>1, <2>3, HalfStays DEF FlushPhase, Drained
    <3>3. QED BY <3>1, <3>2 DEF FlushPhase
  <2>4. CASE op[t] \in {"ctor", "log"}
    BY <1>0, <1>9, <2>4 DEF RunBarrier, FlushPhase
  <2>5. QED BY <1>0, <2>2, <2>3, <2>4
<1>10. QED
  BY <1>1, <1>2, <1>3, <1>4, <1>5, <1>6, <1>7, <1>8, <1>9 DEF CallStep

\* The other threads stay where they are.
LEMMA OthersStay ==
    ASSUME BaseInv, NEW u \in Threads, LogCall(u) \/ FlushCall(u) \/ CallStep(u) \/ RunBarrier(u),
           NEW t \in Threads, t # u
    PROVE  pc'[t] = pc[t] /\ op'[t] = op[t] /\ promised'[t] = promised[t]
  BY DEF BaseInv, TypeOK, LogCall, FlushCall, CallStep, ResetStream, PushHeader, PushBody,
         NeedWriteToFile, LoadFree, StoreBusy, SwapPointers, PostCache, PostBarrier, LogFails,
         RunBarrier, Goto, bufVars, lockVars, strandVars, fileVars, callVars, history

LEMMA NobodyMoves ==
    ASSUME \/ RunCache \/ FreeEmptySlave \/ SlaveNotEmpty \/ ReadSize \/ WriteHeader
           \/ WriteData \/ ClearSlave \/ FreeSlave \/ UNCHANGED vars
    PROVE  UNCHANGED <<pc, op, promised, flushed>>
  BY DEF RunCache, FreeEmptySlave, SlaveNotEmpty, ReadSize, WriteHeader, WriteData, ClearSlave,
         FreeSlave, vars, bufVars, lockVars, strandVars, fileVars, callVars, history

\* What a Flush has promised, at its end and from then on.
LEMMA PersistsStep ==
    ASSUME BaseInv, CtorPhase, FlushInv, [Next]_vars
    PROVE  FlushPersists'
<1> SUFFICES ASSUME ~overrun' PROVE FlushPersists'
  BY DEF FlushPersists
<1> USE DEF bufVars, lockVars, strandVars, fileVars, callVars, history
<1>0. ~overrun /\ \A i \in 1 .. flushed : Safe(accepted[i])
  BY GoodBefore DEF FlushInv, FlushPersists, Safe
<1>1. ASSUME NEW n \in 0 .. Len(accepted), \A i \in 1 .. n : Safe(accepted[i]), flushed' = n
      PROVE  FlushPersists'
  <2>1. Len(accepted) \in Nat
    BY DEF BaseInv, TypeOK
  <2>2. ASSUME NEW i \in 1 .. n PROVE Safe(accepted[i])'
    <3>1. i \in 1 .. Len(accepted)
      BY <2>1
    <3>2. accepted'[i] = accepted[i]
      BY <3>1, AcceptedStay
    <3>3. Safe(accepted[i])
      BY <1>1
    <3>4. QED BY <3>2, <3>3, SafeStays
  <2>3. QED BY <1>1, <2>2 DEF FlushPersists, Safe
<1>2. flushed \in 0 .. Len(accepted)
  BY DEF BaseInv, TypeOK
<1>3. CASE flushed' = flushed
  BY <1>0, <1>1, <1>2, <1>3
<1>4. ASSUME NEW u \in Threads, RunBarrier(u), flushed' # flushed PROVE FlushPersists'
  <2>1. op[u] = "flush2" /\ flushed' = promised[u] /\ xpc = "idle"
    BY <1>4 DEF RunBarrier
  <2>2. pc[u] = "await" /\ ~Ahead(u)
    BY <1>4, HeadBarrier
  <2>3. ~Constructing
    BY <2>1, <2>2 DEF Constructing, BaseInv, CtorInv
  <2>4. Saved(u)
    BY <1>0, <2>1, <2>2, <2>3 DEF FlushInv, FlushPhase, Live, Written
  <2>5. promised[u] \in 0 .. Len(accepted)
    BY DEF BaseInv, TypeOK, CallInv
  <2>6. QED BY <1>1, <2>1, <2>4, <2>5 DEF Saved
<1>5. ASSUME NEW u \in Threads, LogCall(u) \/ FlushCall(u) \/ CallStep(u)
      PROVE  flushed' = flushed
  BY <1>5 DEF LogCall, FlushCall, CallStep, ResetStream, PushHeader, PushBody,
         NeedWriteToFile, LoadFree, StoreBusy, SwapPointers, PostCache, PostBarrier, LogFails
<1>6. CASE CtorStep \/ Crash \/ Close
  BY <1>3, <1>6 DEF CtorStep, RecoverSlave, RecoverMaster, CtorReturns, Crash, Close, Restart
<1>7. CASE \E t, u \in Threads : CompressBroken(t, u)
  BY <1>3, <1>7, BrokenEffect
<1>8. QED BY <1>3, <1>4, <1>5, <1>6, <1>7, NobodyMoves DEF Next, StrandStep

LEMMA FlushStep ==
    ASSUME BaseInv, Retained, SizeInv, CtorPhase, FreeInv, FlushInv, [Next]_vars
    PROVE  FlushInv'
<1>1. LogInv' /\ FlushPersists'
  BY LogStep, PersistsStep DEF FlushInv
<1>2. ASSUME Live', NEW t \in Threads PROVE FlushPhase(t)'
  <2>1. ~overrun /\ ~overrun' /\ ~Constructing'
    BY <1>2, GoodBefore DEF Live
  <2>2. CASE Constructing
    <3>1. CtorReturns
      BY <2>1, <2>2, SinkReturns
    <3>2. pc'[t] = "idle"
      BY <3>1 DEF CtorReturns
    <3>3. QED BY <3>2 DEF FlushPhase
  <2>3. CASE ~Constructing
    <3>1. Working /\ Live /\ FlushPhase(t) /\ LogInv
      BY <2>1, <2>3, UsedSink DEF Live, FlushInv
    <3>2. ASSUME NEW u \in Threads, LogCall(u) \/ FlushCall(u) \/ CallStep(u) \/ RunBarrier(u)
          PROVE  FlushPhase(t)'
      <4>1. CASE t = u
        BY <2>1, <3>1, <3>2, <4>1, OwnFlush
      <4>2. CASE t # u
        BY <2>1, <3>1, <3>2, <4>2, OthersStay, OtherFlush
      <4>3. QED BY <4>1, <4>2
    <3>3. CASE \/ RunCache \/ FreeEmptySlave \/ SlaveNotEmpty \/ ReadSize \/ WriteHeader
               \/ WriteData \/ ClearSlave \/ FreeSlave \/ UNCHANGED vars
      BY <2>1, <3>1, <3>3, NobodyMoves, OtherFlush
    <3>4. ASSUME NEW v \in Threads, NEW u \in Threads, CompressBroken(v, u)
          PROVE  FlushPhase(t)'
      <4>1. CASE t \in {u, v}
        <5>1. op'[t] = "log"
          BY <3>1, <3>4, <4>1, BrokenEffect DEF LogInv
        <5>2. QED BY <5>1 DEF FlushPhase
      <4>2. CASE t \notin {u, v}
        <5>1. pc'[t] = pc[t] /\ op'[t] = op[t] /\ promised'[t] = promised[t]
          BY <3>4, <4>2, BrokenEffect
        <5>2. QED BY <2>1, <3>1, <5>1, OtherFlush
      <4>3. QED BY <4>1, <4>2
    <3>5. QED BY <3>1, <3>2, <3>3, <3>4 DEF Working, StrandStep
  <2>4. QED BY <2>2, <2>3
<1>3. QED BY <1>1, <1>2 DEF FlushInv

\* What was stored when a Flush began that has returned is in the file, or was
\* lost inside ofs_ by a crash, as long as no swap met a busy slave: the double
\* post, wait and swap of Flush is enough for any threads that log, flush and
\* swap meanwhile, across restarts (effective_sink.cc 95-105, 126-181).
THEOREM FlushIsDurable == Spec => []FlushPersists
<1>1. Init => /\ Retained /\ SizeInv /\ CtorPhase /\ SessionInv
              /\ FreeInv /\ FlushInv
  <2> SUFFICES ASSUME Init
               PROVE  /\ Retained /\ SizeInv /\ CtorPhase /\ SessionInv
                      /\ FreeInv /\ FlushInv
    OBVIOUS
  <2>1. /\ pc[Main] = "ctor" /\ op[Main] = "ctor" /\ pending = <<>> /\ xpc = "idle"
        /\ slaveFree /\ accepted = <<>> /\ flushed = 0
        /\ \A t \in Threads : pc[t] \in {"ctor", "down"}
    BY DEF Init
  <2>2. CtorPhase /\ SessionInv
    BY <2>1, SmallQueues DEF CtorPhase, SessionInv, Constructing
  <2>3. Retained /\ SizeInv /\ FreeInv
    BY <2>1 DEF Retained, SizeInv, FreeInv, Constructing
  <2>4. FlushInv
    BY <2>1 DEF FlushInv, LogInv, Live, Constructing, FlushPersists
  <2>5. QED BY <2>2, <2>3, <2>4
<1>2. /\ BaseInv /\ Retained /\ SizeInv /\ CtorPhase /\ SessionInv /\ FreeInv /\ FlushInv
      /\ [Next]_vars
      => Retained' /\ SizeInv' /\ CtorPhase' /\ SessionInv' /\ FreeInv' /\ FlushInv'
  BY RetainedStep, SessionStep, FreeStep, FlushStep
<1>3. FlushInv => FlushPersists
  BY DEF FlushInv
<1>4. QED BY <1>1, <1>2, <1>3, BaseInvariance, PTL DEF Spec

-----------------------------------------------------------------------------
(* The order of the messages and of the frames                                *)

\* The cells on their way from the master to the file.
Cells == Items \cup Headers \cup {Junk}
Chain == stream \o Unwritten \o mem[master]

Linked(s) == \A i \in 1 .. Len(s) : IsItem(s[i]) => Decoded(s, i)
LastItem(s, m) ==
    \E j \in 1 .. Len(s) : /\ IsItem(s[j]) /\ s[j].msg = m
                           /\ \A l \in j + 1 .. Len(s) : ~IsItem(s[l])

\* The message a thread has yet to store is its own, and was never stored.
InHand(t) == pc[t] \in {"reset", "lock", "push"}
NewInv ==
    /\ \A k \in 1 .. Len(accepted) : accepted[k] < next
    /\ \A t \in Threads : InHand(t) =>
          msg[t] < next /\ \A k \in 1 .. Len(accepted) : accepted[k] # msg[t]
    /\ \A t, u \in Threads : t # u /\ InHand(t) /\ InHand(u) => msg[t] # msg[u]

\* The compression stream continues the last item on the way to the file, also
\* when that item has been swapped away or written, or it begins a frame.
FrameInv ==
    ~overrun /\ session = 1 /\ Fails = {} =>
        Linked(Chain) /\ (cctx = NoMsg \/ LastItem(Chain, cctx))

OrderInv == NewInv /\ InOrder /\ FrameInv

-----------------------------------------------------------------------------
\* A cell that is no whole item, between the others, does not change the order.
LEMMA OrderInsert ==
    ASSUME NEW c, NEW d, NEW a, Len(c) \in Nat, NEW n \in 0 .. Len(c),
           Len(d) = Len(c) + 1,
           \A i \in 1 .. n : d[i] = c[i],
           \A i \in n + 1 .. Len(c) : d[i + 1] = c[i],
           ~(IsItem(d[n + 1]) /\ d[n + 1].whole),
           SameOrder(c, a)
    PROVE  SameOrder(d, a)
<1> DEFINE Old(i) == IF i <= n THEN i ELSE i - 1
           New(i) == IF i <= n THEN i ELSE i + 1
<1>1. ASSUME NEW i \in 1 .. Len(d), IsItem(d[i]) /\ d[i].whole
      PROVE  i # n + 1 /\ Old(i) \in 1 .. Len(c) /\ d[i] = c[Old(i)]
  <2>1. i # n + 1
    BY <1>1
  <2>2. CASE i <= n
    BY <2>2
  <2>3. CASE i > n + 1
    <3>1. i - 1 \in n + 1 .. Len(c)
      BY <2>3
    <3>2. d[(i - 1) + 1] = c[i - 1] /\ (i - 1) + 1 = i
      BY <3>1
    <3>3. QED BY <2>3, <3>1, <3>2
  <2>4. QED BY <2>1, <2>2, <2>3
<1>2. ASSUME NEW i \in 1 .. Len(c)
      PROVE  New(i) \in 1 .. Len(d) /\ d[New(i)] = c[i]
  <2>1. CASE i <= n
    BY <2>1
  <2>2. CASE i > n
    <3>1. i \in n + 1 .. Len(c)
      BY <2>2
    <3>2. QED BY <2>2, <3>1
  <2>3. QED BY <2>1, <2>2
<1>3. \A i \in 1 .. Len(d) : IsItem(d[i]) /\ d[i].whole => \E k \in 1 .. Len(a) : d[i].msg = a[k]
  <2> SUFFICES ASSUME NEW i \in 1 .. Len(d), IsItem(d[i]) /\ d[i].whole
               PROVE  \E k \in 1 .. Len(a) : d[i].msg = a[k]
    OBVIOUS
  <2> HIDE DEF Old
  <2>1. PICK o \in 1 .. Len(c) : d[i] = c[o]
    BY <1>1
  <2>2. QED BY <2>1 DEF SameOrder
<1>4. ASSUME NEW k \in 1 .. Len(a) PROVE \E i \in 1 .. Len(d) : StoredAt(d, i, a[k])
  <2> HIDE DEF New
  <2>1. PICK i \in 1 .. Len(c) : StoredAt(c, i, a[k])
    BY DEF SameOrder
  <2>2. StoredAt(d, New(i), a[k])
    BY <1>2, <2>1 DEF StoredAt
  <2>3. QED BY <1>2, <2>2
<1>5. ASSUME NEW i \in 1 .. Len(d), NEW j \in 1 .. Len(d),
             NEW k \in 1 .. Len(a), NEW l \in 1 .. Len(a),
             StoredAt(d, i, a[k]), StoredAt(d, j, a[l])
      PROVE  i < j <=> k < l
  <2>1. /\ i # n + 1 /\ Old(i) \in 1 .. Len(c) /\ d[i] = c[Old(i)]
        /\ j # n + 1 /\ Old(j) \in 1 .. Len(c) /\ d[j] = c[Old(j)]
    BY <1>1, <1>5 DEF StoredAt
  <2>2. i < j <=> Old(i) < Old(j)
    BY <2>1
  <2>3. PICK o \in 1 .. Len(c), q \in 1 .. Len(c) : o = Old(i) /\ q = Old(j)
    BY <2>1
  <2> HIDE DEF Old
  <2>4. StoredAt(c, o, a[k]) /\ StoredAt(c, q, a[l])
    BY <1>5, <2>1, <2>3 DEF StoredAt
  <2>5. o < q <=> k < l
    BY <2>4 DEF SameOrder
  <2>6. QED BY <2>2, <2>3, <2>5
<1>6. QED BY <1>3, <1>4, <1>5 DEF SameOrder

\* The last cell becomes the whole item of a message that is stored now.
LEMMA OrderAccept ==
    ASSUME NEW c, NEW d, NEW M, NEW a \in Seq(M), NEW m \in M,
           Len(c) \in Nat, Len(c) >= 1, Len(d) = Len(c),
           \A i \in 1 .. Len(c) - 1 : d[i] = c[i],
           c[Len(c)].msg = m, StoredAt(d, Len(c), m),
           \A k \in 1 .. Len(a) : a[k] # m,
           SameOrder(c, a)
    PROVE  SameOrder(d, Append(a, m))
<1> DEFINE n == Len(c)
           b == Append(a, m)
<1>1. /\ Len(b) = Len(a) + 1 /\ Len(a) \in Nat
      /\ \A k \in 1 .. Len(a) : b[k] = a[k]
      /\ b[Len(a) + 1] = m
  OBVIOUS
<1> HIDE DEF b
<1>2. n \in Nat /\ n >= 1 /\ \A i \in 1 .. n : i = n \/ i \in 1 .. n - 1
  OBVIOUS
<1>3. \A k \in 1 .. Len(b) : k = Len(a) + 1 \/ k \in 1 .. Len(a)
  BY <1>1
<1>4. ASSUME NEW i \in 1 .. n - 1, IsItem(d[i]) /\ d[i].whole
      PROVE  i \in 1 .. n /\ d[i].msg # m /\ d[i] = c[i]
  <2>1. i \in 1 .. n /\ d[i] = c[i]
    BY <1>2
  <2>2. PICK k \in 1 .. Len(a) : c[i].msg = a[k]
    BY <1>4, <2>1 DEF SameOrder
  <2>3. QED BY <2>1, <2>2
<1>5. \A i \in 1 .. Len(d) : IsItem(d[i]) /\ d[i].whole => \E k \in 1 .. Len(b) : d[i].msg = b[k]
  <2> SUFFICES ASSUME NEW i \in 1 .. n, IsItem(d[i]) /\ d[i].whole
               PROVE  \E k \in 1 .. Len(b) : d[i].msg = b[k]
    OBVIOUS
  <2>1. CASE i = n
    <3>1. d[i].msg = b[Len(a) + 1] /\ Len(a) + 1 \in 1 .. Len(b)
      BY <1>1, <2>1 DEF StoredAt
    <3>2. QED BY <3>1
  <2>2. CASE i \in 1 .. n - 1
    <3>1. PICK k \in 1 .. Len(a) : c[i].msg = a[k]
      BY <1>4, <2>2 DEF SameOrder
    <3>2. k \in 1 .. Len(b) /\ b[k] = a[k]
      BY <1>1
    <3>3. QED BY <1>4, <2>2, <3>1, <3>2
  <2>3. QED BY <1>2, <2>1, <2>2
<1>6. ASSUME NEW k \in 1 .. Len(b) PROVE \E i \in 1 .. Len(d) : StoredAt(d, i, b[k])
  <2>1. CASE k = Len(a) + 1
    BY <1>1, <1>2, <2>1
  <2>2. CASE k \in 1 .. Len(a)
    <3>1. PICK i \in 1 .. n : StoredAt(c, i, a[k])
      BY <2>2 DEF SameOrder
    <3>2. i # n
      BY <2>2, <3>1 DEF StoredAt
    <3>3. i \in 1 .. n - 1 /\ i \in 1 .. Len(d) /\ d[i] = c[i]
      BY <1>2, <3>2
    <3>4. StoredAt(d, i, b[k])
      BY <1>1, <2>2, <3>1, <3>3 DEF StoredAt
    <3>5. QED BY <3>3, <3>4
  <2>3. QED BY <1>3, <2>1, <2>2
<1>7. ASSUME NEW i \in 1 .. n, NEW k \in 1 .. Len(b), StoredAt(d, i, b[k])
      PROVE  (i = n <=> k = Len(a) + 1)
             /\ (i # n => i \in 1 .. n - 1 /\ k \in 1 .. Len(a) /\ StoredAt(c, i, a[k]))
  <2>1. i = n => d[i].msg = m
    BY DEF StoredAt
  <2>2. i # n => i \in 1 .. n - 1 /\ d[i].msg # m /\ d[i] = c[i]
    BY <1>2, <1>4, <1>7 DEF StoredAt
  <2>3. d[i].msg = b[k]
    BY <1>7 DEF StoredAt
  <2>4. k = Len(a) + 1 => b[k] = m
    BY <1>1
  <2>5. k \in 1 .. Len(a) => b[k] # m /\ b[k] = a[k]
    BY <1>1
  <2>6. i = n <=> k = Len(a) + 1
    BY <1>3, <2>1, <2>2, <2>3, <2>4, <2>5
  <2>7. i # n => StoredAt(c, i, a[k])
    BY <1>3, <1>7, <2>2, <2>5, <2>6 DEF StoredAt
  <2>8. QED BY <1>3, <2>2, <2>6, <2>7
<1>8. ASSUME NEW i \in 1 .. Len(d), NEW j \in 1 .. Len(d),
             NEW k \in 1 .. Len(b), NEW l \in 1 .. Len(b),
             StoredAt(d, i, b[k]), StoredAt(d, j, b[l])
      PROVE  i < j <=> k < l
  <2>1. CASE i # n /\ j # n
    <3>1. /\ StoredAt(c, i, a[k]) /\ StoredAt(c, j, a[l])
          /\ k \in 1 .. Len(a) /\ l \in 1 .. Len(a)
      BY <1>7, <1>8, <2>1
    <3>2. i \in 1 .. Len(c) /\ j \in 1 .. Len(c)
      BY <1>2
    <3>3. QED BY <3>1, <3>2 DEF SameOrder
  <2>2. CASE i = n \/ j = n
    <3>1. /\ i = n <=> k = Len(a) + 1
          /\ j = n <=> l = Len(a) + 1
      BY <1>7, <1>8
    <3>2. /\ i \in 1 .. n /\ j \in 1 .. n
          /\ k \in 1 .. Len(a) + 1 /\ l \in 1 .. Len(a) + 1
          /\ n \in Nat /\ Len(a) \in Nat
      BY <1>1, <1>2
    <3>3. i = n => (i < j <=> k < l)
      <4>1. CASE i = n
        <5>1. k = Len(a) + 1
          BY <3>1, <4>1
        <5>2. ~(i < j) /\ ~(k < l)
          BY <3>2, <4>1, <5>1
        <5>3. QED BY <5>2
      <4>2. QED BY <4>1
    <3>4. i # n /\ j = n => (i < j <=> k < l)
      <4>1. CASE i # n /\ j = n
        <5>1. k # Len(a) + 1 /\ l = Len(a) + 1
          BY <3>1, <4>1
        <5>2. i < j /\ k < l
          BY <3>2, <4>1, <5>1
        <5>3. QED BY <5>2
      <4>2. QED BY <4>1
    <3>5. QED BY <2>2, <3>3, <3>4
  <2>3. QED BY <2>1, <2>2
<1>9. \A i, j \in 1 .. Len(d) : \A k, l \in 1 .. Len(b) :
          StoredAt(d, i, b[k]) /\ StoredAt(d, j, b[l]) => (i < j <=> k < l)
  BY <1>8, Zenon
<1>10. SameOrder(d, b)
  BY <1>5, <1>6, <1>9, Zenon DEF SameOrder
<1>11. QED BY <1>10 DEF b

\* Frames do not mind a cell between the items that is none.
LEMMA FrameInsert ==
    ASSUME NEW c, NEW d, Len(c) \in Nat, NEW n \in 0 .. Len(c),
           Len(d) = Len(c) + 1,
           \A i \in 1 .. n : d[i] = c[i],
           \A i \in n + 1 .. Len(c) : d[i + 1] = c[i],
           ~IsItem(d[n + 1])
    PROVE  /\ Linked(c) => Linked(d)
           /\ \A m : LastItem(c, m) => LastItem(d, m)
<1> DEFINE Old(i) == IF i <= n THEN i ELSE i - 1
           New(i) == IF i <= n THEN i ELSE i + 1
<1>1. ASSUME NEW i \in 1 .. Len(d), IsItem(d[i])
      PROVE  Old(i) \in 1 .. Len(c) /\ d[i] = c[Old(i)] /\ i = New(Old(i)) /\ i # n + 1
  <2>1. i # n + 1
    BY <1>1
  <2>2. CASE i <= n
    BY <2>2
  <2>3. CASE i > n + 1
    <3>1. i - 1 \in n + 1 .. Len(c)
      BY <2>3
    <3>2. d[(i - 1) + 1] = c[i - 1] /\ (i - 1) + 1 = i
      BY <3>1
    <3>3. QED BY <2>3, <3>1, <3>2
  <2>4. QED BY <2>1, <2>2, <2>3
<1>2. ASSUME NEW i \in 1 .. Len(c)
      PROVE  New(i) \in 1 .. Len(d) /\ d[New(i)] = c[i]
  <2>1. CASE i <= n
    BY <2>1
  <2>2. CASE i > n
    <3>1. i \in n + 1 .. Len(c)
      BY <2>2
    <3>2. QED BY <2>2, <3>1
  <2>3. QED BY <2>1, <2>2
\* The items between two items are still between them.
<1>3. ASSUME NEW j \in 1 .. Len(c), NEW e \in 1 .. Len(c) + 1,
             \A l \in j + 1 .. e - 1 : ~IsItem(c[l])
      PROVE  \A l \in New(j) + 1 .. New(e) - 1 : l \in 1 .. Len(d) => ~IsItem(d[l])
  <2> SUFFICES ASSUME NEW l \in New(j) + 1 .. New(e) - 1, l \in 1 .. Len(d), IsItem(d[l])
               PROVE  FALSE
    OBVIOUS
  <2>1. Old(l) \in 1 .. Len(c) /\ d[l] = c[Old(l)] /\ l # n + 1
    BY <1>1
  <2>2. Old(l) \in j + 1 .. e - 1
    BY <2>1
  <2>3. QED BY <1>3, <2>1, <2>2
<1>4. ASSUME Linked(c), NEW i \in 1 .. Len(d), IsItem(d[i]) PROVE Decoded(d, i)
  <2>1. Old(i) \in 1 .. Len(c) /\ d[i] = c[Old(i)] /\ i = New(Old(i)) /\ i # n + 1
    BY <1>1, <1>4
  <2>2. Decoded(c, Old(i))
    BY <1>4, <2>1 DEF Linked
  <2>3. CASE c[Old(i)].prev = NoMsg
    BY <2>1, <2>3 DEF Decoded, Continues
  <2>4. ASSUME NEW j \in 1 .. Old(i) - 1, IsItem(c[j]), c[j].msg = c[Old(i)].prev,
               \A l \in j + 1 .. Old(i) - 1 : ~IsItem(c[l])
        PROVE  Decoded(d, i)
    <3>1. j \in 1 .. Len(c) /\ Old(i) \in 1 .. Len(c) + 1
      BY <2>1
    <3>2. New(j) \in 1 .. i - 1
      BY <2>1, <3>1
    <3>3. \A l \in New(j) + 1 .. i - 1 : l \in 1 .. Len(d) => ~IsItem(d[l])
      BY <1>3, <2>1, <2>4, <3>1
    <3>4. \A l \in New(j) + 1 .. i - 1 : ~IsItem(d[l])
      <4>1. \A l \in New(j) + 1 .. i - 1 : l \in 1 .. Len(d)
        BY <3>2
      <4>2. QED BY <3>3, <4>1
    <3>5. d[New(j)] = c[j]
      BY <1>2, <3>1
    <3> HIDE DEF New, Old
    <3>6. QED BY <2>1, <2>4, <3>2, <3>4, <3>5 DEF Decoded, Continues
  <2>5. QED BY <2>2, <2>3, <2>4 DEF Decoded, Continues
<1>5. ASSUME NEW m, LastItem(c, m) PROVE LastItem(d, m)
  <2>1. PICK j \in 1 .. Len(c) : IsItem(c[j]) /\ c[j].msg = m /\ \A l \in j + 1 .. Len(c) : ~IsItem(c[l])
    BY <1>5 DEF LastItem
  <2>2. New(j) \in 1 .. Len(d) /\ d[New(j)] = c[j]
    BY <1>2
  <2>3. ASSUME NEW l \in New(j) + 1 .. Len(d), IsItem(d[l]) PROVE FALSE
    <3>1. l \in 1 .. Len(d)
      BY <2>2
    <3>2. Old(l) \in 1 .. Len(c) /\ d[l] = c[Old(l)] /\ l # n + 1
      BY <1>1, <2>3, <3>1
    <3>3. Old(l) \in j + 1 .. Len(c)
      BY <3>2
    <3>4. QED BY <2>1, <2>3, <3>2, <3>3
  <2> HIDE DEF New, Old
  <2>4. QED BY <2>1, <2>2, <2>3 DEF LastItem
<1>6. QED BY <1>4, <1>5 DEF Linked

\* An item at the end continues the last one, and is the last one then.
LEMMA FrameAppend ==
    ASSUME NEW c, NEW d, Len(c) \in Nat, Len(d) = Len(c) + 1,
           \A i \in 1 .. Len(c) : d[i] = c[i],
           IsItem(d[Len(d)]), Linked(c),
           d[Len(d)].prev = NoMsg \/ LastItem(c, d[Len(d)].prev)
    PROVE  Linked(d) /\ LastItem(d, d[Len(d)].msg)
<1> DEFINE n == Len(c) + 1
<1>1. n \in 1 .. Len(d) /\ Len(d) = n
  OBVIOUS
<1>2. ASSUME NEW i \in 1 .. Len(c), IsItem(d[i]) PROVE Decoded(d, i)
  <2>1. d[i] = c[i] /\ Decoded(c, i)
    BY <1>2 DEF Linked
  <2>2. CASE c[i].prev = NoMsg
    BY <2>1, <2>2 DEF Decoded, Continues
  <2>3. ASSUME NEW j \in 1 .. i - 1, IsItem(c[j]), c[j].msg = c[i].prev,
               \A l \in j + 1 .. i - 1 : ~IsItem(c[l])
        PROVE  Decoded(d, i)
    <3>1. \A l \in 1 .. i - 1 : d[l] = c[l]
      OBVIOUS
    <3>2. d[j] = c[j] /\ \A l \in j + 1 .. i - 1 : ~IsItem(d[l])
      BY <2>3, <3>1
    <3>3. QED BY <2>1, <2>3, <3>2 DEF Decoded, Continues
  <2>4. QED BY <2>1, <2>2, <2>3 DEF Decoded, Continues
<1>3. Decoded(d, n)
  <2>1. CASE d[n].prev = NoMsg
    BY <2>1 DEF Decoded, Continues
  <2>2. CASE LastItem(c, d[n].prev)
    <3>1. PICK j \in 1 .. Len(c) : /\ IsItem(c[j]) /\ c[j].msg = d[n].prev
                                   /\ \A l \in j + 1 .. Len(c) : ~IsItem(c[l])
      BY <2>2 DEF LastItem
    <3>2. n - 1 = Len(c) /\ j \in 1 .. n - 1 /\ d[j] = c[j]
      OBVIOUS
    <3>3. \A l \in j + 1 .. n - 1 : ~IsItem(d[l])
      <4>1. \A l \in j + 1 .. n - 1 : l \in 1 .. Len(c) /\ l \in j + 1 .. Len(c)
        BY <3>2
      <4>2. QED BY <3>1, <4>1
    <3> HIDE DEF n
    <3>4. QED BY <3>1, <3>2, <3>3 DEF Decoded, Continues
  <2>3. QED BY <1>1, <2>1, <2>2
<1>4. Linked(d)
  <2>1. \A i \in 1 .. Len(d) : i \in 1 .. Len(c) \/ i = n
    OBVIOUS
  <2>2. QED BY <1>2, <1>3, <2>1 DEF Linked
<1>5. LastItem(d, d[Len(d)].msg)
  <2>1. Len(d) \in 1 .. Len(d) /\ \A l \in Len(d) + 1 .. Len(d) : FALSE
    BY <1>1
  <2>2. QED BY <2>1 DEF LastItem
<1>6. QED BY <1>4, <1>5

\* Frames do not change when an item becomes whole.
LEMMA FrameSame ==
    ASSUME NEW c, NEW d, Len(d) = Len(c),
           \A i \in 1 .. Len(c) : /\ d[i].kind = c[i].kind
                                  /\ IsItem(c[i]) => d[i].msg = c[i].msg /\ d[i].prev = c[i].prev,
           Len(c) \in Nat
    PROVE  /\ Linked(c) => Linked(d)
           /\ \A m : LastItem(c, m) => LastItem(d, m)
<1>1. \A i \in 1 .. Len(c) : /\ IsItem(d[i]) <=> IsItem(c[i])
                             /\ IsItem(c[i]) => d[i].msg = c[i].msg /\ d[i].prev = c[i].prev
  BY DEF IsItem
<1>2. ASSUME Linked(c), NEW i \in 1 .. Len(d), IsItem(d[i]) PROVE Decoded(d, i)
  <2>1. Decoded(c, i) /\ d[i].prev = c[i].prev
    BY <1>1, <1>2 DEF Linked
  <2>2. \A l \in 1 .. i - 1 : l \in 1 .. Len(c)
    OBVIOUS
  <2>3. CASE c[i].prev = NoMsg
    BY <2>1, <2>3 DEF Decoded, Continues
  <2>4. ASSUME NEW j \in 1 .. i - 1, IsItem(c[j]), c[j].msg = c[i].prev,
               \A l \in j + 1 .. i - 1 : ~IsItem(c[l])
        PROVE  Decoded(d, i)
    <3>1. IsItem(d[j]) /\ d[j].msg = d[i].prev
      BY <1>1, <2>1, <2>2, <2>4
    <3>2. \A l \in j + 1 .. i - 1 : l \in 1 .. Len(c)
      OBVIOUS
    <3>3. \A l \in j + 1 .. i - 1 : ~IsItem(d[l])
      BY <1>1, <2>4, <3>2
    <3>4. QED BY <3>1, <3>3 DEF Decoded, Continues
  <2>5. QED BY <2>1, <2>3, <2>4 DEF Decoded, Continues
<1>3. ASSUME NEW m, LastItem(c, m) PROVE LastItem(d, m)
  <2>1. PICK j \in 1 .. Len(c) : IsItem(c[j]) /\ c[j].msg = m /\ \A l \in j + 1 .. Len(c) : ~IsItem(c[l])
    BY <1>3 DEF LastItem
  <2>2. \A l \in j + 1 .. Len(c) : l \in 1 .. Len(c)
    OBVIOUS
  <2>3. IsItem(d[j]) /\ d[j].msg = m /\ \A l \in j + 1 .. Len(d) : ~IsItem(d[l])
    BY <1>1, <2>1, <2>2
  <2>4. QED BY <2>3 DEF LastItem
<1>4. QED BY <1>2, <1>3 DEF Linked

\* What comes first is linked by itself.
LEMMA FramePrefix ==
    ASSUME NEW c, NEW d, Len(c) \in Nat, Len(d) \in Nat, Len(c) <= Len(d),
           \A i \in 1 .. Len(c) : d[i] = c[i], Linked(d)
    PROVE  Linked(c)
<1> SUFFICES ASSUME NEW i \in 1 .. Len(c), IsItem(c[i]) PROVE Decoded(c, i)
  BY DEF Linked
<1>1. i \in 1 .. Len(d) /\ d[i] = c[i] /\ \A l \in 1 .. i - 1 : d[l] = c[l]
  OBVIOUS
<1>2. Decoded(d, i)
  BY <1>1 DEF Linked
<1>3. CASE d[i].prev = NoMsg
  BY <1>1, <1>3 DEF Decoded, Continues
<1>4. ASSUME NEW j \in 1 .. i - 1, IsItem(d[j]), d[j].msg = d[i].prev,
             \A l \in j + 1 .. i - 1 : ~IsItem(d[l])
      PROVE  Decoded(c, i)
  <2>1. \A l \in j + 1 .. i - 1 : l \in 1 .. i - 1
    OBVIOUS
  <2>2. QED BY <1>1, <1>4, <2>1 DEF Decoded, Continues
<1>5. QED BY <1>2, <1>3, <1>4 DEF Decoded, Continues

-----------------------------------------------------------------------------
\* The cells of c are those of three sequences in a row.
InARow(c, s, u, v) ==
    /\ Len(c) = Len(s) + Len(u) + Len(v)
    /\ Len(s) \in Nat /\ Len(u) \in Nat /\ Len(v) \in Nat
    /\ \A i \in 1 .. Len(s) : c[i] = s[i]
    /\ \A i \in 1 .. Len(u) : c[Len(s) + i] = u[i]
    /\ \A i \in 1 .. Len(v) : c[Len(s) + Len(u) + i] = v[i]

LEMMA ThreeInARow ==
    ASSUME NEW S, NEW s \in Seq(S), NEW u \in Seq(S), NEW v \in Seq(S)
    PROVE  InARow(s \o u \o v, s, u, v)
<1> DEFINE w == s \o u
<1>1. /\ w \in Seq(S) /\ Len(w) = Len(s) + Len(u) /\ Len(s) \in Nat /\ Len(u) \in Nat
      /\ \A i \in 1 .. Len(s) : w[i] = s[i]
      /\ \A i \in 1 .. Len(u) : w[Len(s) + i] = u[i]
  BY ConcatProperties
<1> HIDE DEF w
<1>2. /\ w \o v \in Seq(S) /\ Len(w \o v) = Len(w) + Len(v) /\ Len(v) \in Nat
      /\ \A i \in 1 .. Len(w) : (w \o v)[i] = w[i]
      /\ \A i \in 1 .. Len(v) : (w \o v)[Len(w) + i] = v[i]
  <2>1. /\ w \o v \in Seq(S) /\ Len(w \o v) = Len(w) + Len(v)
        /\ \A i \in 1 .. Len(w) + Len(v) :
              (w \o v)[i] = IF i <= Len(w) THEN w[i] ELSE v[i - Len(w)]
    BY <1>1, ConcatProperties, SMTT(20)
  <2>2. Len(w) \in Nat /\ Len(v) \in Nat
    BY <1>1
  <2>3. \A i \in 1 .. Len(w) : i \in 1 .. Len(w) + Len(v) /\ i <= Len(w)
    BY <2>2
  <2>4. \A i \in 1 .. Len(v) : /\ Len(w) + i \in 1 .. Len(w) + Len(v)
                               /\ ~(Len(w) + i <= Len(w)) /\ (Len(w) + i) - Len(w) = i
    BY <2>2
  <2>5. QED BY <2>1, <2>2, <2>3, <2>4
<1>3. \A i \in 1 .. Len(s) : i \in 1 .. Len(w)
  BY <1>1
<1>4. \A i \in 1 .. Len(u) : Len(s) + i \in 1 .. Len(w)
  BY <1>1
<1>5. QED BY <1>1, <1>2, <1>3, <1>4 DEF w, InARow

LEMMA RowLength ==
    ASSUME NEW c, NEW s, NEW u, NEW v, InARow(c, s, u, v)
    PROVE  Len(c) \in Nat /\ Len(s) \in Nat /\ Len(s) <= Len(c)
  BY DEF InARow

LEMMA ChainType ==
    ASSUME TypeOK
    PROVE  /\ stream \in Seq(Cells) /\ Unwritten \in Seq(Cells) /\ mem[master] \in Seq(Cells)
           /\ mem[slave] \in Seq(Cells) /\ Chain \in Seq(Cells) /\ Len(Chain) \in Nat
<1>1. mem[master] \in Seq(Items) /\ mem[slave] \in Seq(Items)
  BY TwoBufs DEF TypeOK, slave
<1>2. mem[master] \in Seq(Cells) /\ mem[slave] \in Seq(Cells)
  BY <1>1 DEF Cells
<1>3. stream \in Seq(Cells)
  BY DEF TypeOK, Cells
<1>4. Unwritten \in Seq(Cells)
  BY <1>2 DEF Unwritten
<1>5. Chain \in Seq(Cells)
  BY <1>2, <1>3, <1>4, ConcatProperties DEF Chain
<1>6. QED BY <1>2, <1>3, <1>4, <1>5

\* PushHeader appends the item to the chain, not whole yet.
LEMMA HeaderChain ==
    ASSUME BaseInv, NEW t \in Threads, PushHeader(t)
    PROVE  /\ Len(Chain) \in Nat /\ Len(Chain') = Len(Chain) + 1
           /\ \A i \in 1 .. Len(Chain) : Chain'[i] = Chain[i]
           /\ Chain'[Len(Chain) + 1] = [kind |-> "item", msg |-> msg[t], prev |-> cctx,
                                        key |-> session, whole |-> FALSE]
<1> DEFINE e == [kind |-> "item", msg |-> msg[t], prev |-> cctx,
                 key |-> session, whole |-> FALSE]
           u == stream \o Unwritten
           v == mem[master]
<1>1. /\ e \in Items /\ mem'[master] = Append(v, e) /\ mem'[slave] = mem[slave]
  BY PushHeaderEffect DEF BaseInv, CallInv, PushHeader
<1> HIDE DEF e
<1>2. /\ stream \in Seq(Cells) /\ Unwritten \in Seq(Cells) /\ v \in Seq(Cells) /\ e \in Cells
  BY <1>1, ChainType DEF BaseInv, Cells
<1>3. stream' = stream /\ master' = master /\ xpc' = xpc /\ slave' = slave
  BY SameSlave DEF PushHeader, strandVars, fileVars
<1>4. Unwritten' = Unwritten
  BY <1>1, <1>3 DEF Unwritten
<1>5. u \in Seq(Cells) /\ Len(u) \in Nat /\ Len(v) \in Nat
  BY <1>2, ConcatProperties
<1> HIDE DEF u, v
<1>6. /\ Append(v, e) \in Seq(Cells) /\ Len(Append(v, e)) = Len(v) + 1
      /\ \A i \in 1 .. Len(v) : Append(v, e)[i] = v[i]
      /\ Append(v, e)[Len(v) + 1] = e
  BY <1>2
<1>7. Chain = u \o v /\ Chain' = u \o Append(v, e)
  BY <1>1, <1>3, <1>4 DEF Chain, u, v
<1>8. /\ Len(u \o v) = Len(u) + Len(v)
      /\ \A i \in 1 .. Len(u) + Len(v) : (u \o v)[i] = IF i <= Len(u) THEN u[i] ELSE v[i - Len(u)]
  BY <1>2, <1>5, ConcatProperties
<1> DEFINE w == Append(v, e)
<1> HIDE DEF w
<1>9. /\ Len(u \o w) = Len(u) + Len(v) + 1
      /\ \A i \in 1 .. Len(u) + Len(v) + 1 :
            (u \o w)[i] = IF i <= Len(u) THEN u[i] ELSE w[i - Len(u)]
  BY <1>5, <1>6, ConcatProperties DEF w
<1>10. ASSUME NEW i \in 1 .. Len(u) + Len(v) PROVE (u \o w)[i] = (u \o v)[i]
  <2>1. (u \o w)[i] = IF i <= Len(u) THEN u[i] ELSE w[i - Len(u)]
    BY <1>5, <1>9
  <2>2. i > Len(u) => i - Len(u) \in 1 .. Len(v)
    BY <1>5
  <2>3. i > Len(u) => w[i - Len(u)] = v[i - Len(u)]
    BY <1>6, <2>2 DEF w
  <2>4. QED BY <1>5, <1>8, <2>1, <2>3
<1>11. (u \o w)[Len(u) + Len(v) + 1] = e
  <2>1. Len(u) + Len(v) + 1 - Len(u) = Len(v) + 1 /\ Len(u) + Len(v) + 1 > Len(u)
    BY <1>5
  <2>2. QED BY <1>5, <1>6, <1>9, <2>1 DEF w
<1>12. QED BY <1>5, <1>7, <1>8, <1>9, <1>10, <1>11 DEF w, e

\* PushBody makes the last item of the chain whole.
LEMMA BodyChain ==
    ASSUME BaseInv, NEW t \in Threads, PushBody(t)
    PROVE  /\ Len(Chain) \in Nat /\ Len(Chain) >= 1 /\ Len(Chain') = Len(Chain)
           /\ \A i \in 1 .. Len(Chain) - 1 : Chain'[i] = Chain[i]
           /\ Chain[Len(Chain)] \in Items /\ Chain[Len(Chain)].msg = msg[t]
           /\ Chain'[Len(Chain)] = [Chain[Len(Chain)] EXCEPT !.whole = TRUE]
<1> DEFINE u == stream \o Unwritten
           v == mem[master]
           n == Len(v)
<1>1. v # <<>> /\ v[n].msg = msg[t]
  BY DEF BaseInv, CallInv, PushBody
<1>2. /\ n \in Nat /\ n >= 1 /\ mem' \in [Bufs -> Seq(Items)]
      /\ mem'[slave] = mem[slave] /\ Len(mem'[master]) = n
      /\ \A i \in 1 .. n - 1 : mem'[master][i] = v[i]
      /\ mem'[master][n] = [v[n] EXCEPT !.whole = TRUE]
      /\ v[n] \in Items
  BY <1>1, PushBodyEffect DEF BaseInv
<1>3. stream' = stream /\ master' = master /\ xpc' = xpc /\ slave' = slave /\ master \in Bufs
  BY SameSlave DEF PushBody, strandVars, fileVars, BaseInv, TypeOK
<1>4. Unwritten' = Unwritten
  BY <1>2, <1>3 DEF Unwritten
<1> DEFINE w == mem'[master]
<1>5. /\ u \in Seq(Cells) /\ Len(u) \in Nat /\ v \in Seq(Cells) /\ w \in Seq(Cells) /\ Len(w) = n
  <2>1. w \in Seq(Items)
    BY <1>2, <1>3
  <2>2. w \in Seq(Cells)
    BY <2>1 DEF Cells
  <2>3. stream \in Seq(Cells) /\ Unwritten \in Seq(Cells) /\ v \in Seq(Cells)
    BY ChainType DEF BaseInv
  <2>4. QED BY <1>2, <2>2, <2>3, ConcatProperties
<1>6. Chain = u \o v /\ Chain' = u \o w
  BY <1>3, <1>4 DEF Chain
<1>7. /\ \A i \in 1 .. n - 1 : w[i] = v[i]
      /\ w[n] = [v[n] EXCEPT !.whole = TRUE]
  BY <1>2
<1> HIDE DEF u, v, w, n
<1>8. /\ Len(u \o v) = Len(u) + n
      /\ \A i \in 1 .. Len(u) + n : (u \o v)[i] = IF i <= Len(u) THEN u[i] ELSE v[i - Len(u)]
      /\ Len(u \o w) = Len(u) + n
      /\ \A i \in 1 .. Len(u) + n : (u \o w)[i] = IF i <= Len(u) THEN u[i] ELSE w[i - Len(u)]
  <2>1. /\ Len(u \o v) = Len(u) + Len(v)
        /\ \A i \in 1 .. Len(u) + Len(v) :
              (u \o v)[i] = IF i <= Len(u) THEN u[i] ELSE v[i - Len(u)]
    BY <1>5, ConcatProperties
  <2>2. /\ Len(u \o w) = Len(u) + Len(w)
        /\ \A i \in 1 .. Len(u) + Len(w) :
              (u \o w)[i] = IF i <= Len(u) THEN u[i] ELSE w[i - Len(u)]
    BY <1>5, ConcatProperties
  <2>3. Len(v) = n /\ Len(w) = n
    BY <1>5 DEF n
  <2>4. QED BY <2>1, <2>2, <2>3
<1>9. ASSUME NEW i \in 1 .. Len(u) + n - 1 PROVE (u \o w)[i] = (u \o v)[i]
  <2>1. i \in 1 .. Len(u) + n /\ (i > Len(u) => i - Len(u) \in 1 .. n - 1)
    BY <1>2, <1>5, SMTT(20)
  <2>2. QED BY <1>5, <1>7, <1>8, <2>1, SMTT(20)
<1>10. (u \o w)[Len(u) + n] = w[n] /\ (u \o v)[Len(u) + n] = v[n]
  <2>1. PICK k \in 1 .. Len(u) + n : k = Len(u) + n /\ k - Len(u) = n /\ ~(k <= Len(u))
    BY <1>2, <1>5
  <2>2. QED BY <1>8, <2>1
<1>11. Len(u) + n \in Nat /\ Len(u) + n >= 1
  BY <1>2, <1>5
<1>12. v[n] \in Items /\ v[n].msg = msg[t]
  BY <1>1, <1>2
<1> DEFINE c == u \o v
           d == u \o w
<1>13. /\ Len(c) \in Nat /\ Len(c) >= 1 /\ Len(d) = Len(c)
       /\ \A i \in 1 .. Len(c) - 1 : d[i] = c[i]
       /\ c[Len(c)] \in Items /\ c[Len(c)].msg = msg[t]
       /\ d[Len(c)] = [c[Len(c)] EXCEPT !.whole = TRUE]
  <2>1. Len(c) = Len(u) + n /\ Len(d) = Len(u) + n /\ c[Len(c)] = v[n] /\ d[Len(c)] = w[n]
    BY <1>8, <1>10
  <2> HIDE DEF c, d
  <2>2. Len(c) \in Nat /\ Len(c) >= 1 /\ Len(d) = Len(c)
    BY <1>11, <2>1
  <2>3. \A i \in 1 .. Len(c) - 1 : d[i] = c[i]
    <3>1. \A i \in 1 .. Len(u) + n - 1 : d[i] = c[i]
      BY <1>9, Zenon DEF c, d
    <3>2. ASSUME NEW i \in 1 .. Len(c) - 1 PROVE i \in 1 .. Len(u) + n - 1
      BY <1>2, <1>5, <2>1
    <3>3. QED BY <3>1, <3>2, Zenon
  <2>4. QED BY <1>7, <1>12, <2>1, <2>2, <2>3
<1>14. QED BY <1>6, <1>13

\* WriteHeader puts the header of the chunk between the file and the slave.
LEMMA ChunkHeaderChain ==
    ASSUME BaseInv, WriteHeader
    PROVE  /\ Len(Chain) \in Nat /\ Len(stream) \in 0 .. Len(Chain)
           /\ Len(Chain') = Len(Chain) + 1
           /\ \A i \in 1 .. Len(stream) : Chain'[i] = Chain[i]
           /\ \A i \in Len(stream) + 1 .. Len(Chain) : Chain'[i + 1] = Chain[i]
           /\ ~IsItem(Chain'[Len(stream) + 1])
<1>15. PICK h \in Headers : ~IsItem(h) /\ stream' = Append(stream, h)
  BY HeaderWritten, Zenon DEF BaseInv
<1> DEFINE r == mem[slave]
           v == mem[master]
           s == Append(stream, h)
<1>1. /\ stream' = s /\ mem' = mem /\ master' = master /\ slave' = slave
      /\ xpc = "header" /\ xpc' = "data"
  <2>1. mem' = mem /\ master' = master /\ xpc = "header" /\ xpc' = "data"
    BY Zenon DEF WriteHeader, bufVars
  <2>2. QED BY <1>15, <2>1, SameSlave
<1>2. stream \in Seq(Cells) /\ r \in Seq(Cells) /\ v \in Seq(Cells) /\ h \in Cells
  BY <1>1, ChainType DEF BaseInv, Cells
<1>3. /\ s \in Seq(Cells) /\ Len(s) = Len(stream) + 1 /\ s[Len(stream) + 1] = h
      /\ \A i \in 1 .. Len(stream) : s[i] = stream[i]
  BY <1>2
<1>4. Chain = stream \o r \o v /\ Chain' = s \o r \o v
  BY <1>1 DEF Chain, Unwritten
<1>5. ~IsItem(h)
  BY <1>15
<1> HIDE DEF r, v, s
<1> DEFINE c == stream \o r \o v
           d == s \o r \o v
           p == Len(stream)
           q == Len(r)
<1>0. InARow(stream \o r \o v, stream, r, v)
  BY <1>2, ThreeInARow
<1>13. InARow(s \o r \o v, s, r, v)
  BY <1>2, <1>3, ThreeInARow
<1>14. Len(s) = Len(stream) + 1
  BY <1>3
<1>6. /\ Len(c) = p + q + Len(v) /\ p \in Nat /\ q \in Nat /\ Len(v) \in Nat
      /\ \A i \in 1 .. p : c[i] = stream[i]
      /\ \A i \in 1 .. q : c[p + i] = r[i]
      /\ \A i \in 1 .. Len(v) : c[p + q + i] = v[i]
  BY <1>0 DEF InARow
<1>7. /\ Len(d) = p + 1 + q + Len(v)
      /\ \A i \in 1 .. p + 1 : d[i] = s[i]
      /\ \A i \in 1 .. q : d[p + 1 + i] = r[i]
      /\ \A i \in 1 .. Len(v) : d[p + 1 + q + i] = v[i]
  BY <1>13, <1>14 DEF InARow
<1> HIDE DEF c, d, p, q
<1>8. ASSUME NEW i \in p + 1 .. Len(c) PROVE d[i + 1] = c[i]
  <2>1. CASE i <= p + q
    <3>1. PICK k \in 1 .. q : p + k = i /\ p + 1 + k = i + 1
      <4>1. i - p \in 1 .. q /\ p + (i - p) = i /\ p + 1 + (i - p) = i + 1
        BY <1>6, <2>1
      <4>2. QED BY <4>1
    <3>2. d[p + 1 + k] = r[k] /\ c[p + k] = r[k]
      BY <1>6, <1>7
    <3>3. QED BY <3>1, <3>2
  <2>2. CASE i > p + q
    <3>1. PICK k \in 1 .. Len(v) : p + q + k = i /\ p + 1 + q + k = i + 1
      <4>1. /\ i - (p + q) \in 1 .. Len(v) /\ p + q + (i - (p + q)) = i
            /\ p + 1 + q + (i - (p + q)) = i + 1
        BY <1>6, <2>2
      <4>2. QED BY <4>1
    <3>2. d[p + 1 + q + k] = v[k] /\ c[p + q + k] = v[k]
      BY <1>6, <1>7
    <3>3. QED BY <3>1, <3>2
  <2>3. QED BY <1>6, <2>1, <2>2
<1>9. \A i \in 1 .. p : d[i] = c[i]
  BY <1>3, <1>6, <1>7 DEF p
<1>10. d[p + 1] = h
  BY <1>3, <1>6, <1>7 DEF p
<1>11. Len(c) \in Nat /\ p \in 0 .. Len(c) /\ Len(d) = Len(c) + 1
  BY <1>6, <1>7
<1>12. QED BY <1>4, <1>5, <1>8, <1>9, <1>10, <1>11 DEF c, d, p

\* As long as the size is that of the slave, the slave is what is written.
LEMMA WholeBlock ==
    ASSUME BaseInv
    PROVE  Block(slave, Len(mem[slave])) = mem[slave]
<1> DEFINE n == Len(mem[slave])
<1>1. mem[slave] \in Seq(Items) /\ n \in Nat
  BY TwoBufs DEF BaseInv, TypeOK, slave
<1>2. Block(slave, n) \in Seq(Items \cup {Junk}) /\ Len(Block(slave, n)) = n
  BY <1>1, BlockType DEF BaseInv
<1>3. \A i \in 1 .. n : Block(slave, n)[i] = mem[slave][i]
  BY <1>1 DEF Block
<1>4. mem[slave] \in Seq(Items \cup {Junk})
  BY <1>1
<1>5. QED BY <1>2, <1>3, <1>4, SeqEqual

\* No other step changes the chain, unless a swap goes wrong: writing, clearing
\* and swapping move the items along.
LEMMA ChainStays ==
    ASSUME BaseInv, SizeInv, ~overrun, ~overrun', [Next]_vars, session' = session,
           \A t \in Threads : ~PushHeader(t) /\ ~PushBody(t), ~WriteHeader
    PROVE  Chain' = Chain
<1> USE DEF bufVars, lockVars, strandVars, fileVars, callVars, history
<1>0. stream \in Seq(Cells) /\ mem[master] \in Seq(Cells) /\ mem[slave] \in Seq(Cells)
  BY ChainType DEF BaseInv
<1>1. ASSUME UNCHANGED <<mem, master, stream>>, xpc' = "clear" <=> xpc = "clear"
      PROVE  Chain' = Chain
  BY <1>1, SameSlave DEF Chain, Unwritten
<1>2. ASSUME NEW t \in Threads, LogCall(t) \/ FlushCall(t) \/ CallStep(t), ~SwapPointers(t)
      PROVE  Chain' = Chain
  BY <1>1, <1>2 DEF LogCall, FlushCall, CallStep, ResetStream,
              NeedWriteToFile, LoadFree, StoreBusy, PostCache, PostBarrier, LogFails
<1>3. CASE CtorStep \/ UNCHANGED vars
  BY <1>1, <1>3 DEF CtorStep, RecoverSlave, RecoverMaster, CtorReturns, vars
<1>4. ASSUME NEW t \in Threads, SwapPointers(t) PROVE Chain' = Chain
  <2>1. /\ master' = slave /\ slave' = master /\ mem' = mem /\ stream' = stream
        /\ xpc' = xpc /\ mem[slave] = <<>> /\ xpc \in {"idle", "empty"}
    BY <1>4, TwoBufs DEF SwapPointers, SlaveAvailable, slave, BaseInv, TypeOK
  <2>2. Chain = stream \o <<>> \o mem[master] /\ Chain' = stream \o mem[master] \o <<>>
    BY <2>1 DEF Chain, Unwritten
  <2>3. stream \o mem[master] \in Seq(Cells)
    BY <1>0, ConcatProperties
  <2>4. QED BY <1>0, <2>2, <2>3, ConcatEmptySeq
<1>5. CASE WriteData
  <2>1. stream' = stream \o mem[slave]
    BY <1>5, WholeBlock DEF SizeInv, WriteData
  <2>2. mem' = mem /\ master' = master /\ xpc = "data" /\ xpc' = "clear"
    BY <1>5 DEF WriteData
  <2>3. Chain = stream \o mem[slave] \o mem[master]
    BY <2>2 DEF Chain, Unwritten
  <2>4. Chain' = stream \o mem[slave] \o <<>> \o mem[master]
    BY <2>1, <2>2 DEF Chain, Unwritten
  <2>5. stream \o mem[slave] \in Seq(Cells)
    BY <1>0, ConcatProperties
  <2>6. QED BY <2>3, <2>4, <2>5, ConcatEmptySeq
<1>6. CASE ClearSlave
  <2>1. /\ slave' = slave /\ master' = master /\ slave \in Bufs /\ slave # master
        /\ mem' = [mem EXCEPT ![slave] = <<>>] /\ stream' = stream
        /\ xpc = "clear" /\ xpc' = "free"
    BY <1>6, SameSlave, TwoBufs DEF ClearSlave, Clear, slave, BaseInv, TypeOK
  <2>2. mem'[slave'] = <<>> /\ mem'[master'] = mem[master]
    BY <2>1 DEF BaseInv, TypeOK
  <2>3. QED BY <2>1, <2>2 DEF Chain, Unwritten
<1>7. CASE RunCache \/ FreeEmptySlave \/ SlaveNotEmpty \/ ReadSize \/ FreeSlave
  BY <1>1, <1>7 DEF RunCache, FreeEmptySlave, SlaveNotEmpty, ReadSize, FreeSlave
<1>8. ASSUME NEW t \in Threads, RunBarrier(t) PROVE Chain' = Chain
  BY <1>1, <1>8 DEF RunBarrier
<1>9. ~Crash /\ ~Close
  BY DEF Crash, Close, Restart, BaseInv, TypeOK
<1>10. CASE \E t, u \in Threads : CompressBroken(t, u)
  BY <1>1, <1>10, BrokenEffect
<1>11. QED BY <1>2, <1>3, <1>4, <1>5, <1>6, <1>7, <1>8, <1>9, <1>10 DEF Next, StrandStep

\* The messages in hand stay new.
LEMMA NewStep ==
    ASSUME BaseInv, NewInv, [Next]_vars
    PROVE  NewInv'
<1> USE DEF bufVars, lockVars, strandVars, fileVars, callVars, history
<1>0. next \in Nat /\ msg \in [Threads -> Msgs \cup {NoMsg}] /\ pc \in [Threads -> PCs]
      /\ accepted \in Seq(Msgs)
  <2>1. TypeOK
    BY Zenon DEF BaseInv
  <2>2. /\ next \in 1 .. MaxMsgs + 1 /\ msg \in [Threads -> Msgs \cup {NoMsg}]
        /\ pc \in [Threads -> PCs] /\ accepted \in Seq(Msgs)
    BY <2>1, Zenon DEF TypeOK
  <2>3. QED BY <2>2
<1>1. ASSUME UNCHANGED <<accepted, next, msg>>,
             \A t \in Threads : InHand(t)' => InHand(t)
      PROVE  NewInv'
  BY <1>1 DEF NewInv
<1>2. ASSUME NEW t \in Threads, LogCall(t) PROVE NewInv'
  <2>1. /\ next' = next + 1 /\ accepted' = accepted
        /\ msg'[t] = next /\ \A u \in Threads : u # t => msg'[u] = msg[u] /\ pc'[u] = pc[u]
    BY <1>0, <1>2 DEF LogCall, Goto
  <2>2. \A k \in 1 .. Len(accepted) : accepted[k] \in Nat /\ accepted[k] < next
    BY <1>0 DEF NewInv, Msgs
  <2>3. \A u \in Threads : msg[u] \in Nat
    BY <1>0 DEF Msgs, NoMsg
  <2>4. \A u \in Threads : u # t /\ InHand(u)' =>
           InHand(u) /\ msg'[u] < next /\ msg'[u] # next /\ \A k \in 1 .. Len(accepted) : accepted[k] # msg'[u]
    BY <2>1, <2>3, <1>0 DEF NewInv, InHand
  <2>5. \A k \in 1 .. Len(accepted') : accepted'[k] < next'
    BY <1>0, <2>1, <2>2
  <2>6. ASSUME NEW u \in Threads, InHand(u)'
        PROVE  msg'[u] < next' /\ \A k \in 1 .. Len(accepted') : accepted'[k] # msg'[u]
    <3>1. CASE u = t
      BY <1>0, <2>1, <2>2, <3>1
    <3>2. CASE u # t
      BY <1>0, <2>1, <2>3, <2>4, <2>6, <3>2
    <3>3. QED BY <3>1, <3>2
  <2>7. ASSUME NEW u \in Threads, NEW w \in Threads, u # w, InHand(u)', InHand(w)'
        PROVE  msg'[u] # msg'[w]
    <3>1. CASE u = t \/ w = t
      BY <2>1, <2>4, <2>7, <3>1
    <3>2. CASE u # t /\ w # t
      BY <2>1, <2>4, <2>7, <3>2 DEF NewInv
    <3>3. QED BY <3>1, <3>2
  <2>8. QED BY <2>5, <2>6, <2>7 DEF NewInv
<1>3. ASSUME NEW t \in Threads, PushBody(t) PROVE NewInv'
  <2>1. /\ next' = next /\ msg' = msg /\ accepted' = Append(accepted, msg[t])
        /\ pc'[t] = "need" /\ \A u \in Threads : u # t => pc'[u] = pc[u]
        /\ msg[t] \in Msgs /\ InHand(t)
    BY <1>0, <1>3 DEF PushBody, Goto, BaseInv, CallInv, InHand
  <2>2. \A k \in 1 .. Len(accepted') :
           \/ k \in 1 .. Len(accepted) /\ accepted'[k] = accepted[k]
           \/ accepted'[k] = msg[t]
    BY <1>0, <2>1
  <2>3. \A u \in Threads : InHand(u)' => u # t /\ InHand(u)
    BY <2>1 DEF InHand
  <2>4. QED BY <2>1, <2>2, <2>3 DEF NewInv
<1>4. ASSUME NEW t \in Threads, FlushCall(t) \/ CallStep(t), ~PushBody(t) PROVE NewInv'
  BY <1>0, <1>1, <1>4 DEF FlushCall, CallStep, ResetStream, PushHeader, NeedWriteToFile,
       LoadFree, StoreBusy, SwapPointers, PostCache, PostBarrier, LogFails, Goto, InHand, AfterLoad, AfterPost
<1>5. CASE CtorStep \/ UNCHANGED vars
  BY <1>0, <1>1, <1>5 DEF CtorStep, RecoverSlave, RecoverMaster, CtorReturns, Goto, InHand, AfterSlave, vars
<1>6. CASE \/ RunCache \/ FreeEmptySlave \/ SlaveNotEmpty \/ ReadSize \/ WriteHeader
           \/ WriteData \/ ClearSlave \/ FreeSlave
  BY <1>1, <1>6 DEF RunCache, FreeEmptySlave, SlaveNotEmpty, ReadSize, WriteHeader,
              WriteData, ClearSlave, FreeSlave, InHand
<1>7. ASSUME NEW t \in Threads, RunBarrier(t) PROVE NewInv'
  BY <1>0, <1>1, <1>7 DEF RunBarrier, Goto, InHand
<1>8. CASE Crash \/ Close
  <2>1. /\ accepted' = accepted /\ next' = next
        /\ \A t \in Threads : pc'[t] \in {"ctor", "down"}
    BY <1>8 DEF Crash, Close, Restart
  <2>2. QED BY <2>1 DEF NewInv, InHand
<1>9. CASE \E t, u \in Threads : CompressBroken(t, u)
  <2>1. \A x \in Threads : InHand(x)' => InHand(x)
    BY <1>9, BrokenEffect DEF InHand
  <2>2. UNCHANGED <<accepted, next, msg>>
    BY <1>9, BrokenEffect
  <2>3. QED BY <1>1, <2>1, <2>2
<1>10. QED BY <1>2, <1>3, <1>4, <1>5, <1>6, <1>7, <1>8, <1>9 DEF Next, StrandStep

\* A run that is not the first one is never followed by the first one.
LEMMA FirstSession == [Next]_vars /\ BaseInv /\ session' = 1 => session = 1
<1> USE DEF bufVars, lockVars, strandVars, fileVars, callVars, history
<1> SUFFICES ASSUME [Next]_vars, BaseInv, session' = 1 PROVE session = 1
  OBVIOUS
<1>1. ASSUME NEW t \in Threads, LogCall(t) \/ FlushCall(t) \/ CallStep(t) PROVE session' = session
  BY <1>1 DEF LogCall, FlushCall, CallStep, ResetStream, PushHeader, PushBody, NeedWriteToFile,
       LoadFree, StoreBusy, SwapPointers, PostCache, PostBarrier, LogFails
<1>2. CASE CtorStep \/ StrandStep \/ UNCHANGED vars
  BY <1>2 DEF CtorStep, RecoverSlave, RecoverMaster, CtorReturns, StrandStep, RunCache, FreeEmptySlave,
       SlaveNotEmpty, ReadSize, WriteHeader, WriteData, ClearSlave, FreeSlave, RunBarrier, vars
<1>3. CASE Crash \/ Close
  <2>1. TypeOK /\ KeyInv
    BY Zenon DEF BaseInv
  <2>2. session \in Nat /\ session >= 1
    BY <2>1, Zenon DEF TypeOK, KeyInv
  <2>3. session' = session + 1
    BY <1>3, Zenon DEF Crash, Close, Restart
  <2>4. QED BY <2>2, <2>3
<1>4. CASE \E t, u \in Threads : CompressBroken(t, u)
  BY <1>4, BrokenEffect
<1>5. QED BY <1>1, <1>2, <1>3, <1>4 DEF Next

LEMMA OrderStep ==
    ASSUME BaseInv, SizeInv, NewInv, InOrder, [Next]_vars
    PROVE  InOrder'
<1> USE DEF bufVars, lockVars, strandVars, fileVars, callVars, history
<1> SUFFICES ASSUME ~overrun', session' = 1 PROVE SameOrder(Chain', accepted')
  BY DEF InOrder, Chain
<1>1. ~overrun /\ session = 1 /\ SameOrder(Chain, accepted)
  BY GoodBefore, FirstSession DEF InOrder, Chain
<1>2. ASSUME NEW t \in Threads, PushHeader(t) PROVE SameOrder(Chain', accepted')
  <2>1. accepted' = accepted
    BY <1>2 DEF PushHeader
  <2> DEFINE c == Chain
             d == Chain'
  <2>2. /\ Len(c) \in Nat /\ Len(d) = Len(c) + 1
        /\ \A i \in 1 .. Len(c) : d[i] = c[i]
        /\ d[Len(c) + 1] = [kind |-> "item", msg |-> msg[t], prev |-> cctx,
                              key |-> session, whole |-> FALSE]
    BY <1>2, HeaderChain, Zenon
  <2>3. SameOrder(c, accepted)
    BY <1>1
  <2> HIDE DEF c, d
  <2>4. /\ Len(c) \in 0 .. Len(c) /\ \A i \in Len(c) + 1 .. Len(c) : FALSE
        /\ ~d[Len(c) + 1].whole
    BY <2>2
  <2>5. SameOrder(d, accepted)
    BY <2>2, <2>3, <2>4, OrderInsert
  <2>6. QED BY <2>1, <2>5 DEF d
<1>3. ASSUME NEW t \in Threads, PushBody(t) PROVE SameOrder(Chain', accepted')
  <2>1. /\ accepted' = Append(accepted, msg[t]) /\ accepted \in Seq(Msgs) /\ msg[t] \in Msgs
        /\ \A k \in 1 .. Len(accepted) : accepted[k] # msg[t]
    BY <1>3 DEF PushBody, BaseInv, TypeOK, CallInv, NewInv, InHand
  <2> DEFINE c == Chain
             d == Chain'
             n == Len(c)
  <2>2. /\ n \in Nat /\ n >= 1 /\ Len(d) = n
        /\ \A i \in 1 .. n - 1 : d[i] = c[i]
        /\ c[n] \in Items /\ c[n].msg = msg[t]
        /\ d[n] = [c[n] EXCEPT !.whole = TRUE]
    BY <1>3, BodyChain
  <2>3. SameOrder(c, accepted)
    BY <1>1
  <2> HIDE DEF c, d
  <2>4. StoredAt(d, n, msg[t])
    BY <2>2 DEF StoredAt, IsItem, Items
  <2>5. SameOrder(d, Append(accepted, msg[t]))
    BY <2>1, <2>2, <2>3, <2>4, OrderAccept
  <2>6. QED BY <2>1, <2>5 DEF d
<1>4. CASE WriteHeader
  <2>1. accepted' = accepted
    BY <1>4 DEF WriteHeader
  <2> DEFINE c == Chain
             d == Chain'
             n == Len(stream)
  <2>2. /\ Len(c) \in Nat /\ n \in 0 .. Len(c) /\ Len(d) = Len(c) + 1
        /\ \A i \in 1 .. n : d[i] = c[i]
        /\ \A i \in n + 1 .. Len(c) : d[i + 1] = c[i]
        /\ ~IsItem(d[n + 1])
    BY <1>4, ChunkHeaderChain
  <2>3. SameOrder(c, accepted)
    BY <1>1
  <2> HIDE DEF c, d, n
  <2>4. SameOrder(d, accepted)
    BY <2>2, <2>3, OrderInsert
  <2>5. QED BY <2>1, <2>4 DEF d
<1>5. CASE ~WriteHeader /\ \A t \in Threads : ~PushHeader(t) /\ ~PushBody(t)
  <2>1. Chain' = Chain
    BY <1>1, <1>5, ChainStays
  <2>2. accepted' = accepted
    <3>1. ASSUME NEW t \in Threads, LogCall(t) \/ FlushCall(t) \/ CallStep(t) PROVE accepted' = accepted
      BY <1>5, <3>1 DEF LogCall, FlushCall, CallStep, ResetStream, NeedWriteToFile,
           LoadFree, StoreBusy, SwapPointers, PostCache, PostBarrier, LogFails
    <3>2. CASE CtorStep \/ StrandStep \/ Crash \/ Close \/ UNCHANGED vars
      BY <3>2 DEF CtorStep, RecoverSlave, RecoverMaster, CtorReturns, StrandStep, RunCache, FreeEmptySlave,
           SlaveNotEmpty, ReadSize, WriteHeader, WriteData, ClearSlave, FreeSlave, RunBarrier, Crash, Close,
           Restart, vars
    <3>3. CASE \E t, u \in Threads : CompressBroken(t, u)
      BY <3>3, BrokenEffect
    <3>4. QED BY <3>1, <3>2, <3>3 DEF Next
  <2>3. QED BY <1>1, <2>1, <2>2
<1>6. QED BY <1>2, <1>3, <1>4, <1>5

LEMMA FrameStep ==
    ASSUME BaseInv, SizeInv, FrameInv, [Next]_vars
    PROVE  FrameInv'
<1> USE DEF bufVars, lockVars, strandVars, fileVars, callVars, history
<1> SUFFICES ASSUME ~overrun', session' = 1, Fails = {}
             PROVE  Linked(Chain') /\ (cctx' = NoMsg \/ LastItem(Chain', cctx'))
  BY DEF FrameInv, Chain, Linked, LastItem, Decoded, Continues, IsItem
<1> DEFINE c == Chain
           d == Chain'
<1>1. ~overrun /\ session = 1 /\ Linked(c) /\ (cctx = NoMsg \/ LastItem(c, cctx))
  BY GoodBefore, FirstSession DEF FrameInv
<1>2. ASSUME NEW t \in Threads, PushHeader(t) PROVE Linked(d) /\ LastItem(d, cctx')
  <2>1. /\ Len(c) \in Nat /\ Len(d) = Len(c) + 1
        /\ \A i \in 1 .. Len(c) : d[i] = c[i]
        /\ d[Len(c) + 1] = [kind |-> "item", msg |-> msg[t], prev |-> cctx,
                              key |-> session, whole |-> FALSE]
    BY <1>2, HeaderChain, Zenon
  <2>2. cctx' = msg[t]
    BY <1>2 DEF PushHeader
  <2> HIDE DEF c, d
  <2>3. IsItem(d[Len(d)]) /\ d[Len(d)].prev = cctx /\ d[Len(d)].msg = msg[t]
    BY <2>1 DEF IsItem
  <2>4. QED BY <1>1, <2>1, <2>2, <2>3, FrameAppend
<1>3. ASSUME NEW t \in Threads, PushBody(t) PROVE Linked(d) /\ (cctx' = NoMsg \/ LastItem(d, cctx'))
  <2> DEFINE n == Len(c)
  <2>1. /\ n \in Nat /\ n >= 1 /\ Len(d) = n
        /\ \A i \in 1 .. n - 1 : d[i] = c[i]
        /\ c[n] \in Items /\ d[n] = [c[n] EXCEPT !.whole = TRUE]
    BY <1>3, BodyChain
  <2>2. cctx' = cctx
    BY <1>3 DEF PushBody
  <2> HIDE DEF c, d
  <2>3. \A i \in 1 .. n : d[i].kind = c[i].kind /\ d[i].msg = c[i].msg /\ d[i].prev = c[i].prev
    <3>1. d[n].kind = c[n].kind /\ d[n].msg = c[n].msg /\ d[n].prev = c[n].prev
      BY <2>1 DEF Items
    <3>2. \A i \in 1 .. n : i = n \/ i \in 1 .. n - 1
      BY <2>1
    <3>3. QED BY <2>1, <3>1, <3>2
  <2>4. QED BY <1>1, <2>1, <2>2, <2>3, FrameSame
<1>4. CASE WriteHeader
  <2> DEFINE n == Len(stream)
  <2>1. /\ Len(c) \in Nat /\ n \in 0 .. Len(c) /\ Len(d) = Len(c) + 1
        /\ \A i \in 1 .. n : d[i] = c[i]
        /\ \A i \in n + 1 .. Len(c) : d[i + 1] = c[i]
        /\ ~IsItem(d[n + 1])
    BY <1>4, ChunkHeaderChain
  <2>2. cctx' = cctx
    BY <1>4 DEF WriteHeader
  <2> HIDE DEF c, d, n
  <2>3. Linked(d) /\ \A m : LastItem(c, m) => LastItem(d, m)
    BY <1>1, <2>1, FrameInsert
  <2>4. QED BY <1>1, <2>2, <2>3 DEF d
<1>5. CASE ~WriteHeader /\ \A t \in Threads : ~PushHeader(t) /\ ~PushBody(t)
  <2>1. d = c
    BY <1>1, <1>5, ChainStays
  <2>2. cctx' = cctx \/ cctx' = NoMsg
    <3>1. ASSUME NEW t \in Threads, LogCall(t) \/ FlushCall(t) \/ CallStep(t)
          PROVE  cctx' = cctx \/ cctx' = NoMsg
      BY <1>5, <3>1 DEF LogCall, FlushCall, CallStep, ResetStream, NeedWriteToFile,
           LoadFree, StoreBusy, SwapPointers, PostCache, PostBarrier, LogFails, AfterReset
    <3>2. CASE CtorStep \/ StrandStep \/ Crash \/ Close \/ UNCHANGED vars
      BY <3>2 DEF CtorStep, RecoverSlave, RecoverMaster, CtorReturns, StrandStep, RunCache, FreeEmptySlave,
           SlaveNotEmpty, ReadSize, WriteHeader, WriteData, ClearSlave, FreeSlave, RunBarrier, Crash, Close,
           Restart, vars
    <3>3. CASE \E t, u \in Threads : CompressBroken(t, u)
      BY <3>3, BrokenEffect
    <3>4. QED BY <3>1, <3>2, <3>3 DEF Next
  <2>3. QED BY <1>1, <2>1, <2>2
<1>6. QED BY <1>2, <1>3, <1>4, <1>5

-----------------------------------------------------------------------------
(* Frames that are carried into another file                                  *)

\* The item opens a frame, or its Log had seen the mapping before the swap.
Opens(e) == e.prev = NoMsg \/ e.msg \in late

\* While the master is empty the stream has been reset for every Log that is
\* about to store into it, but for those that are late.
ResetForFirst ==
    mem[master] = <<>> => \A t \in Threads : pc[t] = "lock" =>
                              cctx = NoMsg \/ msg[t] \in late
\* So the first item of a mapping opens a frame, or is late;
FirstOpens == \A b \in Bufs : mem[b] # <<>> => Opens(mem[b][1])
\* and so does the item behind each header, of a mapping that was not empty.
ChunkOpens ==
    \A i \in 1 .. Len(stream) - 1 :
        ~IsItem(stream[i]) => IsItem(stream[i + 1]) /\ Opens(stream[i + 1])
HeaderLast ==
    stream # <<>> /\ ~IsItem(stream[Len(stream)]) => xpc = "data"
SlaveFilled == xpc \in {"size", "header", "data"} => mem[slave] # <<>>

LateParts == ResetForFirst /\ FirstOpens /\ ChunkOpens /\ HeaderLast /\ SlaveFilled
LateInv == ~overrun /\ session = 1 /\ Fails = {} => LateParts

\* A step after which no mapping and no file has another first item.
LEMMA QuietLate ==
    ASSUME LateParts, late \subseteq late', cctx' \in {cctx, NoMsg},
           UNCHANGED <<mem, master, stream, msg>>,
           \/ \A t \in Threads : pc'[t] = "lock" => pc[t] = "lock"
           \/ mem[master] # <<>> \/ cctx' = NoMsg,
           xpc = "data" => xpc' = "data",
           xpc' \in {"size", "header", "data"} =>
              xpc \in {"size", "header", "data"} \/ mem[slave] # <<>>
    PROVE  LateParts'
<1> USE DEF LateParts
<1>1. ResetForFirst'
  BY DEF ResetForFirst
<1>2. \A e : Opens(e) => Opens(e)'
  BY DEF Opens
<1>3. FirstOpens' /\ ChunkOpens'
  BY DEF FirstOpens, ChunkOpens, Opens, IsItem
<1>4. HeaderLast'
  BY DEF HeaderLast, IsItem
<1>5. SlaveFilled'
  BY SameSlave DEF SlaveFilled
<1>6. QED BY <1>1, <1>3, <1>4, <1>5

\* Before its first item is pushed nobody is in the critical section of Log, and
\* ResetStream is not in the middle of a Compress.
LEMMA ResetIsSeen ==
    ASSUME BaseInv, NEW t \in Threads, ResetStream(t)
    PROVE  cctx' \in {cctx, NoMsg} /\ (mem[master] # <<>> \/ cctx' = NoMsg)
<1>1. CASE mtx = NoOne
  BY <1>1 DEF ResetStream, AfterReset
<1>2. CASE mtx # NoOne
  <2>1. PICK u \in Threads : mtx = u
    BY <1>2 DEF BaseInv, TypeOK
  <2>2. mem[master] # <<>>
    BY <2>1 DEF BaseInv, MutexInv, CallInv
  <2>3. cctx' \in {cctx, NoMsg}
    BY DEF ResetStream, AfterReset
  <2>4. QED BY <2>2, <2>3
<1>3. QED BY <1>1, <1>2

LEMMA QuietCallLate ==
    ASSUME BaseInv, LateParts, Fails = {}, NEW t \in Threads,
           \/ LogCall(t) \/ FlushCall(t) \/ ResetStream(t) \/ NeedWriteToFile(t)
           \/ LoadFree(t) \/ StoreBusy(t) \/ PostCache(t) \/ PostBarrier(t)
    PROVE  LateParts'
<1> USE DEF Goto, bufVars, lockVars, strandVars, fileVars, history
<1>1. pc \in [Threads -> PCs] /\ msg \in [Threads -> Msgs \cup {NoMsg}]
  BY Zenon DEF BaseInv, TypeOK
<1>2. CASE LogCall(t)
  <2>1. /\ UNCHANGED <<mem, master, stream, cctx, late, xpc>>
        /\ \A u \in Threads : u # t => pc'[u] = pc[u] /\ msg'[u] = msg[u]
        /\ pc'[t] = "lock" => mem[master] # <<>>
    BY <1>1, <1>2 DEF LogCall
  <2>2. ResetForFirst'
    BY <2>1 DEF LateParts, ResetForFirst
  <2>3. FirstOpens' /\ ChunkOpens' /\ HeaderLast' /\ SlaveFilled'
    BY <2>1, SameSlave DEF LateParts, FirstOpens, ChunkOpens, HeaderLast, SlaveFilled, Opens, IsItem
  <2>4. QED BY <2>2, <2>3 DEF LateParts
<1>3. CASE ResetStream(t)
  <2>1. UNCHANGED <<mem, master, stream, late, xpc, msg>>
    BY <1>3 DEF ResetStream
  <2>2. QED BY <1>3, <2>1, ResetIsSeen, QuietLate
<1>4. CASE \/ FlushCall(t) \/ NeedWriteToFile(t)
           \/ LoadFree(t) \/ StoreBusy(t) \/ PostCache(t) \/ PostBarrier(t)
  <2>1. UNCHANGED <<mem, master, stream, late, xpc, msg, cctx>>
    BY <1>4 DEF FlushCall, NeedWriteToFile, LoadFree, StoreBusy, PostCache, PostBarrier
  <2>2. \A u \in Threads : pc'[u] = "lock" => pc[u] = "lock"
    BY <1>1, <1>4 DEF FlushCall, NeedWriteToFile, LoadFree, AfterLoad, StoreBusy, PostCache,
                      AfterPost, PostBarrier
  <2>3. QED BY <2>1, <2>2, QuietLate
<1>5. QED BY <1>2, <1>3, <1>4

\* The two Pushes: the first item is pushed by a Log for which the stream was
\* reset, or by a late one.
LEMMA PushLate ==
    ASSUME BaseInv, LateParts, NEW t \in Threads, PushHeader(t) \/ PushBody(t)
    PROVE  LateParts'
<1> USE DEF strandVars, fileVars, history
<1>1. master \in Bufs /\ slave \in Bufs /\ Bufs = {master, slave} /\ slave # master
      /\ mem[master] \in Seq(Items) /\ mem[slave] \in Seq(Items) /\ TypeOK
  BY TwoBufs DEF BaseInv, TypeOK, slave
<1>2. UNCHANGED <<master, stream, late, xpc>> /\ slave' = slave /\ mem'[slave] = mem[slave]
  BY PushSlave DEF PushHeader, PushBody
<1>3. mem'[master] # <<>> /\ Opens(mem'[master][1])
  <2>1. CASE PushHeader(t)
    <3> DEFINE e == [kind |-> "item", msg |-> msg[t], prev |-> cctx,
                     key |-> session, whole |-> FALSE]
    <3>1. e \in Items /\ mem'[master] = Append(mem[master], e) /\ pc[t] = "lock"
      BY <1>1, <2>1, PushHeaderEffect DEF BaseInv, CallInv, PushHeader
    <3>2. e.prev = cctx /\ e.msg = msg[t]
      OBVIOUS
    <3> HIDE DEF e
    <3>3. mem[master] = <<>> => Opens(e)
      BY <3>1, <3>2 DEF LateParts, ResetForFirst, Opens
    <3>4. CASE mem[master] = <<>>
      BY <1>1, <3>1, <3>3, <3>4
    <3>5. CASE mem[master] # <<>>
      <4>1. Opens(mem[master][1])
        BY <1>1, <3>5 DEF LateParts, FirstOpens
      <4>2. mem'[master][1] = mem[master][1] /\ mem'[master] # <<>>
        BY <1>1, <3>1, <3>5
      <4>3. QED BY <4>1, <4>2
    <3>6. QED BY <3>4, <3>5
  <2>2. CASE PushBody(t)
    <3> DEFINE n == Len(mem[master])
    <3>1. mem[master] # <<>>
      BY <2>2 DEF PushBody, BaseInv, CallInv
    <3>2. /\ n \in Nat /\ n >= 1 /\ Len(mem'[master]) = n
          /\ \A i \in 1 .. n - 1 : mem'[master][i] = mem[master][i]
          /\ mem'[master][n] = [mem[master][n] EXCEPT !.whole = TRUE]
          /\ mem[master][n] \in Items
      BY <1>1, <2>2, <3>1, PushBodyEffect
    <3>3. mem'[master][1].prev = mem[master][1].prev /\ mem'[master][1].msg = mem[master][1].msg
      <4>1. CASE n = 1
        BY <3>2, <4>1 DEF Items
      <4>2. CASE n # 1
        <5> HIDE DEF n
        <5>1. 1 \in 1 .. n - 1
          <6>1. n \in Nat /\ n >= 1 /\ n # 1
            BY <3>2, <4>2
          <6>2. QED BY <6>1
        <5>2. mem'[master][1] = mem[master][1]
          BY <3>2, <5>1
        <5>3. QED BY <5>2
      <4>3. QED BY <4>1, <4>2
    <3>4. Opens(mem[master][1])
      BY <1>1, <3>1 DEF LateParts, FirstOpens
    <3>5. mem'[master] # <<>>
      BY <3>2
    <3>6. QED BY <3>3, <3>4, <3>5 DEF Opens
  <2>3. QED BY <2>1, <2>2
<1>4. ResetForFirst'
  BY <1>2, <1>3 DEF ResetForFirst
<1>5. FirstOpens'
  BY <1>1, <1>2, <1>3 DEF FirstOpens, Opens, LateParts
<1>6. ChunkOpens' /\ HeaderLast'
  BY <1>2 DEF ChunkOpens, HeaderLast, Opens, IsItem, LateParts
<1>7. SlaveFilled'
  BY <1>2 DEF SlaveFilled, LateParts
<1>8. QED BY <1>4, <1>5, <1>6, <1>7 DEF LateParts

\* A swap makes those late that have seen the mapping it takes away.
LEMMA SwapLate ==
    ASSUME BaseInv, LateParts, NEW t \in Threads, SwapPointers(t), ~overrun'
    PROVE  LateParts'
<1>1. /\ UNCHANGED <<mem, stream, msg, xpc>> /\ xpc \in {"idle", "empty"}
      /\ late' = late \cup {msg[u] : u \in {v \in Threads : pc[v] = "lock"}}
      /\ pc' = [pc EXCEPT ![t] = "post"]
  BY DEF SwapPointers, SlaveAvailable, Goto, strandVars, fileVars
<1>2. pc \in [Threads -> PCs]
  BY Zenon DEF BaseInv, TypeOK
<1>3. \A u \in Threads : pc'[u] = "lock" => msg'[u] \in late'
  BY <1>1, <1>2
<1>4. late \subseteq late'
  BY <1>1
<1>5. ResetForFirst'
  BY <1>3 DEF ResetForFirst
<1>6. FirstOpens' /\ ChunkOpens'
  BY <1>1, <1>4 DEF LateParts, FirstOpens, ChunkOpens, Opens, IsItem
<1>7. HeaderLast' /\ SlaveFilled'
  BY <1>1 DEF LateParts, HeaderLast, SlaveFilled, IsItem
<1>8. QED BY <1>5, <1>6, <1>7 DEF LateParts

\* The strand writes a header only behind an item, and what follows it is a
\* mapping with its first item.
LEMMA WriteLate ==
    ASSUME BaseInv, SizeInv, LateParts, ~overrun, WriteHeader \/ WriteData
    PROVE  LateParts'
<1> USE DEF LateParts
<1>1. /\ UNCHANGED <<mem, master, cctx, pc, msg, late>> /\ slave' = slave
  BY SameSlave, Zenon DEF WriteHeader, WriteData, bufVars, lockVars, callVars, history
<1>2. ResetForFirst' /\ FirstOpens'
  BY <1>1 DEF ResetForFirst, FirstOpens, Opens
<1>3. /\ stream \in Seq(Cells) /\ Len(stream) \in Nat
      /\ mem[slave] \in Seq(Cells) /\ Len(mem[slave]) \in Nat
      /\ slave \in Bufs /\ mem[slave] \in Seq(Items)
  <2>1. stream \in Seq(Cells) /\ mem[slave] \in Seq(Cells)
    BY ChainType DEF BaseInv
  <2>2. slave \in Bufs /\ mem[slave] \in Seq(Items)
    BY TwoBufs DEF BaseInv, TypeOK, slave
  <2>3. QED BY <2>1, <2>2
<1>4. CASE WriteHeader
  <2>1. PICK h \in Headers : ~IsItem(h) /\ stream' = Append(stream, h)
    BY <1>4, HeaderWritten, Zenon DEF BaseInv
  <2>2. xpc = "header" /\ xpc' = "data"
    BY <1>4, Zenon DEF WriteHeader
  <2>3. /\ Len(stream') = Len(stream) + 1 /\ stream'[Len(stream) + 1] = h
        /\ \A i \in 1 .. Len(stream) : stream'[i] = stream[i]
    BY <1>3, <2>1
  <2>4. ASSUME NEW i \in 1 .. Len(stream') - 1, ~IsItem(stream'[i])
        PROVE  /\ IsItem(stream'[i + 1])
               /\ stream'[i + 1].prev = NoMsg \/ stream'[i + 1].msg \in late
    <3>1. i \in 1 .. Len(stream) /\ ~IsItem(stream[i]) /\ stream # <<>>
      BY <1>3, <2>3, <2>4
    <3>2. i # Len(stream)
      BY <2>2, <3>1 DEF HeaderLast
    <3>3. i \in 1 .. Len(stream) - 1 /\ i + 1 \in 1 .. Len(stream)
      BY <1>3, <3>1, <3>2
    <3>4. IsItem(stream[i + 1]) /\ Opens(stream[i + 1])
      BY <3>1, <3>3 DEF ChunkOpens
    <3>5. stream'[i + 1] = stream[i + 1]
      BY <2>3, <3>3
    <3>6. QED BY <3>4, <3>5 DEF Opens
  <2>5. ChunkOpens'
    BY <1>1, <2>4 DEF ChunkOpens, Opens, IsItem
  <2>6. HeaderLast' /\ SlaveFilled'
    BY <1>1, <2>2 DEF HeaderLast, SlaveFilled
  <2>7. QED BY <1>2, <2>5, <2>6
<1>5. CASE WriteData
  <2> DEFINE r == mem[slave]
             n == Len(stream)
  <2>1. stream' = stream \o r /\ xpc = "data" /\ xpc' = "clear"
    BY <1>5, WholeBlock DEF SizeInv, WriteData
  <2>2. r # <<>> /\ Len(r) >= 1 /\ Opens(r[1])
    <3>1. r # <<>>
      BY <2>1 DEF SlaveFilled
    <3>2. QED BY <1>3, <3>1 DEF FirstOpens
  <2>3. \A i \in 1 .. Len(r) : IsItem(r[i])
    <3>1. \A x \in Items : x.kind = "item"
      BY DEF Items
    <3>2. \A i \in 1 .. Len(r) : r[i] \in Items
      BY <1>3
    <3>3. QED BY <3>1, <3>2 DEF IsItem
  <2> HIDE DEF r
  <2>4. /\ Len(stream') = n + Len(r) /\ r \in Seq(Cells) /\ Len(r) \in Nat
        /\ \A i \in 1 .. n : stream'[i] = stream[i]
        /\ \A i \in n + 1 .. n + Len(r) : stream'[i] = r[i - n] /\ i - n \in 1 .. Len(r)
    <3>1. r \in Seq(Cells) /\ Len(r) \in Nat
      BY <1>3 DEF r
    <3>2. /\ Len(stream') = n + Len(r)
          /\ \A i \in 1 .. n + Len(r) : stream'[i] = IF i <= n THEN stream[i] ELSE r[i - n]
      BY <1>3, <2>1, <3>1, ConcatProperties
    <3>3. QED BY <1>3, <3>1, <3>2
  <2>5. ASSUME NEW i \in 1 .. Len(stream') - 1, ~IsItem(stream'[i])
        PROVE  /\ IsItem(stream'[i + 1])
               /\ stream'[i + 1].prev = NoMsg \/ stream'[i + 1].msg \in late
    <3>1. i \in 1 .. n
      BY <1>3, <2>3, <2>4, <2>5
    <3>2. CASE i = n
      <4>1. n + 1 \in n + 1 .. n + Len(r) /\ (n + 1) - n = 1
        BY <1>3, <2>2, <2>4
      <4>2. stream'[n + 1] = r[1] /\ 1 \in 1 .. Len(r)
        BY <2>4, <4>1
      <4>3. IsItem(r[1]) /\ (r[1].prev = NoMsg \/ r[1].msg \in late)
        BY <2>2, <2>3, <4>2 DEF Opens
      <4>4. QED BY <3>2, <4>2, <4>3
    <3>3. CASE i # n
      <4>1. i \in 1 .. n - 1 /\ stream'[i] = stream[i] /\ stream'[i + 1] = stream[i + 1]
        BY <1>3, <2>4, <3>1, <3>3
      <4>2. IsItem(stream[i + 1]) /\ Opens(stream[i + 1])
        BY <2>5, <4>1 DEF ChunkOpens
      <4>3. QED BY <4>1, <4>2 DEF Opens
    <3>4. QED BY <3>2, <3>3
  <2>6. ChunkOpens'
    BY <1>1, <2>5 DEF ChunkOpens, Opens, IsItem
  <2>7. HeaderLast'
    <3>1. Len(stream') \in n + 1 .. n + Len(r)
      BY <1>3, <2>2, <2>4
    <3>2. IsItem(stream'[Len(stream')])
      BY <2>3, <2>4, <3>1
    <3>3. QED BY <3>2 DEF HeaderLast, IsItem
  <2>8. SlaveFilled'
    BY <2>1 DEF SlaveFilled
  <2>9. QED BY <1>2, <2>6, <2>7, <2>8
<1>6. QED BY <1>4, <1>5

LEMMA ClearLate ==
    ASSUME BaseInv, LateParts, ClearSlave
    PROVE  LateParts'
<1> USE DEF lockVars, fileVars, callVars, history
<1>1. Bufs = {master, slave} /\ slave # master
  BY TwoBufs DEF BaseInv, TypeOK, slave
<1>2. /\ mem'[slave] = <<>> /\ mem'[master] = mem[master] /\ slave' = slave
      /\ UNCHANGED <<master, stream, cctx, pc, msg, late>> /\ xpc = "clear" /\ xpc' = "free"
  BY <1>1, SameSlave DEF ClearSlave, Clear, BaseInv, TypeOK
<1>3. ResetForFirst' /\ FirstOpens'
  BY <1>1, <1>2 DEF LateParts, ResetForFirst, FirstOpens, Opens
<1>4. ChunkOpens' /\ HeaderLast' /\ SlaveFilled'
  BY <1>2 DEF LateParts, ChunkOpens, HeaderLast, SlaveFilled, Opens, IsItem
<1>5. QED BY <1>3, <1>4 DEF LateParts

LEMMA LateStep ==
    ASSUME BaseInv, SizeInv, LateInv, [Next]_vars
    PROVE  LateInv'
<1> SUFFICES ASSUME ~overrun', session' = 1, Fails = {} PROVE LateParts'
  BY DEF LateInv
<1> USE DEF bufVars, lockVars, strandVars, fileVars, callVars, history
<1>1. ~overrun /\ LateParts
  BY GoodBefore, FirstSession DEF LateInv
<1>2. ASSUME NEW t \in Threads, LogCall(t) \/ FlushCall(t) \/ CallStep(t) PROVE LateParts'
  <2>1. ~\E call \in FailingCalls : LogFails(t, call)
    BY DEF LogFails
  <2>2. QED BY <1>1, <1>2, <2>1, QuietCallLate, PushLate, SwapLate DEF CallStep
<1>3. ASSUME NEW t \in Threads, NEW u \in Threads, CompressBroken(t, u) PROVE LateParts'
  <2>1. UNCHANGED <<mem, master, stream, late, xpc, msg>> /\ cctx' = NoMsg
    BY <1>3, BrokenEffect
  <2>2. QED BY <1>1, <2>1, QuietLate
<1>4. ASSUME UNCHANGED <<mem, master, stream, late, xpc, msg, cctx>>,
             \A t \in Threads : pc'[t] = "lock" => pc[t] = "lock"
      PROVE  LateParts'
  BY <1>1, <1>4, QuietLate
<1>5. pc \in [Threads -> PCs] /\ Main \in Threads
  BY Zenon, SinkAssumption DEF BaseInv, TypeOK
<1>6. CASE CtorStep \/ UNCHANGED vars
  BY <1>4, <1>5, <1>6 DEF CtorStep, RecoverSlave, RecoverMaster, AfterSlave, CtorReturns, Goto, vars
<1>7. ASSUME NEW t \in Threads, RunBarrier(t) PROVE LateParts'
  BY <1>4, <1>5, <1>7 DEF RunBarrier, Goto
<1>8. CASE RunCache \/ FreeEmptySlave \/ SlaveNotEmpty \/ ReadSize \/ FreeSlave
  <2>1. /\ UNCHANGED <<mem, master, stream, late, msg, cctx, pc>>
        /\ xpc # "data"
        /\ xpc' \in {"size", "header", "data"} =>
              xpc \in {"size", "header", "data"} \/ mem[slave] # <<>>
    BY <1>8 DEF RunCache, FreeEmptySlave, SlaveNotEmpty, ReadSize, FreeSlave
  <2>2. QED BY <1>1, <2>1, QuietLate
<1>9. CASE StrandStep
  BY <1>1, <1>7, <1>8, <1>9, WriteLate, ClearLate DEF StrandStep
<1>10. ~Crash /\ ~Close
  BY <1>1, FirstSession DEF Crash, Close, Restart, BaseInv, TypeOK
<1>11. QED BY <1>2, <1>3, <1>6, <1>9, <1>10 DEF Next

LEMMA InitOrder == Init => OrderInv /\ LateInv
<1> SUFFICES ASSUME Init PROVE OrderInv /\ LateInv
  OBVIOUS
<1>1. mem[slave] = <<>> /\ mem[master] = <<>> /\ stream = <<>> /\ accepted = <<>> /\ cctx = NoMsg
      /\ \A t \in Threads : ~InHand(t)
  BY TwoBufs DEF Init, slave, Bufs, InHand
<1>2. Chain = <<>>
  BY <1>1 DEF Chain, Unwritten
<1>3. Len(<<>>) = 0 /\ \A i \in 1 .. 0 : FALSE
  OBVIOUS
<1>4. InOrder
  BY <1>1, <1>2, <1>3 DEF InOrder, SameOrder, Chain
<1>5. FrameInv
  BY <1>1, <1>2, <1>3 DEF FrameInv, Linked
<1>6. LateInv
  <2>1. \A b \in Bufs : mem[b] = <<>>
    BY DEF Init
  <2>2. \A t \in Threads : pc[t] # "lock"
    BY <1>1 DEF InHand
  <2>3. xpc = "idle"
    BY DEF Init
  <2>4. Len(stream) = 0 /\ \A i \in 1 .. Len(stream) - 1 : FALSE
    BY <1>1
  <2>5. QED BY <1>1, <2>1, <2>2, <2>3, <2>4 DEF LateInv, LateParts, ResetForFirst, FirstOpens,
                  ChunkOpens, HeaderLast, SlaveFilled
<1>7. QED BY <1>1, <1>3, <1>4, <1>5, <1>6 DEF OrderInv, NewInv

LEMMA OrderInvariance == Spec => [](OrderInv /\ LateInv)
<1>1. Init => Retained /\ SizeInv
  BY DEF Init, Retained, SizeInv
<1>2. BaseInv /\ Retained /\ SizeInv /\ OrderInv /\ LateInv /\ [Next]_vars
         => Retained' /\ SizeInv' /\ OrderInv' /\ LateInv'
  BY RetainedStep, NewStep, OrderStep, FrameStep, LateStep DEF OrderInv
<1>3. QED BY <1>1, <1>2, InitOrder, BaseInvariance, PTL DEF Spec

\* As long as no swap met a busy slave, the file, the slave and the master of
\* the first run hold each stored message once, in the order in which they were
\* stored, whoever logs, swaps and writes (effective_sink.cc 71-105, 136-180).
THEOREM OrderKept == Spec => []InOrder
<1>1. OrderInv => InOrder
  BY DEF OrderInv
<1>2. QED BY <1>1, OrderInvariance, PTL

\* In the files of such a run each item begins a frame of the compression stream
\* or continues that of the item before it in its file, although ResetStream is
\* called without the lock and falls between or into the steps of other loggers.
\* The exception is the first item of a file whose Log had found the mapping in
\* use before it was swapped away, and so did not reset the stream
\* (effective_sink.cc 74-83, 147-176).
THEOREM ItemsDecodable == Spec => []Decodable
<1>1. BaseInv /\ OrderInv /\ LateInv => Decodable
  <2> SUFFICES ASSUME BaseInv, OrderInv, LateInv, ~overrun, session = 1, Fails = {},
                      NEW i \in 1 .. Len(stream), IsItem(stream[i])
               PROVE  DecodedInFile(stream, i) \/ CarriedOver(stream, i)
    BY DEF Decodable
  <2>1. Linked(Chain)
    BY DEF OrderInv, FrameInv
  <2>2. /\ Len(Chain) \in Nat /\ Len(stream) \in Nat /\ Len(stream) <= Len(Chain)
        /\ \A k \in 1 .. Len(stream) : Chain[k] = stream[k]
    <3>1. stream \in Seq(Cells) /\ Unwritten \in Seq(Cells) /\ mem[master] \in Seq(Cells)
      BY ChainType DEF BaseInv
    <3>2. InARow(Chain, stream, Unwritten, mem[master])
      BY <3>1, ThreeInARow DEF Chain
    <3>3. \A k \in 1 .. Len(stream) : Chain[k] = stream[k]
      BY <3>2, Zenon DEF InARow
    <3>4. Len(Chain) \in Nat /\ Len(stream) \in Nat /\ Len(stream) <= Len(Chain)
      BY <3>2, RowLength
    <3>5. QED BY <3>3, <3>4, Zenon
  <2>3. Decoded(stream, i)
    BY <2>1, <2>2, FramePrefix DEF Linked
  <2>4. CASE stream[i].prev = NoMsg
    BY <2>4 DEF DecodedInFile
  <2>5. ASSUME NEW j \in 1 .. i - 1, Continues(stream, i, j), ~FileBetween(stream, i, j)
        PROVE  DecodedInFile(stream, i)
    BY <2>5 DEF DecodedInFile
  <2>6. ASSUME NEW j \in 1 .. i - 1, Continues(stream, i, j), FileBetween(stream, i, j)
        PROVE  DecodedInFile(stream, i) \/ CarriedOver(stream, i)
    <3>1. \E l \in j + 1 .. i - 1 : TRUE
      BY <2>6, Zenon DEF FileBetween
    <3>2. i - 1 \in j + 1 .. i - 1 /\ i - 1 \in 1 .. Len(stream) - 1 /\ (i - 1) + 1 = i
      BY <2>2, <3>1
    <3>3. ~IsItem(stream[i - 1])
      BY <2>6, <3>2 DEF Continues
    <3>4. Opens(stream[i])
      BY <3>2, <3>3 DEF LateInv, LateParts, ChunkOpens
    <3>5. QED BY <2>4, <2>6, <3>4 DEF Opens, CarriedOver
  <2>7. QED BY <2>3, <2>4, <2>5, <2>6 DEF Decoded
<1>2. QED BY <1>1, OrderInvariance, BaseInvariance, PTL

-----------------------------------------------------------------------------
(* The messages of a sequence of cells                                        *)

\* Induction, of which a set tells for what it holds.
LEMMA Induction ==
    ASSUME NEW T, 0 \in T, \A n \in Nat : n \in T => n + 1 \in T
    PROVE  Nat \subseteq T
<1> DEFINE R == OpToRel(<, Nat)
           D == Nat \ T
<1>1. IsWellFoundedOn(R, Nat)
  BY NatLessThanWellFounded
<1>2. \A x, y \in Nat : y < x => <<y, x>> \in R
  BY DEF OpToRel
<1>3. SUFFICES ASSUME D # {} PROVE FALSE
  OBVIOUS
<1>4. D \subseteq Nat
  OBVIOUS
<1> HIDE DEF R, D
<1>5. PICK x \in D : \A y \in D : ~(<<y, x>> \in R)
  BY <1>1, <1>3, <1>4, WFMin
<1>6. x \in Nat /\ x \notin T
  BY DEF D
<1>7. x # 0 /\ x - 1 \in Nat /\ x - 1 < x /\ (x - 1) + 1 = x
  BY <1>6
<1>8. x - 1 \notin T
  BY <1>6, <1>7
<1>9. x - 1 \in D
  BY <1>7, <1>8 DEF D
<1>10. QED BY <1>2, <1>5, <1>6, <1>7, <1>9

\* What the definition of MsgsUpTo(s) says of f[n].
UpTo(s, f, n) == IF n = 0 THEN <<>>
                 ELSE IF IsWhole(s[n]) THEN Append(f[n - 1], s[n].msg)
                 ELSE f[n - 1]

\* There is such a function: one for a shorter sequence can be extended.
LEMMA UpToExists ==
    ASSUME NEW s, NEW m \in Nat
    PROVE  \E f : f = [n \in 0 .. m |-> UpTo(s, f, n)]
<1> DEFINE T == {k \in Nat : \E f : f = [n \in 0 .. k |-> UpTo(s, f, n)]}
<1>1. 0 \in T
  <2> DEFINE f == [n \in {0} |-> <<>>]
  <2>1. 0 .. 0 = {0}
    OBVIOUS
  <2>2. f = [n \in 0 .. 0 |-> UpTo(s, f, n)]
    BY <2>1 DEF UpTo
  <2>3. QED BY <2>2
<1>2. ASSUME NEW k \in Nat, k \in T
      PROVE  k + 1 \in T
  <2>1. PICK f : f = [n \in 0 .. k |-> UpTo(s, f, n)]
    BY <1>2
  <2> DEFINE g == [n \in 0 .. k + 1 |-> IF n = k + 1 THEN UpTo(s, f, k + 1) ELSE f[n]]
  <2>2. ASSUME NEW n \in 0 .. k + 1
        PROVE  g[n] = UpTo(s, g, n)
    <3>1. n # 0 => n - 1 \in 0 .. k /\ n - 1 \in 0 .. k + 1 /\ n - 1 # k + 1
      OBVIOUS
    <3>2. n # 0 => g[n - 1] = f[n - 1]
      BY <3>1
    <3>3. UpTo(s, g, n) = UpTo(s, f, n)
      BY <3>2 DEF UpTo
    <3>4. n # k + 1 => n \in 0 .. k
      OBVIOUS
    <3>5. n # k + 1 => f[n] = UpTo(s, f, n)
      BY <2>1, <3>4
    <3>6. QED BY <3>3, <3>5
  <2>3. g = [n \in 0 .. k + 1 |-> g[n]]
    OBVIOUS
  <2> HIDE DEF g
  <2>4. g = [n \in 0 .. k + 1 |-> UpTo(s, g, n)]
    BY <2>2, <2>3
  <2>5. QED BY <2>4
<1> HIDE DEF T
<1>3. Nat \subseteq T
  BY <1>1, <1>2, Induction
<1>4. m \in T
  BY <1>3
<1>5. QED BY <1>4 DEF T

LEMMA UpToIs ==
    ASSUME NEW S, NEW s \in Seq(S)
    PROVE  /\ MsgsUpTo(s)[0] = <<>>
           /\ \A n \in 1 .. Len(s) :
                 MsgsUpTo(s)[n] = IF IsWhole(s[n]) THEN Append(MsgsUpTo(s)[n - 1], s[n].msg)
                                  ELSE MsgsUpTo(s)[n - 1]
<1> DEFINE P(f) == f = [n \in 0 .. Len(s) |-> UpTo(s, f, n)]
           f == MsgsUpTo(s)
<1>1. Len(s) \in Nat
  OBVIOUS
<1>2. \E g : P(g)
  BY <1>1, UpToExists
<1>3. f = CHOOSE g : P(g)
  BY DEF MsgsUpTo, UpTo
<1>4. P(f)
  BY <1>2, <1>3
<1> HIDE DEF f
<1>5. \A n \in 0 .. Len(s) : f[n] = UpTo(s, f, n)
  BY <1>4
<1>6. f[0] = <<>>
  BY <1>1, <1>5 DEF UpTo
<1>7. \A n \in 1 .. Len(s) : f[n] = IF IsWhole(s[n]) THEN Append(f[n - 1], s[n].msg) ELSE f[n - 1]
  BY <1>1, <1>5 DEF UpTo
<1>8. QED BY <1>6, <1>7 DEF f

\* A cell that is whole is an item.
LEMMA WholeIs ==
    ASSUME NEW c \in Cells, IsWhole(c)
    PROVE  c \in Items /\ c.msg \in Msgs
<1>1. c \notin Headers
  BY DEF Headers, IsWhole, IsItem
<1>2. c # Junk
  BY DEF Junk, IsWhole
<1>3. QED BY <1>1, <1>2 DEF Cells, Items

LEMMA UpToType ==
    ASSUME NEW s \in Seq(Cells), NEW n \in 0 .. Len(s)
    PROVE  MsgsUpTo(s)[n] \in Seq(Msgs)
<1> DEFINE f == MsgsUpTo(s)
           T == {k \in Nat : k <= Len(s) => f[k] \in Seq(Msgs)}
<1>1. /\ f[0] = <<>>
      /\ \A k \in 1 .. Len(s) : f[k] = IF IsWhole(s[k]) THEN Append(f[k - 1], s[k].msg)
                                       ELSE f[k - 1]
  BY UpToIs
<1>2. Len(s) \in Nat /\ \A k \in 1 .. Len(s) : s[k] \in Cells
  OBVIOUS
<1> HIDE DEF f
<1>3. 0 \in T
  <2>1. <<>> \in Seq(Msgs)
    BY Zenon, EmptySeq
  <2>2. QED BY <1>1, <2>1
<1>4. ASSUME NEW k \in Nat, k \in T, k + 1 <= Len(s)
      PROVE  f[k + 1] \in Seq(Msgs)
  <2>1. f[k] \in Seq(Msgs) /\ k + 1 \in 1 .. Len(s) /\ (k + 1) - 1 = k
    BY <1>2, <1>4
  <2>2. CASE IsWhole(s[k + 1])
    <3>1. s[k + 1].msg \in Msgs
      BY <1>2, <2>1, <2>2, WholeIs
    <3>2. f[k + 1] = Append(f[k], s[k + 1].msg)
      BY <1>1, <2>1, <2>2
    <3>3. QED BY <2>1, <3>1, <3>2, AppendProperties
  <2>3. CASE ~IsWhole(s[k + 1])
    BY <1>1, <2>1, <2>3
  <2>4. QED BY <2>2, <2>3
<1>5. ASSUME NEW k \in Nat, k \in T
      PROVE  k + 1 \in T
  <2>1. k + 1 \in Nat /\ (k + 1 <= Len(s) => f[k + 1] \in Seq(Msgs))
    BY <1>4, <1>5
  <2>2. QED BY <2>1
<1> HIDE DEF T
<1>6. n \in T
  <2>1. Nat \subseteq T
    BY <1>3, <1>5, Induction
  <2>2. n \in Nat
    BY <1>2
  <2>3. QED BY <2>1, <2>2
<1>7. f[n] \in Seq(Msgs)
  BY <1>2, <1>6 DEF T
<1>8. QED BY <1>7 DEF f

LEMMA MsgOfType ==
    ASSUME NEW s \in Seq(Cells)
    PROVE  MsgOf(s) \in Seq(Msgs) /\ Len(MsgOf(s)) \in Nat
<1>1. MsgOf(s) \in Seq(Msgs)
  BY UpToType DEF MsgOf
<1>2. QED BY <1>1

\* The messages of the first cells are those of any sequence that begins with
\* them.
LEMMA UpToLocal ==
    ASSUME NEW s \in Seq(Cells), NEW r \in Seq(Cells), NEW m \in Nat,
           m <= Len(s), m <= Len(r), \A i \in 1 .. m : s[i] = r[i]
    PROVE  MsgsUpTo(s)[m] = MsgsUpTo(r)[m]
<1> DEFINE f == MsgsUpTo(s)
           g == MsgsUpTo(r)
           T == {k \in Nat : k <= m => f[k] = g[k]}
<1>1. /\ f[0] = <<>>
      /\ \A k \in 1 .. Len(s) : f[k] = IF IsWhole(s[k]) THEN Append(f[k - 1], s[k].msg)
                                       ELSE f[k - 1]
  BY UpToIs
<1>2. /\ g[0] = <<>>
      /\ \A k \in 1 .. Len(r) : g[k] = IF IsWhole(r[k]) THEN Append(g[k - 1], r[k].msg)
                                       ELSE g[k - 1]
  BY UpToIs
<1> HIDE DEF f, g
<1>3. 0 \in T
  BY <1>1, <1>2
<1>4. ASSUME NEW k \in Nat, k \in T, k + 1 <= m
      PROVE  f[k + 1] = g[k + 1]
  <2>1. f[k] = g[k] /\ (k + 1) - 1 = k /\ k + 1 \in 1 .. m /\ k + 1 \in 1 .. Len(s)
        /\ k + 1 \in 1 .. Len(r)
    BY <1>4
  <2>2. s[k + 1] = r[k + 1]
    BY <2>1
  <2>3. f[k + 1] = IF IsWhole(s[k + 1]) THEN Append(f[k], s[k + 1].msg) ELSE f[k]
    BY <1>1, <2>1
  <2>4. g[k + 1] = IF IsWhole(r[k + 1]) THEN Append(g[k], r[k + 1].msg) ELSE g[k]
    BY <1>2, <2>1
  <2>5. QED BY <2>1, <2>2, <2>3, <2>4
<1>5. \A k \in Nat : k \in T => k + 1 \in T
  BY <1>4
<1> HIDE DEF T
<1>6. m \in T
  BY <1>3, <1>5, Induction
<1>7. f[m] = g[m]
  BY <1>6 DEF T
<1>8. QED BY <1>7 DEF f, g

\* One more cell is one more message, if it is whole.
LEMMA MsgOfAppend ==
    ASSUME NEW s \in Seq(Cells), NEW c \in Cells
    PROVE  MsgOf(Append(s, c)) = IF IsWhole(c) THEN Append(MsgOf(s), c.msg) ELSE MsgOf(s)
<1> DEFINE r == Append(s, c)
<1>1. /\ r \in Seq(Cells) /\ Len(r) = Len(s) + 1 /\ Len(s) \in Nat
      /\ r[Len(s) + 1] = c /\ \A i \in 1 .. Len(s) : r[i] = s[i]
  <2>1. r \in Seq(Cells) /\ Len(r) = Len(s) + 1 /\ Len(s) \in Nat
    OBVIOUS
  <2>2. r[Len(s) + 1] = c
    OBVIOUS
  <2>3. \A i \in 1 .. Len(s) : r[i] = s[i]
    OBVIOUS
  <2>4. QED BY <2>1, <2>2, <2>3
<1> HIDE DEF r
<1>2. MsgsUpTo(r)[Len(s)] = MsgsUpTo(s)[Len(s)]
  BY <1>1, UpToLocal
<1>3. Len(r) \in 1 .. Len(r) /\ Len(r) - 1 = Len(s)
  BY <1>1
<1>4. MsgsUpTo(r)[Len(r)] = IF IsWhole(c) THEN Append(MsgsUpTo(r)[Len(s)], c.msg)
                            ELSE MsgsUpTo(r)[Len(s)]
  BY <1>1, <1>3, UpToIs
<1>5. QED BY <1>2, <1>4 DEF MsgOf, r

LEMMA MsgOfEmpty == MsgOf(<<>>) = <<>>
<1>1. <<>> \in Seq(Cells) /\ Len(<<>>) = 0
  BY EmptySeq
<1>2. QED BY <1>1, UpToIs DEF MsgOf

\* A prefix has the messages of its cells.
LEMMA MsgOfPrefix ==
    ASSUME NEW s \in Seq(Cells), NEW k \in 0 .. Len(s)
    PROVE  MsgOf(SubSeq(s, 1, k)) = MsgsUpTo(s)[k]
<1> DEFINE r == SubSeq(s, 1, k)
<1>1. r \in Seq(Cells) /\ Len(r) = k /\ \A i \in 1 .. k : r[i] = s[i]
  BY SubSeqProperties
<1> HIDE DEF r
<1>2. MsgsUpTo(r)[k] = MsgsUpTo(s)[k]
  BY <1>1, UpToLocal
<1>3. QED BY <1>1, <1>2 DEF MsgOf, r

\* What is written behind something has its messages behind those.
LEMMA MsgOfConcat ==
    ASSUME NEW s \in Seq(Cells), NEW r \in Seq(Cells)
    PROVE  MsgOf(s \o r) = MsgOf(s) \o MsgOf(r)
<1> DEFINE c == s \o r
           f == MsgsUpTo(c)
           g == MsgsUpTo(r)
           u == MsgOf(s)
           T == {k \in Nat : k <= Len(r) => f[Len(s) + k] = u \o g[k]}
<1>1. /\ c \in Seq(Cells) /\ Len(c) = Len(s) + Len(r) /\ Len(s) \in Nat /\ Len(r) \in Nat
      /\ \A i \in 1 .. Len(s) : c[i] = s[i]
      /\ \A i \in 1 .. Len(r) : c[Len(s) + i] = r[i]
  BY ConcatProperties
<1>2. u \in Seq(Msgs) /\ \A k \in 0 .. Len(r) : g[k] \in Seq(Msgs)
  BY MsgOfType, UpToType
<1> HIDE DEF c
<1>3. f[Len(s)] = u
  <2>1. Len(s) <= Len(c) /\ Len(s) <= Len(s)
    BY <1>1
  <2>2. MsgsUpTo(c)[Len(s)] = MsgsUpTo(s)[Len(s)]
    BY <1>1, <2>1, UpToLocal
  <2>3. QED BY <2>2 DEF MsgOf
<1>4. \A k \in 1 .. Len(c) : f[k] = IF IsWhole(c[k]) THEN Append(f[k - 1], c[k].msg)
                                    ELSE f[k - 1]
  BY <1>1, UpToIs
<1>5. /\ g[0] = <<>>
      /\ \A k \in 1 .. Len(r) : g[k] = IF IsWhole(r[k]) THEN Append(g[k - 1], r[k].msg)
                                       ELSE g[k - 1]
  BY UpToIs
<1> HIDE DEF f, g, u
<1>6. 0 \in T
  <2>1. u \o <<>> = u /\ Len(s) + 0 = Len(s)
    BY <1>1, <1>2, ConcatEmptySeq
  <2>2. QED BY <1>3, <1>5, <2>1
<1>7. ASSUME NEW k \in Nat, k <= Len(r) => f[Len(s) + k] = u \o g[k], k + 1 <= Len(r)
      PROVE  f[Len(s) + (k + 1)] = u \o g[k + 1]
  <2>1. /\ f[Len(s) + k] = u \o g[k] /\ (k + 1) - 1 = k /\ k + 1 \in 1 .. Len(r)
        /\ Len(s) + (k + 1) \in 1 .. Len(c) /\ (Len(s) + (k + 1)) - 1 = Len(s) + k
        /\ k \in 0 .. Len(r)
    BY <1>1, <1>7
  <2>2. c[Len(s) + (k + 1)] = r[k + 1]
    BY <1>1, <2>1
  <2>3. f[Len(s) + (k + 1)] = IF IsWhole(r[k + 1]) THEN Append(u \o g[k], r[k + 1].msg)
                              ELSE u \o g[k]
    BY <1>4, <2>1, <2>2
  <2>4. g[k + 1] = IF IsWhole(r[k + 1]) THEN Append(g[k], r[k + 1].msg) ELSE g[k]
    BY <1>5, <2>1
  <2>5. CASE IsWhole(r[k + 1])
    <3>1. r[k + 1].msg \in Msgs
      BY <2>1, <2>5, WholeIs
    <3>2. g[k] \in Seq(Msgs) /\ <<r[k + 1].msg>> \in Seq(Msgs)
      <4>1. g[k] \in Seq(Msgs)
        BY <1>2, <2>1
      <4>2. QED BY <3>1, <4>1
    <3>3. /\ Append(g[k], r[k + 1].msg) = g[k] \o <<r[k + 1].msg>>
          /\ Append(u \o g[k], r[k + 1].msg) = (u \o g[k]) \o <<r[k + 1].msg>>
      BY <1>2, <3>1, <3>2, AppendIsConcat, ConcatProperties
    <3>4. (u \o g[k]) \o <<r[k + 1].msg>> = u \o (g[k] \o <<r[k + 1].msg>>)
      <4>1. \A x, y, z \in Seq(Msgs) : (x \o y) \o z = x \o (y \o z)
        BY ConcatAssociative, SMTT(20)
      <4>2. QED BY <1>2, <3>2, <4>1, Zenon
    <3>5. QED BY <2>3, <2>4, <2>5, <3>3, <3>4
  <2>6. CASE ~IsWhole(r[k + 1])
    BY <2>3, <2>4, <2>6
  <2>7. QED BY <2>5, <2>6
<1>8. ASSUME NEW k \in Nat, k \in T
      PROVE  k + 1 \in T
  <2>1. k + 1 <= Len(r) => k <= Len(r)
    BY <1>1
  <2>2. k <= Len(r) => f[Len(s) + k] = u \o g[k]
    BY <1>8
  <2>3. k + 1 <= Len(r) => f[Len(s) + (k + 1)] = u \o g[k + 1]
    BY <1>7, <2>2
  <2>4. k + 1 \in Nat
    OBVIOUS
  <2>5. QED BY <2>3, <2>4
<1> HIDE DEF T
<1>9. Len(r) \in T
  BY <1>1, <1>6, <1>8, Induction
<1>10. f[Len(c)] = u \o g[Len(r)]
  BY <1>1, <1>9 DEF T
<1>11. QED BY <1>10 DEF MsgOf, c, f, g, u

\* The messages of a prefix are a prefix of the messages.
LEMMA MsgOfCut ==
    ASSUME NEW s \in Seq(Cells), NEW k \in 0 .. Len(s)
    PROVE  LET p == MsgOf(SubSeq(s, 1, k))
           IN Len(p) \in 0 .. Len(MsgOf(s)) /\ p = SubSeq(MsgOf(s), 1, Len(p))
<1> DEFINE a == SubSeq(s, 1, k)
           b == SubSeq(s, k + 1, Len(s))
           p == MsgOf(a)
           q == MsgOf(b)
<1>1. a \in Seq(Cells) /\ b \in Seq(Cells) /\ Len(s) \in Nat
  BY SubSeqProperties
<1>2. a \o b = s
  <2>1. 1 \in 1 .. Len(s) + 1 /\ k \in 1 - 1 .. Len(s) /\ Len(s) \in k .. Len(s)
    BY <1>1
  <2>2. a \o b = SubSeq(s, 1, Len(s))
    BY <2>1, ConcatAdjacentSubSeq, Zenon
  <2>3. QED BY <2>2, SubSeqFull
<1>3. MsgOf(s) = p \o q
  BY <1>1, <1>2, MsgOfConcat
<1>4. p \in Seq(Msgs) /\ q \in Seq(Msgs)
  BY <1>1, MsgOfType
<1> HIDE DEF a, b, p, q
<1>5. /\ Len(p) \in Nat /\ Len(q) \in Nat /\ p \o q \in Seq(Msgs)
      /\ Len(p \o q) = Len(p) + Len(q) /\ \A i \in 1 .. Len(p) : (p \o q)[i] = p[i]
  BY <1>4, ConcatProperties
<1> DEFINE c == p \o q
<1> HIDE DEF c
<1>6. /\ SubSeq(c, 1, Len(p)) \in Seq(Msgs) /\ Len(SubSeq(c, 1, Len(p))) = Len(p)
      /\ \A i \in 1 .. Len(p) : SubSeq(c, 1, Len(p))[i] = p[i]
  BY <1>5, SubSeqProperties DEF c
<1>7. p = SubSeq(c, 1, Len(p))
  BY <1>4, <1>6, SeqEqual
<1>8. Len(p) \in 0 .. Len(c)
  BY <1>5 DEF c
<1>9. QED BY <1>3, <1>7, <1>8 DEF a, c, p

\* A longer prefix has no fewer messages.
LEMMA MsgOfGrows ==
    ASSUME NEW s \in Seq(Cells), NEW k \in 0 .. Len(s), NEW m \in k .. Len(s)
    PROVE  Len(MsgOf(SubSeq(s, 1, k))) <= Len(MsgOf(SubSeq(s, 1, m)))
<1> DEFINE r == SubSeq(s, 1, m)
<1>1. m \in Nat /\ k \in 0 .. m /\ r \in Seq(Cells) /\ Len(r) = m /\ \A i \in 1 .. m : r[i] = s[i]
  BY SubSeqProperties
<1>2. MsgOf(SubSeq(s, 1, k)) = MsgsUpTo(s)[k]
  BY MsgOfPrefix
<1> HIDE DEF r
<1>3. MsgOf(SubSeq(r, 1, k)) = MsgsUpTo(r)[k]
  BY <1>1, MsgOfPrefix
<1>4. MsgsUpTo(r)[k] = MsgsUpTo(s)[k]
  BY <1>1, UpToLocal
<1>5. Len(MsgOf(SubSeq(r, 1, k))) \in 0 .. Len(MsgOf(r))
  BY <1>1, MsgOfCut
<1>6. Len(MsgOf(r)) \in Nat
  BY <1>1, MsgOfType
<1>7. QED BY <1>2, <1>3, <1>4, <1>5, <1>6 DEF r

\* When the stream grows and the kernel has no less of it, it has no fewer
\* messages.
LEMMA DurableGrows ==
    ASSUME NEW s \in Seq(Cells), NEW r \in Seq(Cells),
           NEW k \in 0 .. Len(s), NEW m \in k .. Len(s \o r)
    PROVE  Len(MsgOf(SubSeq(s \o r, 1, m))) \in
              Len(MsgOf(SubSeq(s, 1, k))) .. Len(MsgOf(s \o r))
<1> DEFINE c == s \o r
<1>1. /\ c \in Seq(Cells) /\ Len(c) = Len(s) + Len(r) /\ Len(s) \in Nat /\ Len(r) \in Nat
      /\ \A i \in 1 .. Len(s) : c[i] = s[i]
  BY ConcatProperties
<1>2. /\ k \in 0 .. Len(s) /\ k \in 0 .. Len(c) /\ m \in k .. Len(c) /\ m \in 0 .. Len(c)
      /\ k \in Nat /\ k <= Len(s) /\ k <= Len(c) /\ \A i \in 1 .. k : i \in 1 .. Len(s)
  BY <1>1
<1> HIDE DEF c
<1>3. MsgOf(SubSeq(s, 1, k)) = MsgsUpTo(s)[k] /\ MsgOf(SubSeq(c, 1, k)) = MsgsUpTo(c)[k]
  BY <1>1, <1>2, MsgOfPrefix
<1>4. MsgsUpTo(s)[k] = MsgsUpTo(c)[k]
  BY <1>1, <1>2, UpToLocal
<1>5. Len(MsgOf(SubSeq(c, 1, k))) <= Len(MsgOf(SubSeq(c, 1, m)))
  BY <1>1, <1>2, MsgOfGrows
<1>6. Len(MsgOf(SubSeq(c, 1, m))) \in 0 .. Len(MsgOf(c))
  BY <1>1, <1>2, MsgOfCut
<1>7. Len(MsgOf(c)) \in Nat /\ Len(MsgsUpTo(s)[k]) \in Nat
  BY <1>1, <1>2, MsgOfType, UpToType
<1>8. QED BY <1>3, <1>4, <1>5, <1>6, <1>7 DEF c

-----------------------------------------------------------------------------
(* The sink as a store of messages                                            *)

\* What the store has in its buffer, as cells.
Buffer == Unwritten \o mem[master]

\* Between the two Pushes the last item of the master is not whole.
TornLast == \A t \in Threads : pc[t] = "push" => ~mem[master][Len(mem[master])].whole

LEMMA BufferType ==
    ASSUME BaseInv
    PROVE  /\ stream \in Seq(Cells) /\ Unwritten \in Seq(Cells) /\ mem[master] \in Seq(Cells)
           /\ mem[slave] \in Seq(Cells) /\ Buffer \in Seq(Cells) /\ Len(stream) \in Nat
           /\ saved \in 0 .. Len(stream)
<1>1. TypeOK /\ saved \in 0 .. Len(stream)
  BY DEF BaseInv, TypeOK
<1>2. /\ stream \in Seq(Cells) /\ Unwritten \in Seq(Cells) /\ mem[master] \in Seq(Cells)
      /\ mem[slave] \in Seq(Cells)
  BY <1>1, ChainType
<1>3. Buffer \in Seq(Cells)
  BY <1>2, ConcatProperties DEF Buffer
<1>4. QED BY <1>1, <1>2, <1>3

\* A swap that went wrong is never forgotten.
LEMMA OverrunStays ==
    ASSUME [Next]_vars, overrun
    PROVE  overrun'
<1> USE DEF history
<1>1. ASSUME NEW t \in Threads, LogCall(t) \/ FlushCall(t) \/ CallStep(t) PROVE overrun'
  BY <1>1 DEF LogCall, FlushCall, CallStep, ResetStream, PushHeader, PushBody, NeedWriteToFile,
              LoadFree, StoreBusy, SwapPointers, PostCache, PostBarrier, LogFails
<1>2. CASE CtorStep
  BY <1>2 DEF CtorStep, RecoverSlave, RecoverMaster, CtorReturns
<1>3. CASE RunCache \/ SlaveNotEmpty \/ ReadSize \/ WriteHeader \/ WriteData \/ ClearSlave \/ FreeSlave
  BY <1>3 DEF RunCache, SlaveNotEmpty, ReadSize, WriteHeader, WriteData, ClearSlave, FreeSlave
<1>4. CASE FreeEmptySlave
  BY <1>4 DEF FreeEmptySlave
<1>5. ASSUME NEW t \in Threads, RunBarrier(t) PROVE overrun'
  BY <1>5 DEF RunBarrier
<1>6. CASE Crash \/ Close
  BY <1>6 DEF Crash, Close, Restart
<1>7. CASE UNCHANGED vars
  BY <1>7 DEF vars
<1>8. CASE \E t, u \in Threads : CompressBroken(t, u)
  BY <1>8 DEF CompressBroken
<1>9. QED BY <1>1, <1>2, <1>3, <1>4, <1>5, <1>6, <1>7, <1>8 DEF Next, StrandStep

\* Nobody else is between the two Pushes when the lock is free, or one's own.
LEMMA NobodyPushes ==
    ASSUME BaseInv
    PROVE  /\ mtx = NoOne => \A t \in Threads : pc[t] # "push"
           /\ \A t, u \in Threads : pc[t] = "push" /\ pc[u] = "push" => t = u
  BY DEF BaseInv, MutexInv

LEMMA TornLastStep ==
    ASSUME BaseInv, TornLast, [Next]_vars
    PROVE  TornLast'
<1> USE DEF bufVars, lockVars, strandVars, fileVars, callVars, history, Goto
<1>0. pc \in [Threads -> PCs] /\ TypeOK
  BY DEF BaseInv, TypeOK
<1>1. ASSUME UNCHANGED <<mem, master>>, \A t \in Threads : pc'[t] = "push" => pc[t] = "push"
      PROVE  TornLast'
  BY <1>1 DEF TornLast
<1>2. ASSUME \A t \in Threads : pc'[t] # "push"
      PROVE  TornLast'
  BY <1>2 DEF TornLast
<1>3. ASSUME NEW t \in Threads,
             \/ LogCall(t) \/ FlushCall(t) \/ ResetStream(t) \/ NeedWriteToFile(t)
             \/ LoadFree(t) \/ StoreBusy(t) \/ PostCache(t) \/ PostBarrier(t)
             \/ \E call \in FailingCalls : LogFails(t, call)
      PROVE  TornLast'
  <2>1. UNCHANGED <<mem, master>>
    BY <1>3 DEF LogCall, FlushCall, ResetStream, NeedWriteToFile, LoadFree, StoreBusy,
                PostCache, PostBarrier, LogFails
  <2>2. \E l \in PCs \ {"push"} : pc' = [pc EXCEPT ![t] = l]
    BY <1>3 DEF LogCall, FlushCall, ResetStream, NeedWriteToFile, LoadFree, StoreBusy,
                PostCache, PostBarrier, LogFails, AfterLoad, AfterPost, PCs
  <2>3. \A u \in Threads : pc'[u] = "push" => pc[u] = "push"
    BY <1>0, <2>2
  <2>4. QED BY <1>1, <2>1, <2>3
<1>4. ASSUME NEW t \in Threads, PushHeader(t)
      PROVE  TornLast'
  <2> DEFINE e == [kind |-> "item", msg |-> msg[t], prev |-> cctx,
                   key |-> session, whole |-> FALSE]
  <2>1. e \in Items /\ mem[master] \in Seq(Items) /\ mem'[master] = Append(mem[master], e)
    BY <1>0, <1>4, PushHeaderEffect DEF PushHeader, BaseInv, CallInv
  <2>2. master' = master
    BY <1>4 DEF PushHeader
  <2>3. ~e.whole
    OBVIOUS
  <2> HIDE DEF e
  <2>4. mem'[master'][Len(mem'[master'])] = e
    BY <2>1, <2>2
  <2>5. QED BY <2>3, <2>4 DEF TornLast
<1>5. ASSUME NEW t \in Threads, PushBody(t)
      PROVE  TornLast'
  <2>1. pc' = [pc EXCEPT ![t] = "need"] /\ pc[t] = "push"
    BY <1>5 DEF PushBody
  <2>2. \A u \in Threads : pc'[u] # "push"
    BY <1>0, <2>1, NobodyPushes
  <2>3. QED BY <1>2, <2>2
<1>6. ASSUME NEW t \in Threads, SwapPointers(t)
      PROVE  TornLast'
  <2>1. pc' = [pc EXCEPT ![t] = "post"] /\ mtx = NoOne
    BY <1>6 DEF SwapPointers, CanLock
  <2>2. \A u \in Threads : pc'[u] # "push"
    BY <1>0, <2>1, NobodyPushes
  <2>3. QED BY <1>2, <2>2
<1>7. CASE CtorStep
  <2>1. UNCHANGED <<mem, master>>
    BY <1>7 DEF CtorStep, RecoverSlave, RecoverMaster, CtorReturns
  <2>2. \A u \in Threads : pc'[u] = "push" => pc[u] = "push"
    BY <1>0, <1>7 DEF CtorStep, RecoverSlave, RecoverMaster, CtorReturns, AfterSlave
  <2>3. QED BY <1>1, <2>1, <2>2
<1>8. CASE \/ RunCache \/ FreeEmptySlave \/ SlaveNotEmpty \/ ReadSize \/ WriteHeader
           \/ WriteData \/ FreeSlave
  BY <1>1, <1>8 DEF RunCache, FreeEmptySlave, SlaveNotEmpty, ReadSize, WriteHeader,
                    WriteData, FreeSlave
<1>9. CASE ClearSlave
  <2>1. master' = master /\ pc' = pc /\ mem'[master] = mem[master]
    BY <1>9, <1>0, TwoBufs DEF ClearSlave, Clear, slave, TypeOK
  <2>2. QED BY <2>1 DEF TornLast
<1>10. ASSUME NEW t \in Threads, RunBarrier(t)
       PROVE  TornLast'
  <2>1. UNCHANGED <<mem, master>>
    BY <1>10 DEF RunBarrier
  <2>2. \A u \in Threads : pc'[u] = "push" => pc[u] = "push"
    BY <1>0, <1>10 DEF RunBarrier
  <2>3. QED BY <1>1, <2>1, <2>2
<1>11. CASE Crash \/ Close
  BY <1>2, <1>11 DEF Crash, Close, Restart
<1>12. CASE UNCHANGED vars
  BY <1>1, <1>12 DEF vars
<1>13. CASE \E t, u \in Threads : CompressBroken(t, u)
  BY <1>1, <1>13, BrokenEffect
<1>14. QED BY <1>3, <1>4, <1>5, <1>6, <1>7, <1>8, <1>9, <1>10, <1>11, <1>12, <1>13
             DEF Next, CallStep, StrandStep

\* The store of a state in which what it is made of is the same.
LEMMA SameStore ==
    ASSUME Buffer' = Buffer, UNCHANGED <<stream, saved>>
    PROVE  UNCHANGED Store!svars
<1>1. MsgOf(Buffer)' = MsgOf(Buffer)
  BY DEF MsgOf, MsgsUpTo, IsWhole, IsItem
<1>2. MsgOf(stream)' = MsgOf(stream)
  BY DEF MsgOf, MsgsUpTo, IsWhole, IsItem
<1>3. Len(MsgOf(SubSeq(stream, 1, saved)))' = Len(MsgOf(SubSeq(stream, 1, saved)))
  BY DEF MsgOf, MsgsUpTo, IsWhole, IsItem
<1>4. QED BY <1>1, <1>2, <1>3 DEF Store!svars, Buffer

\* PushHeader: an item without its body is none yet.
LEMMA HeaderStutters ==
    ASSUME BaseInv, NEW t \in Threads, PushHeader(t)
    PROVE  UNCHANGED Store!svars
<1> DEFINE e == [kind |-> "item", msg |-> msg[t], prev |-> cctx,
                 key |-> session, whole |-> FALSE]
           v == mem[master]
           u == Unwritten
<1>1. e \in Items /\ mem'[master] = Append(v, e) /\ mem'[slave] = mem[slave]
  BY PushHeaderEffect DEF BaseInv, CallInv, PushHeader
<1>2. e \in Cells /\ ~IsWhole(e)
  BY <1>1 DEF Cells, IsWhole
<1>3. stream' = stream /\ saved' = saved /\ master' = master /\ xpc' = xpc /\ slave' = slave
  BY SameSlave DEF PushHeader, strandVars, fileVars
<1>4. Unwritten' = u
  BY <1>1, <1>3 DEF Unwritten
<1> HIDE DEF e
<1>5. Buffer' = u \o Append(v, e)
  BY <1>1, <1>3, <1>4 DEF Buffer
<1>6. u \in Seq(Cells) /\ v \in Seq(Cells) /\ Append(v, e) \in Seq(Cells)
  BY <1>2, BufferType
<1> HIDE DEF u, v
<1>7. MsgOf(u \o Append(v, e)) = MsgOf(u \o v)
  <2>1. MsgOf(Append(v, e)) = MsgOf(v)
    BY <1>2, <1>6, MsgOfAppend
  <2> DEFINE w == Append(v, e)
  <2> HIDE DEF w
  <2>2. MsgOf(u \o w) = MsgOf(u) \o MsgOf(w) /\ MsgOf(u \o v) = MsgOf(u) \o MsgOf(v)
    BY <1>6, MsgOfConcat DEF w
  <2>3. QED BY <2>1, <2>2 DEF w
<1>8. MsgOf(Buffer) = MsgOf(u \o v)
  BY DEF Buffer, u, v
<1>9. MsgOf(Buffer)' = MsgOf(u \o Append(v, e))
  BY <1>5 DEF MsgOf, MsgsUpTo, IsWhole, IsItem
<1>10. /\ MsgOf(stream)' = MsgOf(stream)
       /\ Len(MsgOf(SubSeq(stream, 1, saved)))' = Len(MsgOf(SubSeq(stream, 1, saved)))
  BY <1>3 DEF MsgOf, MsgsUpTo, IsWhole, IsItem
<1>11. MsgOf(Buffer)' = MsgOf(Buffer)
  BY <1>7, <1>8, <1>9
<1>12. QED BY <1>10, <1>11 DEF Store!svars, Buffer

\* A sequence that is not empty is its beginning and its last element.
LEMMA LastApart ==
    ASSUME NEW S, NEW s \in Seq(S), Len(s) >= 1, NEW a \in Seq(S), Len(a) = Len(s) - 1,
           \A i \in 1 .. Len(s) - 1 : a[i] = s[i]
    PROVE  s = Append(a, s[Len(s)])
<1> DEFINE n == Len(s)
           r == Append(a, s[n])
<1>1. n \in Nat /\ n >= 1 /\ s[n] \in S
  OBVIOUS
<1>2. /\ r \in Seq(S) /\ Len(r) = n /\ r[n] = s[n]
      /\ \A i \in 1 .. n - 1 : r[i] = a[i]
  BY <1>1, AppendProperties
<1> HIDE DEF r
<1>3. \A i \in 1 .. n : r[i] = s[i]
  BY <1>1, <1>2
<1>4. r = s
  BY <1>1, <1>2, <1>3, SeqEqual
<1>5. QED BY <1>4 DEF r

\* The first k cells of a sequence.
LEMMA PrefixOf ==
    ASSUME NEW S, NEW s \in Seq(S), NEW k \in 0 .. Len(s)
    PROVE  /\ SubSeq(s, 1, k) \in Seq(S) /\ Len(SubSeq(s, 1, k)) = k
           /\ \A i \in 1 .. k : SubSeq(s, 1, k)[i] = s[i]
  OBVIOUS

\* PushBody: the item that was last and not whole is a message now.
LEMMA BodyAccepts ==
    ASSUME BaseInv, TornLast, NEW t \in Threads, PushBody(t)
    PROVE  Store!SAccept
<1> DEFINE v == mem[master]
           w == mem'[master]
           n == Len(v)
           u == Unwritten
           p == SubSeq(v, 1, n - 1)
           x == v[n]
           y == w[n]
<1>1. v # <<>> /\ x.msg = msg[t] /\ msg[t] \in Msgs /\ ~x.whole
  BY DEF BaseInv, CallInv, PushBody, TornLast
<1>2. /\ n \in Nat /\ n >= 1 /\ mem' \in [Bufs -> Seq(Items)]
      /\ mem'[slave] = mem[slave] /\ Len(w) = n
      /\ \A i \in 1 .. n - 1 : w[i] = v[i]
      /\ y = [x EXCEPT !.whole = TRUE]
      /\ x \in Items /\ y \in Items
  BY <1>1, PushBodyEffect DEF BaseInv
<1>3. /\ stream' = stream /\ saved' = saved /\ master' = master /\ xpc' = xpc /\ slave' = slave
      /\ master \in Bufs
  BY SameSlave DEF PushBody, strandVars, fileVars, BaseInv, TypeOK
<1>4. Unwritten' = u
  BY <1>2, <1>3 DEF Unwritten
<1>5. Buffer' = u \o w
  BY <1>3, <1>4 DEF Buffer
<1>6. y.msg = msg[t] /\ y.whole /\ y.kind = "item" /\ x \in Cells /\ y \in Cells
  BY <1>1, <1>2 DEF Items, Cells
<1>7. ~IsWhole(x) /\ IsWhole(y)
  BY <1>1, <1>6 DEF IsWhole, IsItem
<1>8. u \in Seq(Cells) /\ v \in Seq(Cells) /\ w \in Seq(Cells)
  <2>1. w \in Seq(Items)
    BY <1>2, <1>3
  <2>2. w \in Seq(Cells)
    BY <2>1 DEF Cells
  <2>3. QED BY <2>2, BufferType
<1>9. p \in Seq(Cells) /\ Len(p) = n - 1 /\ \A i \in 1 .. n - 1 : p[i] = v[i]
  <2>1. n - 1 \in 0 .. Len(v) /\ v \in Seq(Cells)
    BY <1>2, <1>8
  <2> HIDE DEF n, v
  <2>2. QED BY <2>1, PrefixOf
<1>10. \A i \in 1 .. n - 1 : p[i] = w[i]
  BY <1>2, <1>9
<1> HIDE DEF u, v, w, p, n, x, y
<1>11. v = Append(p, x)
  BY <1>2, <1>8, <1>9, LastApart DEF x, n
<1>12. w = Append(p, y)
  BY <1>2, <1>8, <1>9, <1>10, LastApart DEF y
<1>13. MsgOf(v) = MsgOf(p)
  BY <1>6, <1>7, <1>9, <1>11, MsgOfAppend
<1>14. MsgOf(w) = Append(MsgOf(p), msg[t])
  BY <1>6, <1>7, <1>9, <1>12, MsgOfAppend
<1>15. MsgOf(u \o w) = Append(MsgOf(u \o v), msg[t])
  <2>1. MsgOf(u \o v) = MsgOf(u) \o MsgOf(v) /\ MsgOf(u \o w) = MsgOf(u) \o MsgOf(w)
    BY <1>8, MsgOfConcat
  <2>2. MsgOf(u) \in Seq(Msgs) /\ MsgOf(p) \in Seq(Msgs)
    BY <1>8, <1>9, MsgOfType
  <2>3. \A a, b \in Seq(Msgs) : \A m \in Msgs : a \o Append(b, m) = Append(a \o b, m)
    <3> TAKE a, b \in Seq(Msgs)
    <3> TAKE m \in Msgs
    <3>1. Append(b, m) = b \o <<m>> /\ <<m>> \in Seq(Msgs) /\ a \o b \in Seq(Msgs)
      BY AppendIsConcat, ConcatProperties
    <3>2. Append(a \o b, m) = (a \o b) \o <<m>>
      BY <3>1, AppendIsConcat
    <3>3. (a \o b) \o <<m>> = a \o (b \o <<m>>)
      BY <3>1, ConcatAssociative, SMTT(30)
    <3>4. QED BY <3>1, <3>2, <3>3
  <2>4. QED BY <1>1, <1>13, <1>14, <2>1, <2>2, <2>3
<1>16. MsgOf(Buffer)' = MsgOf(u \o w)
  BY <1>5 DEF MsgOf, MsgsUpTo, IsWhole, IsItem
<1>17. MsgOf(Buffer)' = Append(MsgOf(Buffer), msg[t])
  BY <1>15, <1>16 DEF Buffer, u, v
<1>18. /\ MsgOf(stream)' = MsgOf(stream)
       /\ Len(MsgOf(SubSeq(stream, 1, saved)))' = Len(MsgOf(SubSeq(stream, 1, saved)))
  BY <1>3 DEF MsgOf, MsgsUpTo, IsWhole, IsItem
<1>19. QED BY <1>1, <1>17, <1>18 DEF Store!SAccept, Buffer

\* WriteHeader: a header is no message, and the close of a file hands what was
\* written to the kernel.
LEMMA ChunkHeaderSyncs ==
    ASSUME BaseInv, WriteHeader
    PROVE  Store!SSync
<1>1. PICK h \in Headers :
          /\ ~IsItem(h) /\ stream' = Append(stream, h)
          /\ saved' = IF h.opens THEN Len(stream) ELSE saved
  BY HeaderWritten, Zenon DEF BaseInv
<1> DEFINE r == stream \o <<h>>
<1>2. /\ mem' = mem /\ master' = master /\ xpc = "header" /\ xpc' = "data"
  BY Zenon DEF WriteHeader, bufVars
<1>3. stream \in Seq(Cells) /\ Len(stream) \in Nat /\ saved \in 0 .. Len(stream)
  BY BufferType
<1>4. h \in Cells /\ ~IsWhole(h)
  BY <1>1 DEF Cells, IsWhole
<1>5. /\ stream' = r /\ r \in Seq(Cells) /\ Len(r) = Len(stream) + 1 /\ <<h>> \in Seq(Cells)
  <2>1. <<h>> \in Seq(Cells) /\ Len(<<h>>) = 1
    BY <1>4
  <2>2. r \in Seq(Cells) /\ Len(r) = Len(stream) + 1
    BY <1>3, <2>1, ConcatProperties
  <2>3. Append(stream, h) = r
    BY <1>3, <1>4, AppendIsConcat
  <2>4. QED BY <1>1, <2>1, <2>2, <2>3
<1>6. MsgOf(r) = MsgOf(stream)
  <2>1. r = Append(stream, h)
    BY <1>1, <1>5
  <2>2. QED BY <1>3, <1>4, <2>1, MsgOfAppend
<1>7. saved' \in saved .. Len(r)
  BY <1>1, <1>3, <1>5
<1>8. Len(MsgOf(SubSeq(r, 1, saved'))) \in Len(MsgOf(SubSeq(stream, 1, saved))) .. Len(MsgOf(r))
  BY <1>3, <1>5, <1>7, DurableGrows
<1> HIDE DEF r
<1>9. Buffer' = Buffer
  BY <1>2, SameSlave DEF Buffer, Unwritten
<1>10. MsgOf(Buffer)' = MsgOf(Buffer)
  BY <1>9 DEF MsgOf, MsgsUpTo, IsWhole, IsItem
<1>11. MsgOf(stream)' = MsgOf(r) /\ MsgOf(SubSeq(stream, 1, saved))' = MsgOf(SubSeq(r, 1, saved'))
  BY <1>5 DEF MsgOf, MsgsUpTo, IsWhole, IsItem
<1>12. Store!Synced
  BY <1>8, <1>11 DEF Store!Synced
<1>13. QED BY <1>6, <1>10, <1>11, <1>12 DEF Store!SSync, Buffer

\* The two parts of a concatenation.
LEMMA ConcatParts ==
    ASSUME NEW S, NEW a \in Seq(S), NEW b \in Seq(S)
    PROVE  /\ Len(a) \in 0 .. Len(a \o b)
           /\ SubSeq(a \o b, 1, Len(a)) = a
           /\ SubSeq(a \o b, Len(a) + 1, Len(a \o b)) = b
<1> DEFINE c == a \o b
           p == SubSeq(c, 1, Len(a))
           q == SubSeq(c, Len(a) + 1, Len(c))
<1>1. /\ c \in Seq(S) /\ Len(c) = Len(a) + Len(b) /\ Len(a) \in Nat /\ Len(b) \in Nat
      /\ \A i \in 1 .. Len(a) : c[i] = a[i]
      /\ \A i \in 1 .. Len(b) : c[Len(a) + i] = b[i]
  BY ConcatProperties
<1> HIDE DEF c
<1>2. Len(a) \in 0 .. Len(c)
  BY <1>1
<1>3. p \in Seq(S) /\ Len(p) = Len(a) /\ \A i \in 1 .. Len(a) : p[i] = c[i]
  BY <1>1, <1>2, PrefixOf
<1>4. q \in Seq(S) /\ Len(q) = Len(b) /\ \A i \in 1 .. Len(b) : q[i] = c[Len(a) + i]
  <2>1. Len(a) + 1 \in 1 .. Len(c) + 1 /\ Len(c) \in Len(a) .. Len(c)
    BY <1>1
  <2>2. \A i \in Len(a) + 1 .. Len(c) : c[i] \in S
    BY <1>1
  <2>3. /\ q \in Seq(S) /\ Len(q) = Len(c) - (Len(a) + 1) + 1
        /\ \A i \in 1 .. Len(c) - (Len(a) + 1) + 1 : q[i] = c[Len(a) + 1 + i - 1]
    BY <1>1, <2>1, <2>2, SubSeqProperties
  <2>4. Len(c) - (Len(a) + 1) + 1 = Len(b)
    BY <1>1
  <2>5. \A i \in 1 .. Len(b) : Len(a) + 1 + i - 1 = Len(a) + i
    BY <1>1
  <2>6. QED BY <2>3, <2>4, <2>5
<1> HIDE DEF p, q
<1>5. p = a
  BY <1>1, <1>3, SeqEqual
<1>6. q = b
  BY <1>1, <1>4, SeqEqual
<1>7. QED BY <1>2, <1>5, <1>6 DEF c, p, q

\* WriteData: the messages of the slave go to the file.
LEMMA DataWrites ==
    ASSUME BaseInv, SizeInv, ~overrun, WriteData
    PROVE  Store!SWrite
<1> DEFINE r == mem[slave]
           v == mem[master]
           s == stream \o r
<1>1. /\ stream' = s /\ saved' = IF xsize > Threshold THEN Len(s) ELSE saved
      /\ mem' = mem /\ master' = master /\ xpc = "data" /\ xpc' = "clear"
  BY WholeBlock DEF SizeInv, WriteData, bufVars
<1>2. /\ stream \in Seq(Cells) /\ r \in Seq(Cells) /\ v \in Seq(Cells)
      /\ Len(stream) \in Nat /\ saved \in 0 .. Len(stream)
  BY BufferType
<1>3. Buffer = r \o v /\ Buffer' = v
  <2>1. Buffer = r \o v /\ Buffer' = <<>> \o v
    BY <1>1 DEF Buffer, Unwritten
  <2>2. QED BY <1>2, <2>1, ConcatEmptySeq
<1> HIDE DEF r, v
<1> DEFINE A == MsgOf(r)
           B == MsgOf(v)
<1>4. s \in Seq(Cells) /\ Len(s) = Len(stream) + Len(r) /\ Len(r) \in Nat
  BY <1>2, ConcatProperties
<1>5. saved' \in saved .. Len(s)
  BY <1>1, <1>2, <1>4
<1>6. Len(MsgOf(SubSeq(s, 1, saved'))) \in Len(MsgOf(SubSeq(stream, 1, saved))) .. Len(MsgOf(s))
  BY <1>2, <1>5, DurableGrows
<1>7. MsgOf(s) = MsgOf(stream) \o A /\ MsgOf(Buffer) = A \o B
  BY <1>2, <1>3, MsgOfConcat
<1>8. A \in Seq(Msgs) /\ B \in Seq(Msgs)
  BY <1>2, MsgOfType
<1> HIDE DEF s, A, B
<1>9. /\ MsgOf(Buffer)' = B /\ MsgOf(stream)' = MsgOf(s)
      /\ MsgOf(SubSeq(stream, 1, saved))' = MsgOf(SubSeq(s, 1, saved'))
  BY <1>1, <1>3 DEF B, MsgOf, MsgsUpTo, IsWhole, IsItem
<1>10. /\ Len(A) \in 0 .. Len(MsgOf(Buffer))
       /\ A = SubSeq(MsgOf(Buffer), 1, Len(A))
       /\ B = SubSeq(MsgOf(Buffer), Len(A) + 1, Len(MsgOf(Buffer)))
  BY <1>7, <1>8, ConcatParts
<1>11. /\ MsgOf(stream)' = MsgOf(stream) \o SubSeq(MsgOf(Buffer), 1, Len(A))
       /\ MsgOf(Buffer)' = SubSeq(MsgOf(Buffer), Len(A) + 1, Len(MsgOf(Buffer)))
  BY <1>7, <1>9, <1>10
<1>12. Store!Synced
  BY <1>6, <1>9 DEF Store!Synced
<1>13. QED BY <1>10, <1>11, <1>12 DEF Store!SWrite, Buffer

\* SwapPointers: the order of the slave and the master stays, as the slave has
\* nothing.
LEMMA SwapStutters ==
    ASSUME BaseInv, ~overrun', NEW t \in Threads, SwapPointers(t)
    PROVE  UNCHANGED Store!svars
<1>1. /\ master' = slave /\ slave' = master /\ mem' = mem /\ stream' = stream /\ saved' = saved
      /\ xpc' = xpc /\ mem[slave] = <<>> /\ xpc \in {"idle", "empty"}
  BY TwoBufs DEF SwapPointers, SlaveAvailable, slave, BaseInv, TypeOK, strandVars, fileVars
<1>2. Buffer = <<>> \o mem[master] /\ Buffer' = mem[master] \o <<>>
  BY <1>1 DEF Buffer, Unwritten
<1>3. mem[master] \in Seq(Cells)
  BY BufferType
<1>4. Buffer' = Buffer
  BY <1>2, <1>3, ConcatEmptySeq
<1>5. QED BY <1>1, <1>4, SameStore

\* ClearSlave: what is cleared has been written.
LEMMA ClearStutters ==
    ASSUME BaseInv, ClearSlave
    PROVE  UNCHANGED Store!svars
<1>1. /\ slave' = slave /\ master' = master /\ slave \in Bufs /\ slave # master
      /\ mem' = [mem EXCEPT ![slave] = <<>>] /\ stream' = stream /\ saved' = saved
      /\ xpc = "clear" /\ xpc' = "free"
  BY SameSlave, TwoBufs DEF ClearSlave, Clear, slave, BaseInv, TypeOK, fileVars
<1>2. mem'[slave'] = <<>> /\ mem'[master'] = mem[master]
  BY <1>1 DEF BaseInv, TypeOK
<1>3. Buffer' = Buffer
  BY <1>1, <1>2 DEF Buffer, Unwritten
<1>4. QED BY <1>1, <1>3, SameStore

\* The mappings are opened by their names: in the order they had, unless they
\* had changed places and both have items.
LEMMA RestartKeepsBuffer ==
    ASSUME BaseInv, ~Untidy, NEW k, Restart(k)
    PROVE  Buffer' = Buffer
<1> DEFINE m == mem["master_mmap"]
           n == mem["slave_mmap"]
<1>1. Other("master_mmap") = "slave_mmap" /\ Other("slave_mmap") = "master_mmap"
  <2>1. "master_mmap" \in Bufs /\ "slave_mmap" \in Bufs /\ "master_mmap" # "slave_mmap"
    BY DEF Bufs
  <2>2. QED BY <2>1, TwoBufs DEF Bufs
<1>2. master' = "master_mmap" /\ slave' = "slave_mmap" /\ mem' = mem /\ xpc' = "idle"
  BY <1>1 DEF Restart, slave
<1>3. Buffer' = n \o m
  BY <1>2 DEF Buffer, Unwritten
<1>4. xpc # "clear" /\ ~(master = "slave_mmap" /\ \A b \in Bufs : mem[b] # <<>>)
  BY DEF Untidy
<1>5. Unwritten = mem[slave]
  BY <1>4 DEF Unwritten
<1>6. m \in Seq(Items) /\ n \in Seq(Items)
  BY DEF BaseInv, TypeOK, Bufs
<1>7. CASE master = "master_mmap"
  BY <1>1, <1>3, <1>5, <1>7 DEF Buffer, slave
<1>8. CASE master = "slave_mmap"
  <2>1. Buffer = m \o n
    BY <1>1, <1>5, <1>8 DEF Buffer, slave
  <2>2. m = <<>> \/ n = <<>>
    BY <1>4, <1>8 DEF Bufs
  <2> HIDE DEF m, n
  <2>3. m \o <<>> = m /\ <<>> \o m = m /\ n \o <<>> = n /\ <<>> \o n = n
    BY <1>6, ConcatEmptySeq
  <2>4. CASE m = <<>>
    BY <1>3, <2>1, <2>3, <2>4
  <2>5. CASE n = <<>>
    BY <1>3, <2>1, <2>3, <2>5
  <2>6. QED BY <2>2, <2>4, <2>5
<1>9. QED BY <1>7, <1>8 DEF BaseInv, TypeOK, Bufs

\* The end of the process takes an end of the file that the kernel did not have.
LEMMA RestartDies ==
    ASSUME BaseInv, ~Untidy, NEW k \in saved .. Len(stream), Restart(k)
    PROVE  Store!SDie
<1> DEFINE s == SubSeq(stream, 1, k)
           d == SubSeq(stream, 1, saved)
<1>1. stream' = s /\ saved' = k
  BY DEF Restart
<1>2. stream \in Seq(Cells) /\ Len(stream) \in Nat /\ saved \in 0 .. Len(stream)
  BY BufferType
<1>3. k \in 0 .. Len(stream) /\ k \in Nat
  BY <1>2
<1>4. s \in Seq(Cells) /\ Len(s) = k /\ d \in Seq(Cells)
  BY <1>2, <1>3, PrefixOf
<1>5. /\ Len(MsgOf(s)) \in 0 .. Len(MsgOf(stream))
      /\ MsgOf(s) = SubSeq(MsgOf(stream), 1, Len(MsgOf(s)))
  BY <1>2, <1>3, MsgOfCut
<1>6. Len(MsgOf(d)) <= Len(MsgOf(s))
  BY <1>2, MsgOfGrows
<1>7. Len(MsgOf(d)) \in Nat /\ Len(MsgOf(s)) \in Nat /\ Len(MsgOf(stream)) \in Nat
  BY <1>2, <1>4, MsgOfType
<1>8. SubSeq(s, 1, k) = s
  BY <1>4, SubSeqFull
<1> HIDE DEF s, d
<1>9. Len(MsgOf(s)) \in Len(MsgOf(d)) .. Len(MsgOf(stream))
  BY <1>5, <1>6, <1>7
<1>10. MsgOf(stream)' = MsgOf(s) /\ MsgOf(SubSeq(stream, 1, saved))' = MsgOf(s)
  <2>1. SubSeq(stream', 1, saved') = s
    BY <1>1, <1>8
  <2>2. /\ MsgOf(stream)' = MsgOf(stream')
        /\ MsgOf(SubSeq(stream, 1, saved))' = MsgOf(SubSeq(stream', 1, saved'))
    BY DEF MsgOf, MsgsUpTo, IsWhole, IsItem
  <2>3. QED BY <1>1, <2>1, <2>2
<1>11. Buffer' = Buffer
  BY RestartKeepsBuffer
<1>12. MsgOf(Buffer)' = MsgOf(Buffer)
  BY <1>11 DEF MsgOf, MsgsUpTo, IsWhole, IsItem
<1>13. \E j \in Len(MsgOf(d)) .. Len(MsgOf(stream)) : MsgOf(stream)' = SubSeq(MsgOf(stream), 1, j)
  BY <1>5, <1>9, <1>10
<1>14. QED BY <1>10, <1>12, <1>13 DEF Store!SDie, Buffer, d

\* Every step is one of the store or none, until a swap goes wrong and but for
\* the untidy ends of a run.
LEMMA StoreStep ==
    ASSUME BaseInv, SizeInv, TornLast, [Next]_vars
    PROVE  [overrun' \/ (session' # session /\ Untidy) \/ Store!SNext]_(Store!svars)
<1> SUFFICES ASSUME ~overrun', ~(session' # session /\ Untidy)
             PROVE  Store!SNext \/ UNCHANGED Store!svars
  OBVIOUS
<1> USE DEF bufVars, lockVars, strandVars, fileVars, callVars, history
<1>1. ~overrun
  BY OverrunStays
<1>2. ASSUME UNCHANGED <<mem, master, stream, saved>>, xpc' = "clear" <=> xpc = "clear"
      PROVE  UNCHANGED Store!svars
  <2>1. Buffer' = Buffer
    BY <1>2, SameSlave DEF Buffer, Unwritten
  <2>2. QED BY <1>2, <2>1, SameStore
<1>3. ASSUME NEW t \in Threads, LogCall(t) \/ FlushCall(t) \/ CallStep(t)
      PROVE  Store!SNext \/ UNCHANGED Store!svars
  <2>1. CASE PushHeader(t)
    BY <2>1, HeaderStutters
  <2>2. CASE PushBody(t)
    BY <2>2, BodyAccepts DEF Store!SNext
  <2>3. CASE SwapPointers(t)
    BY <2>3, SwapStutters
  <2>4. CASE \/ LogCall(t) \/ FlushCall(t) \/ ResetStream(t) \/ NeedWriteToFile(t)
             \/ LoadFree(t) \/ StoreBusy(t) \/ PostCache(t) \/ PostBarrier(t)
             \/ \E call \in FailingCalls : LogFails(t, call)
    BY <1>2, <2>4 DEF LogCall, FlushCall, ResetStream, NeedWriteToFile, LoadFree, StoreBusy,
                      PostCache, PostBarrier, LogFails
  <2>5. QED BY <1>3, <2>1, <2>2, <2>3, <2>4 DEF CallStep
<1>4. CASE CtorStep \/ UNCHANGED vars
  BY <1>2, <1>4 DEF CtorStep, RecoverSlave, RecoverMaster, CtorReturns, vars
<1>5. CASE StrandStep
  <2>1. CASE RunCache \/ FreeEmptySlave \/ SlaveNotEmpty \/ ReadSize \/ FreeSlave
    BY <1>2, <2>1 DEF RunCache, FreeEmptySlave, SlaveNotEmpty, ReadSize, FreeSlave
  <2>2. ASSUME NEW t \in Threads, RunBarrier(t) PROVE UNCHANGED Store!svars
    BY <1>2, <2>2 DEF RunBarrier
  <2>3. CASE WriteHeader
    BY <2>3, ChunkHeaderSyncs DEF Store!SNext
  <2>4. CASE WriteData
    BY <1>1, <2>4, DataWrites DEF Store!SNext
  <2>5. CASE ClearSlave
    BY <2>5, ClearStutters
  <2>6. QED BY <1>5, <2>1, <2>2, <2>3, <2>4, <2>5 DEF StrandStep
<1>6. ASSUME NEW k \in saved .. Len(stream), Restart(k)
      PROVE  Store!SNext
  <2>1. session' # session
    BY <1>6 DEF Restart, BaseInv, TypeOK
  <2>2. QED BY <1>6, <2>1, RestartDies DEF Store!SNext
<1>7. CASE Crash \/ Close
  <2>1. CASE Crash
    BY <1>6, <2>1 DEF Crash
  <2>2. CASE Close
    <3>1. Len(stream) \in saved .. Len(stream)
      BY BufferType
    <3>2. QED BY <1>6, <2>2, <3>1 DEF Close
  <2>3. QED BY <1>7, <2>1, <2>2
<1>8. CASE \E t, u \in Threads : CompressBroken(t, u)
  BY <1>2, <1>8, BrokenEffect
<1>9. QED BY <1>3, <1>4, <1>5, <1>7, <1>8 DEF Next

LEMMA InitStore == Init => Store!SInit
<1> SUFFICES ASSUME Init PROVE Store!SInit
  OBVIOUS
<1>1. mem[master] = <<>> /\ mem[slave] = <<>> /\ stream = <<>> /\ saved = 0
  BY TwoBufs DEF Init, slave, Bufs
<1>2. Unwritten \o mem[master] = <<>>
  BY <1>1 DEF Unwritten
<1>3. SubSeq(stream, 1, saved) = <<>>
  BY <1>1, SubSeqEmpty
<1>4. Len(<<>>) = 0
  BY EmptySeq
<1>5. /\ MsgOf(Unwritten \o mem[master]) = <<>> /\ MsgOf(stream) = <<>>
      /\ MsgOf(SubSeq(stream, 1, saved)) = <<>>
  BY <1>1, <1>2, <1>3, MsgOfEmpty
<1>6. QED BY <1>4, <1>5 DEF Store!SInit

\* The sink implements LogStore, across the crashes and the recovery after them:
\* a Log that returns has put one message behind all others, the strand moves
\* messages to the file in order and once each, the two mappings keep the rest
\* when the process dies, and only what the kernel did not have is gone.  Not so
\* after a swap went wrong, nor when the process ends between the write of the
\* slave and its Clear, or with two filled mappings that have changed places
\* (effective_sink.cc 40-54, 71-105, 133-182).
THEOREM SinkIsStore == Spec => ImplementsStore
<1>1. Init => Retained /\ SizeInv /\ TornLast
  BY DEF Init, Retained, SizeInv, TornLast
<1>2. BaseInv /\ Retained /\ SizeInv /\ TornLast /\ [Next]_vars => Retained' /\ SizeInv' /\ TornLast'
  BY RetainedStep, TornLastStep
<1>3. BaseInv /\ SizeInv /\ TornLast /\ [Next]_vars =>
         [overrun' \/ (session' # session /\ Untidy) \/ Store!SNext]_(Store!svars)
  BY StoreStep
<1>4. QED BY <1>1, <1>2, <1>3, InitStore, BaseInvariance, PTL DEF Spec, ImplementsStore

=============================================================================
