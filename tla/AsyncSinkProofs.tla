-------------------------- MODULE AsyncSinkProofs ---------------------------
(* Proofs about AsyncSink for any threads, calls, lengths and capacities: that *)
(* a Flush persists, that an owner that flushes last may destroy the sink,    *)
(* that the sink implements LogStore, and that a buffer has room for what is  *)
(* pushed.                                                                    *)
EXTENDS AsyncSink, Integers, SequenceTheorems, WellFoundedInduction, TLAPS

USE AsyncAssumption

-----------------------------------------------------------------------------
(* Types and control                                                          *)

\* The types of all variables but cap, which CapInv gives.
TypeInv ==
    /\ mem \in [Bufs -> Seq(Items)]
    /\ master \in Bufs /\ slaveFree \in BOOLEAN
    /\ pending \in Seq(Threads \cup {"cache"})
    /\ xpc \in {"idle", "empty", "size", "data", "clear", "free"} /\ xcount \in Nat
    /\ stream \in Seq(Items \cup {Junk}) /\ saved \in 0 .. Len(stream)
    /\ state \in {"alive", "destroyed", "dead"}
    /\ pc \in [Threads -> PCs]
    /\ op \in [Threads -> {"none", "log", "flush1", "flush2"}]
    /\ msg \in [Threads -> Items \cup {Junk}]
    /\ \A t \in Threads : pc[t] = "push" => msg[t] \in Items
    /\ next \in 1 .. MaxCalls + 1 /\ flushes \in Nat
    /\ accepted \in Seq(Msgs)
    /\ promised \in [Threads -> [stored : Nat, called : Nat]]
    /\ \A t \in Threads : promised[t].stored <= Len(accepted)
    /\ flushed \in [stored : 0 .. Len(accepted), called : Nat]
    /\ overrun \in BOOLEAN /\ calm \in BOOLEAN /\ dangling \in BOOLEAN

\* In which call a thread is, by where it is; nobody is in a destroyed sink.
ControlInv ==
    /\ state # "dead" => \A t \in Threads :
         /\ pc[t] # "down"
         /\ pc[t] = "idle" <=> op[t] = "none"
         /\ pc[t] \in {"push", "need"} => op[t] = "log"
         /\ pc[t] \in {"barrier", "await"} => op[t] \in {"flush1", "flush2"}
         /\ pc[t] = "again" => op[t] = "flush1"
         /\ pc[t] = "done" => op[t] = "flush2"
         /\ pc[t] \in {"load", "store", "swap"} => op[t] \in {"log", "flush2"}
    /\ state = "destroyed" => Idle

\* A barrier on the strand is that of a thread that waits for it, and the only
\* one of that thread.
BarrierInv ==
    /\ \A i \in 1 .. Len(pending) : pending[i] # "cache" => pc[pending[i]] = "await"
    /\ \A i, j \in 1 .. Len(pending) :
          pending[i] = pending[j] /\ pending[i] # "cache" => i = j

BaseInv == TypeInv /\ ControlInv /\ BarrierInv

-----------------------------------------------------------------------------

\* There are two buffers: the other one of the one that is not b is b.
LEMMA OtherBuf ==
    ASSUME NEW b \in Bufs, NEW o, o = CHOOSE x \in Bufs : x # b
    PROVE  o \in Bufs /\ o # b /\ Bufs = {b, o} /\ b = CHOOSE x \in Bufs : x # o
<1>1. \E x \in Bufs : x # b
  BY DEF Bufs
<1>2. o \in Bufs /\ o # b
  BY <1>1
<1>3. Bufs = {b, o}
  BY <1>2 DEF Bufs
<1>4. QED BY <1>2, <1>3

LEMMA Slave ==
    ASSUME TypeInv
    PROVE  /\ slave \in Bufs /\ slave # master /\ Bufs = {master, slave}
           /\ mem[slave] \in Seq(Items) /\ mem[master] \in Seq(Items)
<1>1. slave \in Bufs /\ slave # master /\ Bufs = {master, slave}
  BY OtherBuf DEF TypeInv, slave
<1>2. QED BY <1>1 DEF TypeInv

\* Of the slave in the next state: it changes place with the master, or not.
LEMMA NextSlave ==
    ASSUME TypeInv
    PROVE  /\ master' = master => slave' = slave
           /\ master' = slave => slave' = master
<1>1. master' = master => slave' = slave
  BY DEF slave
<1>2. master' = slave => slave' = master
  BY OtherBuf DEF TypeInv, slave
<1>3. QED BY <1>1, <1>2

LEMMA BlockType ==
    ASSUME TypeInv, NEW n \in Nat
    PROVE  /\ Block(slave, n) \in Seq(Items \cup {Junk}) /\ Len(Block(slave, n)) = n
           /\ n = Len(mem[slave]) => Block(slave, n) = mem[slave]
<1>1. mem[slave] \in Seq(Items)
  BY Slave
<1>2. \A i \in 1 .. n : (IF i <= Len(mem[slave]) THEN mem[slave][i] ELSE Junk)
                            \in Items \cup {Junk}
  BY <1>1
<1>3. Block(slave, n) \in Seq(Items \cup {Junk}) /\ Len(Block(slave, n)) = n
  BY <1>2 DEF Block
<1>4. ASSUME n = Len(mem[slave]) PROVE Block(slave, n) = mem[slave]
  <2>1. \A i \in 1 .. n : Block(slave, n)[i] = mem[slave][i]
    BY <1>4 DEF Block
  <2>2. mem[slave] \in Seq(Items \cup {Junk})
    BY <1>1
  <2>3. QED BY <1>3, <1>4, <2>1, <2>2, SeqEqual
<1>5. QED BY <1>3, <1>4

LEMMA InitBase == Init => BaseInv
<1> SUFFICES ASSUME Init PROVE BaseInv
  OBVIOUS
<1> USE DEF Init
<1>1. TypeInv
  <2>1. /\ <<>> \in Seq(Items) /\ <<>> \in Seq(Threads \cup {"cache"})
        /\ <<>> \in Seq(Items \cup {Junk}) /\ <<>> \in Seq(Msgs)
    BY Zenon, EmptySeq
  <2>2. Len(<<>>) = 0 /\ MaxCalls \in Nat
    OBVIOUS
  <2>3. mem \in [Bufs -> Seq(Items)] /\ master \in Bufs
    BY <2>1 DEF Bufs
  <2>4. /\ pc \in [Threads -> PCs] /\ msg \in [Threads -> Items \cup {Junk}]
        /\ op \in [Threads -> {"none", "log", "flush1", "flush2"}]
        /\ promised \in [Threads -> [stored : Nat, called : Nat]]
        /\ \A t \in Threads : promised[t].stored = 0
    BY DEF PCs
  <2>5. next \in 1 .. MaxCalls + 1 /\ flushed \in [stored : 0 .. Len(accepted), called : Nat]
    BY <2>2
  <2>6. saved \in 0 .. Len(stream) /\ xcount \in Nat /\ flushes \in Nat
    BY <2>2
  <2>7. slaveFree \in BOOLEAN /\ overrun \in BOOLEAN /\ calm \in BOOLEAN /\ dangling \in BOOLEAN
    BY Zenon
  <2>8. QED BY <2>1, <2>2, <2>3, <2>4, <2>5, <2>6, <2>7 DEF TypeInv
<1>2. ControlInv
  BY DEF ControlInv
<1>3. BarrierInv
  BY DEF BarrierInv
<1>4. QED BY <1>1, <1>2, <1>3 DEF BaseInv

-----------------------------------------------------------------------------
(* Every step keeps the types                                                 *)

LEMMA LogTypes ==
    ASSUME TypeInv, NEW t \in Threads
    PROVE  /\ LogCall(t) => TypeInv'
           /\ WriteToCache(t) => TypeInv'
           /\ NeedWriteToFile(t) => TypeInv'
<1> USE DEF TypeInv, PCs, Goto, bufVars, strandVars, fileVars, callVars, history
<1>1. ASSUME LogCall(t) PROVE TypeInv'
  <2>1. next \in Msgs /\ next' \in 1 .. MaxCalls + 1
    BY <1>1 DEF LogCall, Msgs
  <2>2. PICK n \in Lens : msg' = [msg EXCEPT ![t] = [msg |-> next, len |-> n]]
    BY <1>1 DEF LogCall
  <2>3. [msg |-> next, len |-> n] \in Items
    BY <2>1 DEF Items
  <2>4. /\ msg' \in [Threads -> Items \cup {Junk}]
        /\ \A u \in Threads : pc'[u] = "push" => msg'[u] \in Items
    BY <1>1, <2>2, <2>3 DEF LogCall
  <2>5. QED BY <1>1, <2>1, <2>4 DEF LogCall
<1>2. ASSUME WriteToCache(t) PROVE TypeInv'
  <2>1. msg[t] \in Items /\ msg[t].msg \in Msgs
    BY <1>2 DEF WriteToCache, Items
  <2>2. mem' \in [Bufs -> Seq(Items)]
    BY <1>2, <2>1, Slave DEF WriteToCache
  <2>3. accepted' \in Seq(Msgs) /\ Len(accepted') = Len(accepted) + 1
    BY <1>2, <2>1 DEF WriteToCache
  <2>4. flushed' \in [stored : 0 .. Len(accepted'), called : Nat]
    BY <1>2, <2>3 DEF WriteToCache
  <2>5. pc' \in [Threads -> PCs] /\ \A u \in Threads : pc'[u] = "push" => pc[u] = "push"
    BY <1>2 DEF WriteToCache
  <2>6. \A u \in Threads : promised[u].stored <= Len(accepted')
    BY <2>3
  <2>7. QED BY <1>2, <2>2, <2>3, <2>4, <2>5, <2>6 DEF WriteToCache
<1>3. ASSUME NeedWriteToFile(t) PROVE TypeInv'
  BY <1>3, ZenonT(30) DEF NeedWriteToFile, Return
<1>4. QED BY <1>1, <1>2, <1>3

LEMMA SwapTypes ==
    ASSUME TypeInv, NEW t \in Threads
    PROVE  /\ LoadFree(t) => TypeInv'
           /\ StoreBusy(t) => TypeInv'
           /\ SwapPointers(t) => TypeInv'
           /\ AsyncCacheToFile(t) => TypeInv'
           /\ PostBarrier(t) => TypeInv'
<1> USE DEF TypeInv, PCs, Goto, bufVars, strandVars, fileVars, callVars, history
<1>1. ASSUME LoadFree(t) PROVE TypeInv'
  BY <1>1 DEF LoadFree
<1>2. ASSUME StoreBusy(t) PROVE TypeInv'
  BY <1>2 DEF StoreBusy
<1>3. ASSUME SwapPointers(t) PROVE TypeInv'
  <2>1. slave \in Bufs /\ overrun' \in BOOLEAN
    BY <1>3, Slave DEF SwapPointers
  <2>2. QED BY <1>3, <2>1 DEF SwapPointers
<1>4. ASSUME AsyncCacheToFile(t) PROVE TypeInv'
  <2>1. pending' \in Seq(Threads \cup {"cache"})
    BY <1>4 DEF AsyncCacheToFile
  <2>2. pc' \in [Threads -> PCs] /\ \A u \in Threads : pc'[u] = "push" => pc[u] = "push" /\ u # t
    BY <1>4 DEF AsyncCacheToFile, AfterPost, Return
  <2>3. QED BY <1>4, <2>1, <2>2 DEF AsyncCacheToFile, Return
<1>5. ASSUME PostBarrier(t) PROVE TypeInv'
  BY <1>5, SMTT(20) DEF PostBarrier
<1>6. QED BY <1>1, <1>2, <1>3, <1>4, <1>5

LEMMA FlushTypes ==
    ASSUME TypeInv, NEW t \in Threads
    PROVE  /\ FlushCall(t) => TypeInv'
           /\ SecondHalf(t) => TypeInv'
           /\ FlushReturn(t) => TypeInv'
           /\ RunBarrier(t) => TypeInv'
<1> USE DEF TypeInv, PCs, Goto, bufVars, strandVars, fileVars, callVars, history
<1>1. ASSUME FlushCall(t) PROVE TypeInv'
  <2> DEFINE called == IF \E u \in Threads : pc[u] # "idle" /\ op[u] = "log" THEN 0 ELSE next - 1
  <2>1. called \in Nat
    OBVIOUS
  <2>2. promised' = [promised EXCEPT ![t] = [stored |-> Len(accepted), called |-> called]]
    BY <1>1 DEF FlushCall
  <2> HIDE DEF called
  <2>3. /\ promised' \in [Threads -> [stored : Nat, called : Nat]]
        /\ \A u \in Threads : promised'[u].stored <= Len(accepted)
    BY <2>1, <2>2
  <2>4. pc' \in [Threads -> PCs] /\ \A u \in Threads : pc'[u] = "push" => pc[u] = "push"
    BY <1>1 DEF FlushCall
  <2>5. op' \in [Threads -> {"none", "log", "flush1", "flush2"}] /\ flushes' \in Nat
    BY <1>1 DEF FlushCall
  <2>6. QED BY <1>1, <2>3, <2>4, <2>5 DEF FlushCall
<1>2. ASSUME SecondHalf(t) PROVE TypeInv'
  BY <1>2 DEF SecondHalf
<1>3. ASSUME FlushReturn(t) PROVE TypeInv'
  <2>1. flushed' \in [stored : 0 .. Len(accepted), called : Nat]
    BY <1>3 DEF FlushReturn, Larger
  <2>2. /\ promised' \in [Threads -> [stored : Nat, called : Nat]]
        /\ \A u \in Threads : promised'[u].stored <= Len(accepted)
    BY <1>3 DEF FlushReturn
  <2>3. QED BY <1>3, <2>1, <2>2 DEF FlushReturn, Return
<1>4. ASSUME RunBarrier(t) PROVE TypeInv'
  <2>1. pending' \in Seq(Threads \cup {"cache"})
    BY <1>4 DEF RunBarrier
  <2>2. pc' \in [Threads -> PCs]
    BY <1>4 DEF RunBarrier
  <2>3. QED BY <1>4, <2>1, <2>2 DEF RunBarrier
<1>5. QED BY <1>1, <1>2, <1>3, <1>4

LEMMA StrandTypes ==
    ASSUME TypeInv
    PROVE  /\ RunCache => TypeInv'
           /\ Empty => TypeInv'
           /\ ReadSize => TypeInv'
           /\ WriteData => TypeInv'
           /\ ClearSlave => TypeInv'
           /\ FreeSlave => TypeInv'
<1> USE DEF TypeInv, bufVars, fileVars, callVars, history
<1>1. ASSUME RunCache PROVE TypeInv'
  <2>1. pending' \in Seq(Threads \cup {"cache"})
    BY <1>1 DEF RunCache
  <2>2. QED BY <1>1, <2>1 DEF RunCache
<1>2. ASSUME Empty PROVE TypeInv'
  <2>1. slaveFree' \in BOOLEAN /\ overrun' \in BOOLEAN
    BY <1>2, Zenon DEF Empty
  <2>2. QED BY <1>2, <2>1 DEF Empty
<1>3. ASSUME ReadSize PROVE TypeInv'
  BY <1>3, Slave DEF ReadSize
<1>4. ASSUME WriteData PROVE TypeInv'
  <2>0. Block(slave, xcount) \in Seq(Items \cup {Junk})
    BY BlockType
  <2>1. stream' \in Seq(Items \cup {Junk}) /\ Len(stream') >= Len(stream)
    BY <1>4, <2>0 DEF WriteData
  <2>2. saved' \in 0 .. Len(stream')
    BY <1>4, <2>1 DEF WriteData
  <2>3. QED BY <1>4, <2>1, <2>2 DEF WriteData
<1>5. ASSUME ClearSlave PROVE TypeInv'
  <2>1. mem' \in [Bufs -> Seq(Items)]
    BY <1>5, Slave DEF ClearSlave, Clear
  <2>2. QED BY <1>5, <2>1 DEF ClearSlave
<1>6. ASSUME FreeSlave PROVE TypeInv'
  BY <1>6 DEF FreeSlave
<1>7. QED BY <1>1, <1>2, <1>3, <1>4, <1>5, <1>6

LEMMA EndTypes ==
    ASSUME TypeInv
    PROVE  /\ Destroy => TypeInv'
           /\ UseAfter => TypeInv'
           /\ Crash => TypeInv'
<1> USE DEF TypeInv, bufVars, strandVars, fileVars, callVars, history
<1>1. ASSUME Destroy PROVE TypeInv'
  <2>1. calm' \in BOOLEAN
    BY <1>1, Zenon DEF Destroy
  <2>2. saved' \in 0 .. Len(stream)
    BY <1>1 DEF Destroy
  <2>3. QED BY <1>1, <2>1, <2>2 DEF Destroy
<1>2. ASSUME UseAfter PROVE TypeInv'
  BY <1>2 DEF UseAfter
<1>3. ASSUME Crash PROVE TypeInv'
  <2>1. PICK k \in saved .. Len(stream) : stream' = SubSeq(stream, 1, k)
    BY <1>3 DEF Crash
  <2>2. stream' \in Seq(Items \cup {Junk}) /\ Len(stream') \in Nat
    BY <2>1, SubSeqProperties
  <2>3. saved' \in 0 .. Len(stream')
    BY <1>3, <2>2 DEF Crash
  <2>4. mem' \in [Bufs -> Seq(Items)] /\ pending' \in Seq(Threads \cup {"cache"})
    BY <1>3 DEF Crash
  <2>5. pc' \in [Threads -> PCs] /\ \A t \in Threads : pc'[t] # "push"
    BY <1>3 DEF Crash, PCs
  <2>6. QED BY <1>3, <2>2, <2>3, <2>4, <2>5 DEF Crash
<1>4. QED BY <1>1, <1>2, <1>3

LEMMA TypeStep == TypeInv /\ [Next]_vars => TypeInv'
<1> SUFFICES ASSUME TypeInv, [Next]_vars PROVE TypeInv'
  OBVIOUS
<1>1. CASE UNCHANGED vars
  BY <1>1 DEF vars, bufVars, strandVars, fileVars, callVars, history, TypeInv
<1>2. CASE Next
  BY <1>2, LogTypes, SwapTypes, FlushTypes, StrandTypes, EndTypes
     DEF Next, CallStep, StrandStep
<1>3. QED BY <1>1, <1>2
-----------------------------------------------------------------------------
(* Every step keeps the control                                               *)

\* A thread that does not wait moves; the strand stays as it is.
LEMMA ThreadMoves ==
    ASSUME BaseInv, NEW t \in Threads, NEW l, pc' = [pc EXCEPT ![t] = l],
           pc[t] # "await", pending' = pending
    PROVE  BarrierInv'
<1>1. \A i \in 1 .. Len(pending) : pending[i] # "cache" => pending[i] \in Threads /\ pending[i] # t
  BY SMTT(20) DEF BaseInv, BarrierInv, TypeInv
<1>2. QED BY <1>1 DEF BaseInv, BarrierInv, TypeInv

\* The head of the strand is taken off, and nothing else becomes its element.
LEMMA TailBarriers ==
    ASSUME BaseInv, pending # <<>>, pending' = Tail(pending)
    PROVE  /\ Len(pending) \in Nat /\ Len(pending) >= 1 /\ Head(pending) = pending[1]
           /\ Len(pending') = Len(pending) - 1
           /\ \A i \in 1 .. Len(pending') : i + 1 \in 1 .. Len(pending) /\ pending'[i] = pending[i + 1]
           /\ \A i \in 1 .. Len(pending') :
                 pending'[i] # "cache" =>
                     /\ pending'[i] \in Threads /\ pending'[i] # Head(pending)
                     /\ pc[pending'[i]] = "await"
           /\ \A i, j \in 1 .. Len(pending') :
                 pending'[i] = pending'[j] /\ pending'[i] # "cache" => i = j
<1>1. pending \in Seq(Threads \cup {"cache"})
  BY DEF BaseInv, TypeInv
<1>2. /\ Len(pending) \in Nat /\ Len(pending) >= 1 /\ Head(pending) = pending[1]
      /\ Len(pending') = Len(pending) - 1
      /\ \A i \in 1 .. Len(pending') : i + 1 \in 1 .. Len(pending) /\ pending'[i] = pending[i + 1]
  BY <1>1
<1>3. \A i \in 1 .. Len(pending) : pending[i] \in Threads \cup {"cache"}
  BY <1>1
<1>4. /\ \A i \in 1 .. Len(pending) : pending[i] # "cache" => pc[pending[i]] = "await"
      /\ \A i, j \in 1 .. Len(pending) :
            pending[i] = pending[j] /\ pending[i] # "cache" => i = j
  BY DEF BaseInv, BarrierInv
<1>5. ASSUME NEW i \in 1 .. Len(pending'), pending'[i] # "cache"
      PROVE  /\ pending'[i] \in Threads /\ pending'[i] # Head(pending)
             /\ pc[pending'[i]] = "await"
  <2>1. i + 1 \in 1 .. Len(pending) /\ pending'[i] = pending[i + 1] /\ 1 \in 1 .. Len(pending)
    BY <1>2
  <2>2. pending[i + 1] # pending[1]
    BY <1>2, <1>4, <1>5, <2>1
  <2>3. QED BY <1>2, <1>3, <1>4, <1>5, <2>1, <2>2
<1>6. ASSUME NEW i \in 1 .. Len(pending'), NEW j \in 1 .. Len(pending'),
             pending'[i] = pending'[j], pending'[i] # "cache"
      PROVE  i = j
  <2>1. i + 1 = j + 1
    BY <1>2, <1>4, <1>6
  <2>2. QED BY <2>1
<1>7. QED BY <1>2, <1>5, <1>6

LEMMA CallControl ==
    ASSUME BaseInv, NEW t \in Threads, LogCall(t) \/ FlushCall(t) \/ CallStep(t)
    PROVE  ControlInv' /\ BarrierInv'
<1> USE DEF Goto, bufVars, strandVars, fileVars, callVars, history
<1>0. /\ pc \in [Threads -> PCs] /\ op \in [Threads -> {"none", "log", "flush1", "flush2"}]
      /\ pending \in Seq(Threads \cup {"cache"}) /\ ControlInv
  BY DEF BaseInv, TypeInv
<1>1. ASSUME state' = state, pc'[t] # "down", pc[t] # "idle" \/ state = "alive",
             \A u \in Threads : u # t => pc'[u] = pc[u] /\ op'[u] = op[u],
             pc'[t] = "idle" <=> op'[t] = "none",
             pc'[t] \in {"push", "need"} => op'[t] = "log",
             pc'[t] \in {"barrier", "await"} => op'[t] \in {"flush1", "flush2"},
             pc'[t] = "again" => op'[t] = "flush1",
             pc'[t] = "done" => op'[t] = "flush2",
             pc'[t] \in {"load", "store", "swap"} => op'[t] \in {"log", "flush2"}
      PROVE  ControlInv'
  <2>1. state # "destroyed"
    BY <1>0, <1>1 DEF ControlInv, Idle
  <2>2. QED BY <1>0, <1>1, <2>1 DEF ControlInv, Idle
<1>2. CASE LogCall(t)
  <2>1. ControlInv'
    BY <1>0, <1>1, <1>2 DEF LogCall, ControlInv
  <2>2. QED BY <1>2, <2>1, ThreadMoves DEF LogCall
<1>3. CASE FlushCall(t)
  <2>1. ControlInv'
    BY <1>0, <1>1, <1>3 DEF FlushCall, ControlInv
  <2>2. QED BY <1>3, <2>1, ThreadMoves DEF FlushCall
<1>4. CASE WriteToCache(t)
  <2>1. state # "dead" => ControlInv'
    BY <1>0, <1>1, <1>4 DEF WriteToCache, ControlInv
  <2>2. QED BY <1>4, <2>1, ThreadMoves DEF WriteToCache, ControlInv
<1>5. CASE NeedWriteToFile(t)
  <2>1. state # "dead" => ControlInv'
    BY <1>0, <1>1, <1>5 DEF NeedWriteToFile, Return, ControlInv
  <2>2. BarrierInv'
    BY <1>5, ThreadMoves DEF NeedWriteToFile, Return
  <2>3. QED BY <1>5, <2>1, <2>2 DEF NeedWriteToFile, ControlInv
<1>6. CASE LoadFree(t)
  <2>1. state # "dead" => ControlInv'
    BY <1>0, <1>1, <1>6 DEF LoadFree, ControlInv
  <2>2. QED BY <1>6, <2>1, ThreadMoves DEF LoadFree, ControlInv
<1>7. CASE StoreBusy(t)
  <2>1. state # "dead" => ControlInv'
    BY <1>0, <1>1, <1>7 DEF StoreBusy, ControlInv
  <2>2. QED BY <1>7, <2>1, ThreadMoves DEF StoreBusy, ControlInv
<1>8. CASE SwapPointers(t)
  <2>1. state # "dead" => ControlInv'
    BY <1>0, <1>1, <1>8 DEF SwapPointers, ControlInv
  <2>2. QED BY <1>8, <2>1, ThreadMoves DEF SwapPointers, ControlInv
<1>9. CASE AsyncCacheToFile(t)
  <2>1. state # "dead" => ControlInv'
    BY <1>0, <1>1, <1>9 DEF AsyncCacheToFile, AfterPost, Return, ControlInv
  <2>2. /\ Len(pending') = Len(pending) + 1 /\ Len(pending) \in Nat
        /\ pending'[Len(pending) + 1] = "cache"
        /\ \A i \in 1 .. Len(pending) : pending'[i] = pending[i]
    BY <1>0, <1>9 DEF AsyncCacheToFile
  <2>3. \A u \in Threads : pc[u] = "await" => pc'[u] = "await"
    BY <1>0, <1>9 DEF AsyncCacheToFile, AfterPost, Return
  <2>4. \A i \in 1 .. Len(pending) : pending[i] # "cache" => pending[i] \in Threads
    BY <1>0
  <2>5. \A i \in 1 .. Len(pending') : pending'[i] # "cache" =>
            i \in 1 .. Len(pending) /\ pending'[i] = pending[i]
    BY <2>2
  <2>6. BarrierInv'
    BY <2>3, <2>4, <2>5 DEF BaseInv, BarrierInv
  <2>7. QED BY <1>9, <2>1, <2>6 DEF AsyncCacheToFile, ControlInv
<1>10. CASE PostBarrier(t)
  <2>1. state # "dead" => ControlInv'
    BY <1>0, <1>1, <1>10 DEF PostBarrier, ControlInv
  <2>2. /\ Len(pending') = Len(pending) + 1 /\ Len(pending) \in Nat
        /\ pending'[Len(pending) + 1] = t
        /\ \A i \in 1 .. Len(pending) : pending'[i] = pending[i]
    BY <1>0, <1>10 DEF PostBarrier
  <2>3. /\ \A u \in Threads : pc[u] = "await" => pc'[u] = "await"
        /\ pc'[t] = "await" /\ pc[t] # "await"
    BY <1>0, <1>10 DEF PostBarrier
  <2>4. \A i \in 1 .. Len(pending) : pending[i] # "cache" =>
            pending[i] \in Threads /\ pending[i] # t
    BY <1>0, <2>3 DEF BaseInv, BarrierInv
  <2>5. \A i \in 1 .. Len(pending') : pending'[i] # "cache" => pc'[pending'[i]] = "await"
    BY <2>2, <2>3, <2>4 DEF BaseInv, BarrierInv
  <2>6. ASSUME NEW i \in 1 .. Len(pending'), NEW j \in 1 .. Len(pending'),
               pending'[i] = pending'[j], pending'[i] # "cache"
        PROVE  i = j
    <3>1. CASE i \in 1 .. Len(pending) /\ j \in 1 .. Len(pending)
      BY <2>2, <2>6, <3>1 DEF BaseInv, BarrierInv
    <3>2. CASE i \notin 1 .. Len(pending) \/ j \notin 1 .. Len(pending)
      <4>1. pending'[i] = t
        BY <2>2, <2>6, <3>2
      <4>2. \A k \in 1 .. Len(pending) : pending'[k] # t
        BY <2>2, <2>4
      <4>3. i \notin 1 .. Len(pending) /\ j \notin 1 .. Len(pending)
        BY <2>6, <4>1, <4>2
      <4>4. QED BY <2>2, <4>3
    <3>3. QED BY <3>1, <3>2
  <2>7. BarrierInv'
    BY <2>5, <2>6 DEF BarrierInv
  <2>8. QED BY <1>10, <2>1, <2>7 DEF PostBarrier, ControlInv
<1>11. CASE SecondHalf(t)
  <2>1. state # "dead" => ControlInv'
    BY <1>0, <1>1, <1>11 DEF SecondHalf, ControlInv
  <2>2. QED BY <1>11, <2>1, ThreadMoves DEF SecondHalf, ControlInv
<1>12. CASE FlushReturn(t)
  <2>1. state # "dead" => ControlInv'
    BY <1>0, <1>1, <1>12 DEF FlushReturn, Return, ControlInv
  <2>2. QED BY <1>12, <2>1, ThreadMoves DEF FlushReturn, Return, ControlInv
<1>13. QED
  BY <1>2, <1>3, <1>4, <1>5, <1>6, <1>7, <1>8, <1>9, <1>10, <1>11, <1>12 DEF CallStep

LEMMA StrandControl ==
    ASSUME BaseInv, StrandStep
    PROVE  ControlInv' /\ BarrierInv'
<1> USE DEF bufVars, strandVars, fileVars, callVars, history
<1>0. pc \in [Threads -> PCs] /\ pending \in Seq(Threads \cup {"cache"})
  BY DEF BaseInv, TypeInv
<1>1. CASE RunCache
  <2>1. pending # <<>> /\ pending' = Tail(pending) /\ pc' = pc
    BY <1>1 DEF RunCache
  <2>2. BarrierInv'
    BY <2>1, TailBarriers DEF BarrierInv
  <2>3. QED BY <1>1, <2>2 DEF RunCache, BaseInv, ControlInv, Idle
<1>2. ASSUME NEW t \in Threads, RunBarrier(t) PROVE ControlInv' /\ BarrierInv'
  <2>1. pending # <<>> /\ pending' = Tail(pending) /\ Head(pending) = t
    BY <1>2 DEF RunBarrier
  <2>2. \A u \in Threads : u # t => pc'[u] = pc[u]
    BY <1>0, <1>2 DEF RunBarrier, Goto
  <2>3. \A i \in 1 .. Len(pending') : pending'[i] # "cache" => pc'[pending'[i]] = "await"
    BY <2>1, <2>2, TailBarriers
  <2>4. BarrierInv'
    BY <2>1, <2>3, TailBarriers DEF BarrierInv
  <2>5. 1 \in 1 .. Len(pending) /\ pending[1] = t
    BY <2>1, TailBarriers
  <2>6. pc[t] = "await"
    BY <2>5 DEF BaseInv, BarrierInv
  <2>7. pc'[t] = IF op[t] = "flush1" THEN "again" ELSE "done"
    BY <1>0, <1>2 DEF RunBarrier, Goto
  <2>8. state # "destroyed"
    BY <2>6 DEF BaseInv, ControlInv, Idle
  <2>9. ControlInv'
    BY <1>2, <2>2, <2>6, <2>7, <2>8 DEF RunBarrier, BaseInv, ControlInv
  <2>10. QED BY <2>4, <2>9
<1>3. CASE Empty \/ ReadSize \/ WriteData \/ ClearSlave \/ FreeSlave
  BY <1>3 DEF Empty, ReadSize, WriteData, ClearSlave, FreeSlave, BaseInv, ControlInv,
              BarrierInv, Idle
<1>4. QED BY <1>1, <1>2, <1>3 DEF StrandStep

LEMMA EndControl ==
    ASSUME BaseInv, Destroy \/ UseAfter \/ Crash
    PROVE  ControlInv' /\ BarrierInv'
<1> USE DEF bufVars, strandVars, fileVars, callVars, history
<1>1. CASE Destroy
  BY <1>1 DEF Destroy, BaseInv, ControlInv, BarrierInv, Idle
<1>2. CASE UseAfter
  BY <1>2 DEF UseAfter, BaseInv, ControlInv, BarrierInv
<1>3. CASE Crash
  BY <1>3 DEF Crash, ControlInv, BarrierInv
<1>4. QED BY <1>1, <1>2, <1>3

LEMMA BaseStep == BaseInv /\ [Next]_vars => BaseInv'
<1> SUFFICES ASSUME BaseInv, [Next]_vars PROVE BaseInv'
  OBVIOUS
<1>1. TypeInv'
  BY TypeStep DEF BaseInv
<1>2. CASE UNCHANGED vars
  BY <1>1, <1>2 DEF vars, strandVars, fileVars, callVars, BaseInv, ControlInv, BarrierInv, Idle
<1>3. CASE Next
  BY <1>1, <1>3, CallControl, StrandControl, EndControl DEF Next, BaseInv
<1>4. QED BY <1>2, <1>3

LEMMA BaseInvariance == Spec => []BaseInv
  BY InitBase, BaseStep, PTL DEF Spec
-----------------------------------------------------------------------------
(* Where the messages are                                                     *)

\* The sink works and no swap has gone wrong.
Good == ~overrun /\ state # "dead"

InBuf(b, m) == \E i \in 1 .. Len(mem[b]) : mem[b][i].msg = m

\* A message that needs no swap any more to get to the file.
Handed(m) == InStream(m) \/ InBuf(slave, m)

\* What CacheToFile_ knows of the slave where it is; a free slave is empty.
SizeInv ==
    Good =>
        /\ xpc = "data" => xcount = Len(mem[slave])
        /\ xpc = "clear" => \A i \in 1 .. Len(mem[slave]) : InStream(mem[slave][i].msg)
        /\ xpc = "free" => mem[slave] = <<>>
        /\ slaveFree => mem[slave] = <<>>

\* Every message that was stored is in one of the buffers or in the file.
Retained ==
    Good => \A i \in 1 .. Len(accepted) : Handed(accepted[i]) \/ InBuf(master, accepted[i])

\* No step takes back what the file or the slave has.
Keeps ==
    /\ \A m \in Msgs : InStream(m) => InStream(m)'
    /\ \A m \in Msgs : Handed(m) => Handed(m)'
    /\ Len(accepted) <= Len(accepted')
    /\ \A i \in 1 .. Len(accepted) : accepted'[i] = accepted[i] /\ accepted[i] \in Msgs

DataInv == SizeInv /\ Retained

LEMMA GoodBefore ==
    ASSUME BaseInv, [Next]_vars, Good'
    PROVE  Good
<1> USE DEF bufVars, strandVars, fileVars, callVars, history, Good
<1>1. ASSUME UNCHANGED <<state, overrun>> PROVE Good
  BY <1>1
<1>2. ASSUME NEW t \in Threads, LogCall(t) \/ FlushCall(t) \/ CallStep(t), ~SwapPointers(t)
      PROVE  Good
  BY <1>1, <1>2 DEF LogCall, FlushCall, CallStep, WriteToCache, NeedWriteToFile, LoadFree,
              StoreBusy, AsyncCacheToFile, PostBarrier, SecondHalf, FlushReturn
<1>3. ASSUME NEW t \in Threads, SwapPointers(t) PROVE Good
  <2>1. state' = state /\ (overrun => overrun')
    BY <1>3, Zenon DEF SwapPointers
  <2>2. QED BY <2>1
<1>4. CASE Empty
  <2>1. state' = state /\ (overrun => overrun')
    BY <1>4, Zenon DEF Empty
  <2>2. QED BY <2>1
<1>5. ASSUME StrandStep, ~Empty PROVE Good
  BY <1>1, <1>5 DEF StrandStep, RunCache, ReadSize, WriteData, ClearSlave, FreeSlave, RunBarrier
<1>6. CASE Destroy \/ UseAfter \/ Crash
  BY <1>6 DEF Destroy, UseAfter, Crash
<1>7. CASE UNCHANGED vars
  BY <1>1, <1>7 DEF vars
<1>8. QED BY <1>2, <1>3, <1>4, <1>5, <1>6, <1>7 DEF Next

\* A step that touches neither the buffers nor the file.
LEMMA QuietData ==
    ASSUME BaseInv, DataInv, Good, UNCHANGED <<mem, master, stream, accepted>>
    PROVE  /\ slave' = slave /\ Keeps /\ Retained'
           /\ UNCHANGED <<xpc, xcount>> /\ (slaveFree' => slaveFree) => SizeInv'
<1>1. slave' = slave
  BY NextSlave DEF BaseInv
<1>2. \A m : InStream(m)' <=> InStream(m)
  BY DEF InStream
<1>3. \A m : /\ InBuf(slave, m)' <=> InBuf(slave, m)
             /\ InBuf(master, m)' <=> InBuf(master, m)
  BY <1>1 DEF InBuf
<1>4. \A m : Handed(m)' <=> Handed(m)
  BY <1>2, <1>3 DEF Handed
<1>5. accepted \in Seq(Msgs)
  BY DEF BaseInv, TypeInv
<1>6. Keeps
  BY <1>2, <1>4, <1>5 DEF Keeps
<1>7. Retained'
  BY <1>3, <1>4 DEF DataInv, Retained
<1>8. ASSUME UNCHANGED <<xpc, xcount>>, slaveFree' => slaveFree PROVE SizeInv'
  BY <1>1, <1>2, <1>8 DEF DataInv, SizeInv
<1>9. QED BY <1>1, <1>6, <1>7, <1>8

LEMMA WriteToCacheData ==
    ASSUME BaseInv, DataInv, Good, NEW t \in Threads, WriteToCache(t)
    PROVE  Keeps /\ DataInv'
<1> USE DEF strandVars, fileVars
<1>1. /\ slave' = slave /\ slave # master /\ slave \in Bufs /\ master \in Bufs
      /\ mem[master] \in Seq(Items) /\ mem \in [Bufs -> Seq(Items)]
  BY Slave, NextSlave DEF WriteToCache, BaseInv, TypeInv
<1>2. msg[t] \in Items /\ msg[t].msg \in Msgs
  BY DEF WriteToCache, BaseInv, TypeInv, Items
<1>3. mem'[slave] = mem[slave] /\ mem'[master] = Append(mem[master], msg[t])
  BY <1>1 DEF WriteToCache
<1>4. /\ Len(mem'[master]) = Len(mem[master]) + 1 /\ Len(mem[master]) \in Nat
      /\ mem'[master][Len(mem[master]) + 1] = msg[t]
      /\ \A i \in 1 .. Len(mem[master]) : mem'[master][i] = mem[master][i]
  BY <1>1, <1>2, <1>3
<1>5. /\ stream' = stream /\ master' = master /\ slaveFree' = slaveFree
      /\ xpc' = xpc /\ xcount' = xcount /\ msg' = msg
  BY DEF WriteToCache
<1>6. \A m : /\ InStream(m)' <=> InStream(m)
             /\ InBuf(slave, m)' <=> InBuf(slave, m)
  BY <1>1, <1>3, <1>5 DEF InStream, InBuf
<1>7. \A m : Handed(m)' <=> Handed(m)
  BY <1>6 DEF Handed
<1>8. \A m : InBuf(master, m) => InBuf(master, m)'
  BY <1>4, <1>5 DEF InBuf
<1>9. InBuf(master, msg[t].msg)'
  <2>1. Len(mem[master]) + 1 \in 1 .. Len(mem'[master])
    BY <1>4
  <2>2. QED BY <1>4, <1>5, <2>1 DEF InBuf
<1>10. /\ accepted \in Seq(Msgs) /\ Len(accepted) \in Nat /\ Len(accepted') = Len(accepted) + 1
       /\ \A i \in 1 .. Len(accepted) : accepted'[i] = accepted[i] /\ accepted[i] \in Msgs
       /\ accepted'[Len(accepted) + 1] = msg[t].msg
  BY <1>2, SMTT(20) DEF WriteToCache, BaseInv, TypeInv
<1>11. Keeps
  BY <1>6, <1>7, <1>10 DEF Keeps
<1>12. ASSUME NEW i \in 1 .. Len(accepted') PROVE (Handed(accepted[i]) \/ InBuf(master, accepted[i]))'
  <2>1. CASE i \in 1 .. Len(accepted)
    BY <1>7, <1>8, <1>10, <2>1 DEF DataInv, Retained
  <2>2. CASE i = Len(accepted) + 1
    BY <1>5, <1>9, <1>10, <2>2
  <2>3. QED BY <1>10, <2>1, <2>2
<1>13. Retained'
  BY <1>12 DEF Retained
<1>14. SizeInv'
  BY <1>1, <1>3, <1>5, <1>6 DEF DataInv, SizeInv
<1>15. QED BY <1>11, <1>13, <1>14 DEF DataInv

\* A swap that goes right hands everything over.
LEMMA SwapData ==
    ASSUME BaseInv, DataInv, Good, Good', NEW t \in Threads, SwapPointers(t)
    PROVE  /\ Keeps /\ DataInv'
           /\ \A i \in 1 .. Len(accepted) : Handed(accepted[i])'
           /\ SlaveAvailable
<1> USE DEF strandVars, fileVars
<1>1. /\ master' = slave /\ slave' = master /\ mem' = mem /\ stream' = stream
      /\ accepted' = accepted /\ xpc' = xpc /\ slaveFree' = slaveFree
  BY NextSlave DEF SwapPointers, BaseInv
<1>2. ~slaveFree /\ mem[slave] = <<>> /\ xpc \in {"idle", "empty"}
  BY DEF SwapPointers, Good, SlaveAvailable
<1>3. \A m : InStream(m)' <=> InStream(m)
  BY <1>1 DEF InStream
<1>4. \A m : ~InBuf(slave, m)
  BY <1>2 DEF InBuf
<1>5. \A m : InBuf(slave, m)' <=> InBuf(master, m)
  BY <1>1 DEF InBuf
<1>6. \A i \in 1 .. Len(accepted) : Handed(accepted[i])'
  BY <1>1, <1>3, <1>4, <1>5 DEF DataInv, Retained, Handed
<1>7. accepted \in Seq(Msgs)
  BY DEF BaseInv, TypeInv
<1>8. Keeps
  BY <1>1, <1>3, <1>4, <1>5, <1>7 DEF Keeps, Handed
<1>9. Retained'
  BY <1>1, <1>6 DEF Retained
<1>10. SizeInv'
  BY <1>1, <1>2 DEF SizeInv
<1>11. QED BY <1>2, <1>6, <1>8, <1>9, <1>10 DEF DataInv, SlaveAvailable

LEMMA WriteDataData ==
    ASSUME BaseInv, DataInv, Good, WriteData
    PROVE  /\ Keeps /\ DataInv'
           /\ \A m : Handed(m) => InStream(m)'
<1> USE DEF bufVars, callVars, history
<1>1. /\ slave' = slave /\ mem[slave] \in Seq(Items) /\ stream \in Seq(Items \cup {Junk})
      /\ accepted \in Seq(Msgs)
  BY Slave, NextSlave DEF WriteData, BaseInv, TypeInv
<1>2. xcount = Len(mem[slave]) /\ xcount \in Nat
  BY DEF DataInv, SizeInv, WriteData, BaseInv, TypeInv
<1>3. Block(slave, xcount) = mem[slave]
  BY <1>2, BlockType DEF BaseInv
<1>4. stream' = stream \o mem[slave]
  BY <1>3 DEF WriteData
<1>5. mem[slave] \in Seq(Items \cup {Junk})
  BY <1>1
<1>6. /\ Len(stream) \in Nat /\ Len(mem[slave]) \in Nat
      /\ Len(stream') = Len(stream) + Len(mem[slave])
      /\ \A i \in 1 .. Len(stream) : stream'[i] = stream[i]
      /\ \A i \in 1 .. Len(mem[slave]) : stream'[Len(stream) + i] = mem[slave][i]
  BY <1>1, <1>4, <1>5, ConcatProperties
<1>7. \A m : InStream(m) => InStream(m)'
  BY <1>6 DEF InStream
<1>9. \A m : InBuf(slave, m) => InStream(m)'
  <2> SUFFICES ASSUME NEW m, NEW i \in 1 .. Len(mem[slave]), mem[slave][i].msg = m
               PROVE  InStream(m)'
    BY DEF InBuf
  <2>1. Len(stream) + i \in 1 .. Len(stream') /\ stream'[Len(stream) + i].msg = m
    BY <1>6
  <2>2. QED BY <2>1 DEF InStream
<1>10. \A m : Handed(m) => InStream(m)'
  BY <1>7, <1>9 DEF Handed
<1>11. /\ mem' = mem /\ master' = master /\ accepted' = accepted /\ slaveFree' = slaveFree
       /\ xpc' = "clear"
  BY DEF WriteData
<1>12. \A m : InBuf(master, m) => InBuf(master, m)'
  BY <1>11 DEF InBuf
<1>13. \A m : Handed(m) => Handed(m)'
  BY <1>10 DEF Handed
<1>14. Keeps
  BY <1>1, <1>7, <1>11, <1>13 DEF Keeps
<1>15. Retained'
  BY <1>11, <1>12, <1>13 DEF DataInv, Retained
<1>16. \A i \in 1 .. Len(mem'[slave']) : InStream(mem[slave][i].msg)'
  <2> SUFFICES ASSUME NEW i \in 1 .. Len(mem[slave])
               PROVE  \E j \in 1 .. Len(stream') : stream'[j].msg = mem'[slave'][i].msg
    BY <1>1, <1>11 DEF InStream
  <2>1. Len(stream) + i \in 1 .. Len(stream') /\ stream'[Len(stream) + i] = mem[slave][i]
    BY <1>6
  <2>2. QED BY <1>1, <1>11, <2>1
<1>17. SizeInv'
  BY <1>1, <1>11, <1>16 DEF DataInv, SizeInv
<1>18. QED BY <1>10, <1>14, <1>15, <1>17 DEF DataInv

LEMMA ClearData ==
    ASSUME BaseInv, DataInv, Good, ClearSlave
    PROVE  Keeps /\ DataInv' /\ mem'[slave'] = <<>>
<1> USE DEF bufVars, fileVars, callVars, history
<1>1. /\ slave' = slave /\ slave \in Bufs /\ slave # master /\ master \in Bufs
      /\ accepted \in Seq(Msgs) /\ mem \in [Bufs -> Seq(Items)]
  BY Slave, NextSlave DEF ClearSlave, BaseInv, TypeInv
<1>2. mem'[slave] = <<>> /\ mem'[master] = mem[master]
  BY <1>1 DEF ClearSlave, Clear
<1>3. /\ stream' = stream /\ master' = master /\ accepted' = accepted /\ slaveFree' = slaveFree
      /\ xpc' = "free"
  BY DEF ClearSlave
<1>4. \A i \in 1 .. Len(mem[slave]) : InStream(mem[slave][i].msg)
  BY DEF DataInv, SizeInv, ClearSlave
<1>5. \A m : InBuf(slave, m) => InStream(m)
  BY <1>4 DEF InBuf
<1>6. \A m : InStream(m) => InStream(m)'
  BY <1>3 DEF InStream
<1>7. \A m : Handed(m) => Handed(m)'
  BY <1>5, <1>6 DEF Handed
<1>8. \A m : InBuf(master, m) => InBuf(master, m)'
  BY <1>2, <1>3 DEF InBuf
<1>9. Keeps
  BY <1>1, <1>3, <1>6, <1>7 DEF Keeps
<1>10. Retained'
  BY <1>3, <1>7, <1>8 DEF DataInv, Retained
<1>11. SizeInv'
  BY <1>1, <1>2, <1>3 DEF SizeInv
<1>12. QED BY <1>1, <1>2, <1>9, <1>10, <1>11 DEF DataInv
LEMMA QuietCalls ==
    ASSUME NEW t \in Threads, LogCall(t) \/ FlushCall(t) \/ CallStep(t) \/ RunBarrier(t),
           ~WriteToCache(t), ~SwapPointers(t)
    PROVE  UNCHANGED <<mem, master, stream, accepted, xpc, xcount>> /\ (slaveFree' => slaveFree)
  BY DEF LogCall, FlushCall, CallStep, NeedWriteToFile, LoadFree, StoreBusy, AsyncCacheToFile,
         PostBarrier, SecondHalf, FlushReturn, RunBarrier,
         bufVars, strandVars, fileVars, callVars, history

LEMMA StrandData ==
    ASSUME BaseInv, DataInv, Good,
           RunCache \/ Empty \/ ReadSize \/ WriteData \/ ClearSlave \/ FreeSlave
    PROVE  Keeps /\ DataInv'
<1> USE DEF bufVars, strandVars, fileVars, callVars, history
<1>1. CASE RunCache \/ Empty \/ ReadSize \/ FreeSlave
  <2>1. UNCHANGED <<mem, master, stream, accepted>>
    BY <1>1 DEF RunCache, Empty, ReadSize, FreeSlave
  <2>2. slave' = slave /\ Keeps /\ Retained'
    BY <2>1, QuietData
  <2>3. SizeInv'
    <3>1. CASE RunCache
      BY <2>1, <2>2, <3>1 DEF RunCache, DataInv, SizeInv
    <3>2. CASE Empty
      BY <2>1, <2>2, <3>2 DEF Empty, DataInv, SizeInv
    <3>3. CASE ReadSize
      BY <2>1, <2>2, <3>3 DEF ReadSize, DataInv, SizeInv
    <3>4. CASE FreeSlave
      BY <2>1, <2>2, <3>4 DEF FreeSlave, DataInv, SizeInv
    <3>5. QED BY <1>1, <3>1, <3>2, <3>3, <3>4
  <2>4. QED BY <2>2, <2>3 DEF DataInv
<1>2. QED BY <1>1, WriteDataData, ClearData

LEMMA DataStep ==
    ASSUME BaseInv, DataInv, [Next]_vars
    PROVE  DataInv' /\ (Good' => Keeps)
<1> SUFFICES ASSUME Good' PROVE DataInv' /\ Keeps
  BY DEF DataInv, SizeInv, Retained
<1>1. Good
  BY GoodBefore
<1>2. ASSUME UNCHANGED <<mem, master, stream, accepted, xpc, xcount>>, slaveFree' => slaveFree
      PROVE  DataInv' /\ Keeps
  BY <1>1, <1>2, QuietData DEF DataInv
<1>3. ASSUME NEW t \in Threads, LogCall(t) \/ FlushCall(t) \/ CallStep(t) \/ RunBarrier(t)
      PROVE  DataInv' /\ Keeps
  BY <1>1, <1>2, <1>3, WriteToCacheData, SwapData, QuietCalls
<1>4. CASE Destroy \/ UNCHANGED vars
  BY <1>2, <1>4 DEF Destroy, vars, bufVars, strandVars, fileVars, history
<1>5. CASE UseAfter \/ Crash
  BY <1>5 DEF UseAfter, Crash, Good
<1>6. QED BY <1>1, <1>3, <1>4, <1>5, StrandData DEF Next, StrandStep

LEMMA InitData == Init => DataInv
<1> SUFFICES ASSUME Init PROVE DataInv
  OBVIOUS
<1>1. \A b \in Bufs : mem[b] = <<>>
  BY DEF Init
<1>2. slave \in Bufs
  BY InitBase, Slave DEF BaseInv
<1>3. QED BY <1>1, <1>2 DEF Init, DataInv, SizeInv, Retained

LEMMA DataInvariance == Spec => [](BaseInv /\ DataInv)
  BY InitBase, BaseStep, InitData, DataStep, PTL DEF Spec

-----------------------------------------------------------------------------
(* The two halves of Flush                                                    *)

\* All messages that were stored when the Flush of t began are in the file, or
\* need no swap any more.
Saved(t) == \A i \in 1 .. promised[t].stored : InStream(accepted[i])
Covered(t) == \A i \in 1 .. promised[t].stored : Handed(accepted[i])

Swapping == \E u \in Threads : pc[u] = "swap"

\* The slave is drained, and the next swap can only go right: it is free to be
\* claimed, or a thread that has claimed it is about to swap.
Calm ==
    /\ mem[slave] = <<>> /\ xpc \in {"idle", "empty"}
    /\ slaveFree \/ Swapping

\* The same when it is claimed: CacheToFile_ cannot run to its end before that.
Claimed == mem[slave] = <<>> /\ xpc \in {"idle", "empty"} /\ ~slaveFree /\ Swapping

\* CacheToFile_ is on the strand, and not behind the barrier of t.
Ahead(t) ==
    \E j \in 1 .. Len(pending) : pending[j] = "cache" /\ \A i \in 1 .. j : pending[i] # t

\* A Flush from its first wait to its end. When the first barrier has run the
\* slave was drained after the Flush began, so that the swap of the second half,
\* or one that another thread is in, hands all messages over; the second
\* CacheToFile_ then writes them.
FirstWait(t) ==
    op[t] = "flush1" /\ pc[t] \in {"barrier", "await"} =>
        Covered(t) \/ Calm \/ Ahead(t) \/ xpc # "idle"
Between(t) ==
    /\ pc[t] = "again" => Covered(t) \/ Calm
    /\ op[t] = "flush2" /\ pc[t] = "load" => Covered(t) \/ Calm
    /\ op[t] = "flush2" /\ pc[t] = "post" => Covered(t) \/ Claimed
LastWait(t) ==
    /\ op[t] = "flush2" /\ pc[t] \in {"barrier", "await"} =>
          \/ Saved(t)
          \/ /\ Ahead(t) \/ xpc \in {"empty", "size", "data"}
             /\ Covered(t) \/ Claimed
    /\ pc[t] = "done" => Saved(t)

FlushInv ==
    /\ Good => \A t \in Threads : FirstWait(t) /\ Between(t) /\ LastWait(t)
    /\ FlushPersists
LEMMA CoveredStays ==
    ASSUME BaseInv, Keeps, NEW t \in Threads, promised'[t] = promised[t]
    PROVE  (Covered(t) => Covered(t)') /\ (Saved(t) => Saved(t)')
<1>1. promised[t].stored \in Nat /\ promised[t].stored <= Len(accepted) /\ Len(accepted) \in Nat
  BY DEF BaseInv, TypeInv
<1>2. \A i \in 1 .. promised[t].stored :
          /\ accepted'[i] = accepted[i]
          /\ InStream(accepted[i]) => InStream(accepted[i])'
          /\ Handed(accepted[i]) => Handed(accepted[i])'
  <2> SUFFICES ASSUME NEW i \in 1 .. promised[t].stored
               PROVE  /\ accepted'[i] = accepted[i]
                      /\ InStream(accepted[i]) => InStream(accepted[i])'
                      /\ Handed(accepted[i]) => Handed(accepted[i])'
    OBVIOUS
  <2>1. i \in 1 .. Len(accepted)
    BY <1>1
  <2>2. accepted'[i] = accepted[i] /\ accepted[i] \in Msgs
    BY <2>1 DEF Keeps
  <2>3. QED BY <2>2 DEF Keeps
<1>3. QED BY <1>2 DEF Covered, Saved

\* With an empty slave what is covered is saved.
LEMMA CoveredIsSaved ==
    ASSUME mem[slave] = <<>>, NEW t \in Threads, Covered(t)
    PROVE  Saved(t)
  BY DEF Covered, Saved, Handed, InBuf

LEMMA SwapCovers ==
    ASSUME BaseInv, DataInv, Good, Good', NEW u \in Threads, SwapPointers(u), NEW t \in Threads
    PROVE  Covered(t)'
<1>1. \A i \in 1 .. Len(accepted) : Handed(accepted[i])'
  BY SwapData
<1>2. promised[t].stored \in Nat /\ promised[t].stored <= Len(accepted) /\ Len(accepted) \in Nat
  BY DEF BaseInv, TypeInv
<1>3. promised' = promised
  BY DEF SwapPointers
<1>4. \A i \in 1 .. promised'[t].stored : Handed(accepted[i])'
  BY <1>1, <1>2, <1>3
<1>5. QED BY <1>4 DEF Covered

\* Only a swap ends the calm.
LEMMA CalmStays ==
    ASSUME BaseInv, DataInv, Good, Good', [Next]_vars, \A u \in Threads : ~SwapPointers(u)
    PROVE  (Calm => Calm') /\ (Claimed => Claimed')
<1> USE DEF Goto, bufVars, strandVars, fileVars, callVars, history
<1>0. pc \in [Threads -> PCs]
  BY DEF BaseInv, TypeInv
<1>1. ASSUME NEW u \in Threads, LogCall(u) \/ FlushCall(u) \/ CallStep(u)
      PROVE  (Calm => Calm') /\ (Claimed => Claimed')
  <2>1. mem'[slave'] = mem[slave]
    <3>1. CASE WriteToCache(u)
      BY <3>1, Slave, NextSlave DEF WriteToCache, BaseInv, TypeInv
    <3>2. CASE ~WriteToCache(u)
      <4>1. mem' = mem /\ master' = master
        BY <1>1, <3>2, QuietCalls
      <4>2. QED BY <4>1, NextSlave DEF BaseInv
    <3>3. QED BY <3>1, <3>2
  <2>2. xpc' = xpc
    BY <1>1 DEF LogCall, FlushCall, CallStep, WriteToCache, NeedWriteToFile, LoadFree, StoreBusy,
              SwapPointers, AsyncCacheToFile, PostBarrier, SecondHalf, FlushReturn
  <2>3. CASE StoreBusy(u)
    <3>1. Swapping' /\ ~slaveFree'
      BY <1>0, <2>3 DEF StoreBusy, Swapping
    <3>2. QED BY <2>1, <2>2, <3>1 DEF Calm, Claimed
  <2>4. CASE ~StoreBusy(u)
    <3>1. slaveFree' = slaveFree
      BY <1>1, <2>4 DEF LogCall, FlushCall, CallStep, WriteToCache, NeedWriteToFile, LoadFree,
              SwapPointers, AsyncCacheToFile, PostBarrier, SecondHalf, FlushReturn
    <3>2. pc[u] # "swap" /\ \A v \in Threads : v # u => pc'[v] = pc[v]
      BY <1>0, <1>1, <2>4 DEF LogCall, FlushCall, CallStep, WriteToCache, NeedWriteToFile, LoadFree,
              AsyncCacheToFile, PostBarrier, SecondHalf, FlushReturn, Return
    <3>3. Swapping => Swapping'
      BY <3>2 DEF Swapping
    <3>4. QED BY <2>1, <2>2, <3>1, <3>3 DEF Calm, Claimed
  <2>5. QED BY <2>3, <2>4
<1>2. ASSUME NEW u \in Threads, RunBarrier(u)
      PROVE  (Calm => Calm') /\ (Claimed => Claimed')
  <2>1. UNCHANGED <<mem, master, xpc, slaveFree>> /\ slave' = slave
    BY <1>2, NextSlave DEF RunBarrier, BaseInv
  <2>2. pending \in Seq(Threads \cup {"cache"}) /\ pending # <<>> /\ Head(pending) = u
    BY <1>2 DEF RunBarrier, BaseInv, TypeInv
  <2>3. pc[u] = "await"
    BY <2>2 DEF BaseInv, BarrierInv
  <2>4. \A v \in Threads : v # u => pc'[v] = pc[v]
    BY <1>0, <1>2 DEF RunBarrier
  <2>5. Swapping => Swapping'
    BY <2>3, <2>4 DEF Swapping
  <2>6. QED BY <2>1, <2>5 DEF Calm, Claimed
<1>3. CASE Empty
  <2>1. mem' = mem /\ slave' = slave /\ pc' = pc
    BY <1>3, NextSlave DEF Empty, BaseInv
  <2>2. mem[slave] = <<>> => slaveFree' /\ xpc' = "idle" /\ ~Swapping
    BY <1>3 DEF Empty, Good, Swapping
  <2>3. QED BY <2>1, <2>2 DEF Calm, Claimed
<1>4. CASE RunCache \/ ReadSize \/ WriteData \/ ClearSlave \/ FreeSlave
  <2>1. CASE RunCache
    <3>1. UNCHANGED <<mem, slaveFree, pc>> /\ slave' = slave /\ xpc' \in {"idle", "empty"}
      BY <2>1, NextSlave DEF RunCache, BaseInv
    <3>2. QED BY <3>1 DEF Calm, Claimed, Swapping
  <2>2. CASE ReadSize \/ WriteData \/ ClearSlave \/ FreeSlave
    BY <2>2 DEF ReadSize, WriteData, ClearSlave, FreeSlave, Calm, Claimed
  <2>3. QED BY <1>4, <2>1, <2>2
<1>5. CASE Destroy \/ UNCHANGED vars
  <2>1. UNCHANGED <<mem, master, xpc, slaveFree, pc>>
    BY <1>5 DEF Destroy, vars
  <2>2. QED BY <2>1, NextSlave DEF BaseInv, Calm, Claimed, Swapping
<1>6. CASE UseAfter \/ Crash
  BY <1>6 DEF UseAfter, Crash, Good
<1>7. QED BY <1>1, <1>2, <1>3, <1>4, <1>5, <1>6 DEF Next, StrandStep

\* A task that is ahead of a barrier stays there until it begins.
LEMMA AheadStays ==
    ASSUME BaseInv, [Next]_vars, Good', ~RunCache, NEW t \in Threads, Ahead(t)
    PROVE  Ahead(t)'
<1> USE DEF bufVars, strandVars, fileVars, callVars, history
<1>0. pending \in Seq(Threads \cup {"cache"}) /\ Len(pending) \in Nat
  BY DEF BaseInv, TypeInv
<1>1. PICK j \in 1 .. Len(pending) : pending[j] = "cache" /\ \A i \in 1 .. j : pending[i] # t
  BY DEF Ahead
<1>2. ASSUME NEW e \in Threads \cup {"cache"}, pending' = Append(pending, e) PROVE Ahead(t)'
  <2>1. /\ j \in 1 .. Len(pending') /\ pending'[j] = "cache"
        /\ \A i \in 1 .. j : pending'[i] # t
    BY <1>0, <1>1, <1>2
  <2>2. QED BY <2>1 DEF Ahead
<1>3. ASSUME NEW u \in Threads, RunBarrier(u) PROVE Ahead(t)'
  <2>1. pending # <<>> /\ Head(pending) = u /\ pending' = Tail(pending)
    BY <1>3 DEF RunBarrier
  <2>2. j # 1
    BY <1>0, <1>1, <2>1
  <2>3. /\ j - 1 \in 1 .. Len(pending') /\ pending'[j - 1] = "cache"
        /\ \A i \in 1 .. j - 1 : pending'[i] # t
    BY <1>0, <1>1, <2>1, <2>2
  <2>4. QED BY <2>3 DEF Ahead
<1>4. ASSUME pending' = pending PROVE Ahead(t)'
  BY <1>4 DEF Ahead
<1>5. ASSUME NEW u \in Threads, LogCall(u) \/ FlushCall(u) \/ CallStep(u) PROVE Ahead(t)'
  <2>1. CASE AsyncCacheToFile(u)
    BY <1>2, <2>1 DEF AsyncCacheToFile
  <2>2. CASE PostBarrier(u)
    BY <1>2, <2>2 DEF PostBarrier
  <2>3. CASE ~AsyncCacheToFile(u) /\ ~PostBarrier(u)
    BY <1>4, <1>5, <2>3 DEF LogCall, FlushCall, CallStep, WriteToCache, NeedWriteToFile, LoadFree,
              StoreBusy, SwapPointers, SecondHalf, FlushReturn
  <2>4. QED BY <2>1, <2>2, <2>3
<1>6. CASE Empty \/ ReadSize \/ WriteData \/ ClearSlave \/ FreeSlave \/ Destroy \/ UNCHANGED vars
  BY <1>4, <1>6 DEF Empty, ReadSize, WriteData, ClearSlave, FreeSlave, Destroy, vars
<1>7. CASE UseAfter \/ Crash
  BY <1>7 DEF UseAfter, Crash, Good
<1>8. QED BY <1>3, <1>5, <1>6, <1>7 DEF Next, StrandStep
\* What a waiting Flush knows, whoever steps: before its barrier has run ...
Drained(t) == Covered(t) \/ Calm \/ Ahead(t) \/ xpc # "idle"
\* ... and, in its second half, before the last one has.
Written(t) ==
    \/ Saved(t)
    \/ /\ Ahead(t) \/ xpc \in {"empty", "size", "data"}
       /\ Covered(t) \/ Claimed

LEMMA HalfStays ==
    ASSUME BaseInv, DataInv, Good, Good', Keeps, [Next]_vars,
           NEW t \in Threads, promised'[t] = promised[t]
    PROVE  /\ Covered(t) \/ Calm => Covered(t)' \/ Calm'
           /\ Covered(t) \/ Claimed => Covered(t)' \/ Claimed'
<1>1. CASE \E u \in Threads : SwapPointers(u)
  BY <1>1, SwapCovers
<1>2. CASE \A u \in Threads : ~SwapPointers(u)
  BY <1>2, CalmStays, CoveredStays
<1>3. QED BY <1>1, <1>2

\* The steps of CacheToFile_ and the others.
LEMMA CacheSteps ==
    ASSUME [Next]_vars, Good'
    PROVE  \/ xpc' = xpc /\ ~RunCache
           \/ RunCache \/ Empty \/ ReadSize \/ WriteData \/ ClearSlave \/ FreeSlave
<1> USE DEF bufVars, strandVars, fileVars, callVars, history
<1>1. ASSUME NEW u \in Threads, LogCall(u) \/ FlushCall(u) \/ CallStep(u) \/ RunBarrier(u)
      PROVE  xpc' = xpc
  BY <1>1 DEF LogCall, FlushCall, CallStep, WriteToCache, NeedWriteToFile, LoadFree, StoreBusy,
              SwapPointers, AsyncCacheToFile, PostBarrier, SecondHalf, FlushReturn, RunBarrier
<1>2. CASE Destroy \/ UNCHANGED vars
  BY <1>2 DEF Destroy, vars
<1>3. CASE UseAfter \/ Crash
  BY <1>3 DEF UseAfter, Crash, Good
<1>4. QED BY <1>1, <1>2, <1>3 DEF Next, StrandStep

LEMMA DrainedStays ==
    ASSUME BaseInv, DataInv, Good, Good', Keeps, [Next]_vars,
           NEW t \in Threads, promised'[t] = promised[t], Drained(t)
    PROVE  Drained(t)'
<1> USE DEF bufVars, strandVars, fileVars, callVars, history
<1>1. CASE Covered(t) \/ Calm
  BY <1>1, HalfStays DEF Drained
<1>2. CASE xpc' # "idle"
  BY <1>2 DEF Drained
<1>3. CASE RunCache /\ xpc' = "idle"
  <2>1. slaveFree /\ mem[slave] = <<>>
    BY <1>3 DEF RunCache, DataInv, SizeInv
  <2>2. UNCHANGED <<mem, slaveFree>> /\ slave' = slave
    BY <1>3, NextSlave DEF RunCache, BaseInv
  <2>3. Calm'
    BY <1>3, <2>1, <2>2 DEF Calm
  <2>4. QED BY <2>3 DEF Drained
<1>4. CASE Empty /\ xpc' = "idle"
  <2>1. mem[slave] = <<>> /\ slaveFree' /\ mem' = mem /\ slave' = slave
    BY <1>4, NextSlave DEF Empty, BaseInv
  <2>2. Calm'
    BY <1>4, <2>1 DEF Calm
  <2>3. QED BY <2>2 DEF Drained
<1>5. CASE FreeSlave /\ xpc' = "idle"
  <2>1. mem[slave] = <<>> /\ slaveFree' /\ mem' = mem /\ slave' = slave
    BY <1>5, NextSlave DEF FreeSlave, BaseInv, DataInv, SizeInv
  <2>2. Calm'
    BY <1>5, <2>1 DEF Calm
  <2>3. QED BY <2>2 DEF Drained
<1>6. CASE (ReadSize \/ WriteData \/ ClearSlave) /\ xpc' = "idle"
  BY <1>6 DEF ReadSize, WriteData, ClearSlave
<1>7. CASE Ahead(t) /\ xpc' = xpc /\ ~RunCache
  BY <1>7, AheadStays DEF Drained
<1>8. QED BY <1>1, <1>2, <1>3, <1>4, <1>5, <1>6, <1>7, CacheSteps DEF Drained

LEMMA WrittenStays ==
    ASSUME BaseInv, DataInv, Good, Good', Keeps, [Next]_vars,
           NEW t \in Threads, promised'[t] = promised[t], Written(t)
    PROVE  Written(t)'
<1> USE DEF bufVars, strandVars, fileVars, callVars, history
<1>1. CASE Saved(t)
  BY <1>1, CoveredStays DEF Written
<1> SUFFICES ASSUME Ahead(t) \/ xpc \in {"empty", "size", "data"}, Covered(t) \/ Claimed
             PROVE  Written(t)'
  BY <1>1 DEF Written
<1>2. Covered(t)' \/ Claimed'
  BY HalfStays
<1>3. CASE RunCache
  <2>1. CASE slaveFree
    <3>1. mem[slave] = <<>> /\ Covered(t)
      BY <2>1 DEF Claimed, DataInv, SizeInv
    <3>2. Saved(t)
      BY <3>1, CoveredIsSaved
    <3>3. QED BY <1>1, <3>2
  <2>2. CASE ~slaveFree
    <3>1. xpc' = "empty"
      BY <1>3, <2>2 DEF RunCache
    <3>2. QED BY <1>2, <3>1 DEF Written
  <2>3. QED BY <2>1, <2>2
<1>4. CASE Empty
  <2>1. CASE mem[slave] = <<>>
    <3>1. ~Swapping
      BY <1>4, <2>1 DEF Empty, Good, Swapping
    <3>2. Covered(t)
      BY <3>1 DEF Claimed
    <3>3. Saved(t)
      BY <2>1, <3>2, CoveredIsSaved
    <3>4. QED BY <1>1, <3>3
  <2>2. CASE mem[slave] # <<>>
    <3>1. xpc' = "size"
      BY <1>4, <2>2 DEF Empty
    <3>2. QED BY <1>2, <3>1 DEF Written
  <2>3. QED BY <2>1, <2>2
<1>5. CASE ReadSize
  <2>1. xpc' = "data"
    BY <1>5 DEF ReadSize
  <2>2. QED BY <1>2, <2>1 DEF Written
<1>6. CASE WriteData
  <2>1. Covered(t)
    BY <1>6 DEF WriteData, Claimed
  <2>2. \A m : Handed(m) => InStream(m)'
    BY <1>6, WriteDataData
  <2>3. promised' = promised /\ accepted' = accepted
    BY <1>6 DEF WriteData
  <2>4. Saved(t)'
    BY <2>1, <2>2, <2>3 DEF Covered, Saved
  <2>5. QED BY <2>4 DEF Written
<1>7. CASE ClearSlave \/ FreeSlave
  <2>1. xpc \in {"clear", "free"} /\ ~RunCache
    BY <1>7 DEF ClearSlave, FreeSlave, RunCache
  <2>2. Ahead(t)'
    BY <2>1, AheadStays
  <2>3. QED BY <1>2, <2>2 DEF Written
<1>8. CASE xpc' = xpc /\ ~RunCache
  <2>1. Ahead(t) => Ahead(t)'
    BY <1>8, AheadStays
  <2>2. QED BY <1>2, <1>8, <2>1 DEF Written
<1>9. QED BY <1>3, <1>4, <1>5, <1>6, <1>7, <1>8, CacheSteps

\* A Flush in which another thread, or none, steps.
LEMMA OtherFlush ==
    ASSUME BaseInv, DataInv, FlushInv, Good, Good', Keeps, [Next]_vars, NEW t \in Threads,
           pc'[t] = pc[t], op'[t] = op[t], promised'[t] = promised[t]
    PROVE  FirstWait(t)' /\ Between(t)' /\ LastWait(t)'
<1>1. FirstWait(t) /\ Between(t) /\ LastWait(t)
  BY DEF FlushInv
<1>2. FirstWait(t)'
  BY <1>1, DrainedStays DEF FirstWait, Drained
<1>3. Between(t)'
  BY <1>1, HalfStays DEF Between
<1>4. LastWait(t)'
  BY <1>1, WrittenStays, CoveredStays DEF LastWait, Written
<1>5. QED BY <1>2, <1>3, <1>4

\* CacheToFile_ is posted by a thread that has no barrier on the strand.
LEMMA PostedAhead ==
    ASSUME BaseInv, NEW t \in Threads, AsyncCacheToFile(t)
    PROVE  Ahead(t)'
<1>1. /\ pending \in Seq(Threads \cup {"cache"}) /\ pending' = Append(pending, "cache")
      /\ pc[t] = "post"
  BY DEF AsyncCacheToFile, BaseInv, TypeInv
<1>2. \A i \in 1 .. Len(pending) : pending[i] # t
  BY <1>1 DEF BaseInv, BarrierInv
<1>3. /\ Len(pending) + 1 \in 1 .. Len(pending') /\ pending'[Len(pending) + 1] = "cache"
      /\ \A i \in 1 .. Len(pending) + 1 : pending'[i] # t
  BY <1>1, <1>2
<1>4. QED BY <1>3 DEF Ahead

\* A Flush that steps itself.
LEMMA OwnFlush ==
    ASSUME BaseInv, DataInv, FlushInv, Good, Good', Keeps, [Next]_vars, NEW t \in Threads,
           LogCall(t) \/ FlushCall(t) \/ CallStep(t) \/ RunBarrier(t)
    PROVE  FirstWait(t)' /\ Between(t)' /\ LastWait(t)'
<1> USE DEF Goto, bufVars, strandVars, fileVars, callVars, history
<1>0. /\ pc \in [Threads -> PCs] /\ op \in [Threads -> {"none", "log", "flush1", "flush2"}]
      /\ pending \in Seq(Threads \cup {"cache"})
  BY DEF BaseInv, TypeInv
<1>1. FirstWait(t) /\ Between(t) /\ LastWait(t)
  BY DEF FlushInv
<1>3. CASE LogCall(t)
  BY <1>0, <1>3 DEF LogCall, FirstWait, Between, LastWait
<1>4. CASE FlushCall(t)
  BY <1>0, <1>4 DEF FlushCall, FirstWait, Between, LastWait
<1>5. CASE WriteToCache(t)
  BY <1>0, <1>5 DEF WriteToCache, FirstWait, Between, LastWait
<1>6. CASE NeedWriteToFile(t)
  <2>1. op[t] = "log"
    BY <1>6 DEF NeedWriteToFile, BaseInv, ControlInv, Good
  <2>2. pc'[t] \in {"load", "idle"} /\ op'[t] \in {"log", "none"}
    BY <1>0, <1>6, <2>1 DEF NeedWriteToFile, Return
  <2>3. QED BY <2>2 DEF FirstWait, Between, LastWait
<1>7. CASE LoadFree(t)
  <2>1. pc[t] = "load" /\ op' = op /\ slaveFree' = slaveFree /\ promised' = promised
    BY <1>7 DEF LoadFree
  <2>2. pc'[t] = IF slaveFree THEN "store" ELSE "post"
    BY <1>0, <1>7 DEF LoadFree
  <2>3. op[t] = "flush2" => Covered(t)' \/ Calm'
    BY <1>1, <2>1, HalfStays DEF Between
  <2>4. Calm' /\ ~slaveFree => Claimed'
    BY <2>1 DEF Calm, Claimed
  <2>5. QED BY <2>1, <2>2, <2>3, <2>4 DEF FirstWait, Between, LastWait
<1>8. CASE StoreBusy(t)
  BY <1>0, <1>8 DEF StoreBusy, FirstWait, Between, LastWait
<1>9. CASE SwapPointers(t)
  <2>1. Covered(t)'
    BY <1>9, SwapCovers
  <2>2. pc'[t] = "post"
    BY <1>0, <1>9 DEF SwapPointers
  <2>3. QED BY <2>1, <2>2 DEF FirstWait, Between, LastWait
<1>10. CASE AsyncCacheToFile(t)
  <2>1. Ahead(t)'
    BY <1>10, PostedAhead
  <2>2. pc[t] = "post" /\ promised' = promised
    BY <1>10 DEF AsyncCacheToFile
  <2>3. op[t] = "flush2" => Covered(t)' \/ Claimed'
    BY <1>1, <2>2, HalfStays DEF Between
  <2>4. \/ pc'[t] = "idle" /\ op'[t] = "none"
        \/ pc'[t] = "barrier" /\ op'[t] = op[t]
    BY <1>0, <1>10 DEF AsyncCacheToFile, AfterPost, Return
  <2>5. QED BY <2>1, <2>3, <2>4 DEF FirstWait, Between, LastWait
<1>11. CASE PostBarrier(t)
  <2>1. pc[t] = "barrier" /\ op' = op /\ promised' = promised /\ pc'[t] = "await"
    BY <1>0, <1>11 DEF PostBarrier
  <2>2. op[t] = "flush1" => Drained(t)'
    BY <1>1, <2>1, DrainedStays DEF FirstWait, Drained
  <2>3. op[t] = "flush2" => Written(t)'
    BY <1>1, <2>1, WrittenStays DEF LastWait, Written
  <2>4. QED BY <2>1, <2>2, <2>3 DEF FirstWait, Between, LastWait, Drained, Written
<1>12. CASE SecondHalf(t)
  <2>1. pc[t] = "again" /\ promised' = promised /\ pc'[t] = "load"
    BY <1>0, <1>12 DEF SecondHalf
  <2>2. Covered(t)' \/ Calm'
    BY <1>1, <2>1, HalfStays DEF Between
  <2>3. QED BY <2>1, <2>2 DEF FirstWait, Between, LastWait
<1>13. CASE FlushReturn(t)
  BY <1>0, <1>13 DEF FlushReturn, Return, FirstWait, Between, LastWait
<1>14. CASE RunBarrier(t)
  <2>1. /\ pending # <<>> /\ Head(pending) = t /\ xpc = "idle" /\ op' = op /\ promised' = promised
        /\ pc'[t] = IF op[t] = "flush1" THEN "again" ELSE "done"
    BY <1>0, <1>14 DEF RunBarrier
  <2>2. pending[1] = t /\ 1 \in 1 .. Len(pending)
    BY <1>0, <2>1
  <2>3. pc[t] = "await"
    BY <2>2 DEF BaseInv, BarrierInv
  <2>4. op[t] \in {"flush1", "flush2"}
    BY <2>3 DEF BaseInv, ControlInv, Good
  <2>5. ~Ahead(t)
    BY <1>0, <2>2 DEF Ahead
  <2>6. op[t] = "flush1" => Covered(t)' \/ Calm'
    BY <1>1, <2>1, <2>3, <2>5, HalfStays DEF FirstWait
  <2>7. op[t] = "flush2" => Saved(t)'
    BY <1>1, <2>1, <2>3, <2>5, CoveredStays DEF LastWait
  <2>8. QED BY <2>1, <2>4, <2>6, <2>7 DEF FirstWait, Between, LastWait
<1>15. QED
  BY <1>3, <1>4, <1>5, <1>6, <1>7, <1>8, <1>9, <1>10, <1>11, <1>12, <1>13, <1>14 DEF CallStep
\* The other threads stay where they are.
LEMMA OthersStay ==
    ASSUME BaseInv, NEW u \in Threads, LogCall(u) \/ FlushCall(u) \/ CallStep(u) \/ RunBarrier(u),
           NEW t \in Threads, t # u
    PROVE  pc'[t] = pc[t] /\ op'[t] = op[t] /\ promised'[t] = promised[t]
  BY DEF BaseInv, TypeInv, LogCall, FlushCall, CallStep, WriteToCache, NeedWriteToFile, LoadFree,
         StoreBusy, SwapPointers, AsyncCacheToFile, AfterPost, PostBarrier, SecondHalf,
         FlushReturn, RunBarrier, Return, Goto, bufVars, strandVars, fileVars, callVars, history

LEMMA NobodyMoves ==
    ASSUME RunCache \/ Empty \/ ReadSize \/ WriteData \/ ClearSlave \/ FreeSlave \/ Destroy
               \/ UNCHANGED vars
    PROVE  UNCHANGED <<pc, op, promised, flushed>>
  BY DEF RunCache, Empty, ReadSize, WriteData, ClearSlave, FreeSlave, Destroy, vars,
         bufVars, strandVars, fileVars, callVars, history

LEMMA PersistsStep ==
    ASSUME BaseInv, FlushInv, Good, Keeps, [Next]_vars
    PROVE  Good' => FlushPersists'
<1> SUFFICES ASSUME Good' PROVE FlushPersists'
  OBVIOUS
<1> USE DEF bufVars, strandVars, fileVars, callVars, history
<1>1. \A i \in 1 .. flushed.stored : InStream(accepted[i])
  BY DEF FlushInv, FlushPersists, Good
<1>2. ASSUME NEW n \in 0 .. Len(accepted), \A i \in 1 .. n : InStream(accepted[i])
      PROVE  \A i \in 1 .. n : InStream(accepted[i])'
  <2> SUFFICES ASSUME NEW i \in 1 .. n PROVE InStream(accepted[i])'
    OBVIOUS
  <2>1. i \in 1 .. Len(accepted)
    BY DEF BaseInv, TypeInv
  <2>2. accepted'[i] = accepted[i] /\ accepted[i] \in Msgs
    BY <2>1 DEF Keeps
  <2>3. InStream(accepted[i])
    BY <1>2
  <2>4. QED BY <2>2, <2>3 DEF Keeps
<1>3. flushed.stored \in 0 .. Len(accepted)
  BY DEF BaseInv, TypeInv
<1>4. CASE flushed' = flushed
  BY <1>1, <1>2, <1>3, <1>4 DEF FlushPersists
<1>5. ASSUME NEW u \in Threads, FlushReturn(u) PROVE FlushPersists'
  <2>1. \A i \in 1 .. promised[u].stored : InStream(accepted[i])
    BY <1>5 DEF FlushReturn, FlushInv, LastWait, Saved
  <2>2. promised[u].stored \in 0 .. Len(accepted)
    BY DEF BaseInv, TypeInv
  <2>3. flushed'.stored = flushed.stored \/ flushed'.stored = promised[u].stored
    BY <1>5 DEF FlushReturn, Larger
  <2>4. QED BY <1>1, <1>2, <1>3, <2>1, <2>2, <2>3 DEF FlushPersists
<1>6. ASSUME NEW u \in Threads, LogCall(u) \/ FlushCall(u) \/ CallStep(u) \/ RunBarrier(u),
             ~FlushReturn(u)
      PROVE  flushed' = flushed
  BY <1>6 DEF LogCall, FlushCall, CallStep, WriteToCache, NeedWriteToFile, LoadFree,
         StoreBusy, SwapPointers, AsyncCacheToFile, PostBarrier, SecondHalf, RunBarrier
<1>7. CASE UseAfter \/ Crash
  BY <1>7 DEF UseAfter, Crash, Good
<1>8. QED BY <1>4, <1>5, <1>6, <1>7, NobodyMoves DEF Next, StrandStep

LEMMA FlushStep ==
    ASSUME BaseInv, DataInv, FlushInv, [Next]_vars
    PROVE  FlushInv'
<1> SUFFICES ASSUME Good' PROVE FlushInv'
  BY DEF FlushInv, FlushPersists, Good
<1>1. Good /\ Keeps
  BY GoodBefore, DataStep
<1>2. FlushPersists'
  BY <1>1, PersistsStep
<1>3. ASSUME NEW u \in Threads, LogCall(u) \/ FlushCall(u) \/ CallStep(u) \/ RunBarrier(u),
             NEW t \in Threads
      PROVE  FirstWait(t)' /\ Between(t)' /\ LastWait(t)'
  <2>1. CASE t = u
    BY <1>1, <1>3, <2>1, OwnFlush
  <2>2. CASE t # u
    BY <1>1, <1>3, <2>2, OthersStay, OtherFlush
  <2>3. QED BY <2>1, <2>2
<1>4. ASSUME RunCache \/ Empty \/ ReadSize \/ WriteData \/ ClearSlave \/ FreeSlave \/ Destroy
                 \/ UNCHANGED vars,
             NEW t \in Threads
      PROVE  FirstWait(t)' /\ Between(t)' /\ LastWait(t)'
  BY <1>1, <1>4, NobodyMoves, OtherFlush
<1>5. ~UseAfter /\ ~Crash
  BY DEF UseAfter, Crash, Good
<1>6. \A t \in Threads : FirstWait(t)' /\ Between(t)' /\ LastWait(t)'
  <2> SUFFICES ASSUME NEW t \in Threads
               PROVE  FirstWait(t)' /\ Between(t)' /\ LastWait(t)'
    OBVIOUS
  <2>1. ASSUME NEW u \in Threads, LogCall(u) \/ FlushCall(u) \/ CallStep(u) \/ RunBarrier(u)
        PROVE  FirstWait(t)' /\ Between(t)' /\ LastWait(t)'
    BY <1>3, <2>1
  <2>2. CASE RunCache \/ Empty \/ ReadSize \/ WriteData \/ ClearSlave \/ FreeSlave \/ Destroy
                 \/ UNCHANGED vars
    BY <1>4, <2>2
  <2>3. QED BY <1>5, <2>1, <2>2 DEF Next, StrandStep
<1>7. QED BY <1>2, <1>6 DEF FlushInv

LEMMA InitFlush == Init => FlushInv
  BY DEF Init, FlushInv, FirstWait, Between, LastWait, FlushPersists

\* What was stored before a Flush that has returned is in the file, with any
\* number of threads that log and flush meanwhile (async_sink.cc).
THEOREM FlushIsDurable == Spec => []FlushPersists
<1>1. FlushInv => FlushPersists
  BY DEF FlushInv
<1>2. Spec => []FlushInv
  BY InitFlush, FlushStep, DataInvariance, PTL DEF Spec
<1>3. QED BY <1>1, <1>2, PTL
-----------------------------------------------------------------------------
(* The end of the sink                                                        *)

Flushing(t) == op[t] \in {"flush1", "flush2"}

\* A Flush covers all messages: one that has returned, or one under way.
Final ==
    \/ flushed.called = next - 1
    \/ \E t \in Threads : Flushing(t) /\ promised[t].called = next - 1

\* A Flush has yet to put its barrier on the strand.
Posting == \E t \in Threads : Flushing(t) /\ pc[t] \in {"post", "barrier"}

\* A barrier is behind every CacheToFile_ on the strand, or will be.
Awaited ==
    /\ \A i \in 1 .. Len(pending) : pending[i] = "cache" =>
          Posting \/ \E j \in i + 1 .. Len(pending) : pending[j] # "cache"
    /\ xpc # "idle" => Posting \/ \E j \in 1 .. Len(pending) : pending[j] # "cache"

\* No call of Log is counted that was not made.
CountInv ==
    /\ \A t \in Threads : op[t] = "log" => next > 1
    /\ flushed.called <= next - 1
    /\ \A t \in Threads : promised[t].called <= next - 1

\* A Flush that covers all messages was called when no Log was under way, and
\* no task has been posted since but by Flushes, which wait for it.
FinalInv == state = "alive" /\ Final => Awaited /\ \A t \in Threads : op[t] # "log"

\* A sink that was destroyed after such a Flush has no task left.
CalmInv ==
    /\ dangling => state = "dead"
    /\ calm => state # "alive" /\ ~dangling
    /\ calm /\ state = "destroyed" => pending = <<>> /\ xpc = "idle"

EndInv == CountInv /\ FinalInv /\ CalmInv

LEMMA InitEnd == Init => EndInv
  BY DEF Init, EndInv, CountInv, FinalInv, CalmInv, Awaited

LEMMA CountStep ==
    ASSUME BaseInv, EndInv, [Next]_vars
    PROVE  CountInv'
<1> USE DEF Goto, bufVars, strandVars, fileVars, callVars, history
<1>0. /\ op \in [Threads -> {"none", "log", "flush1", "flush2"}]
      /\ promised \in [Threads -> [stored : Nat, called : Nat]] /\ next \in Nat /\ next >= 1
      /\ flushed.called \in Nat
  BY DEF BaseInv, TypeInv
<1>1. ASSUME UNCHANGED <<next, promised, flushed>>, \A t \in Threads : op'[t] = "log" => op[t] = "log"
      PROVE  CountInv'
  BY <1>1 DEF EndInv, CountInv
<1>2. ASSUME NEW u \in Threads, LogCall(u) PROVE CountInv'
  <2>1. next' = next + 1 /\ promised' = promised /\ flushed' = flushed
    BY <1>2 DEF LogCall
  <2>2. QED BY <1>0, <2>1 DEF EndInv, CountInv
<1>3. ASSUME NEW u \in Threads, FlushCall(u) PROVE CountInv'
  <2> DEFINE called == IF \E t \in Threads : pc[t] # "idle" /\ op[t] = "log" THEN 0 ELSE next - 1
  <2>1. called <= next - 1
    BY <1>0
  <2>2. promised' = [promised EXCEPT ![u] = [stored |-> Len(accepted), called |-> called]]
    BY <1>3 DEF FlushCall
  <2> HIDE DEF called
  <2>3. \A t \in Threads : promised'[t].called <= next - 1
    BY <1>0, <2>1, <2>2 DEF EndInv, CountInv
  <2>4. \A t \in Threads : op'[t] = "log" => op[t] = "log"
    BY <1>0, <1>3 DEF FlushCall
  <2>5. QED BY <1>3, <2>3, <2>4 DEF FlushCall, EndInv, CountInv
<1>4. ASSUME NEW u \in Threads, FlushReturn(u) PROVE CountInv'
  <2>1. \A t \in Threads : op'[t] = "log" => op[t] = "log"
    BY <1>0, <1>4 DEF FlushReturn, Return
  <2>2. flushed'.called <= next - 1
    BY <1>0, <1>4 DEF FlushReturn, Larger, EndInv, CountInv
  <2>3. \A t \in Threads : promised'[t].called <= next - 1
    BY <1>0, <1>4 DEF FlushReturn, EndInv, CountInv
  <2>4. QED BY <1>4, <2>1, <2>2, <2>3 DEF FlushReturn, EndInv, CountInv
<1>5. ASSUME NEW u \in Threads, CallStep(u) \/ RunBarrier(u), ~FlushReturn(u) PROVE CountInv'
  <2>1. UNCHANGED <<next, promised, flushed>>
    BY <1>5 DEF CallStep, WriteToCache, NeedWriteToFile, LoadFree, StoreBusy, SwapPointers,
                AsyncCacheToFile, PostBarrier, SecondHalf, RunBarrier
  <2>2. \A t \in Threads : op'[t] = "log" => op[t] = "log"
    BY <1>0, <1>5 DEF CallStep, WriteToCache, NeedWriteToFile, LoadFree, StoreBusy, SwapPointers,
                AsyncCacheToFile, PostBarrier, SecondHalf, RunBarrier, Return
  <2>3. QED BY <1>1, <2>1, <2>2
<1>6. CASE RunCache \/ Empty \/ ReadSize \/ WriteData \/ ClearSlave \/ FreeSlave \/ Destroy
               \/ UseAfter \/ Crash \/ UNCHANGED vars
  <2>1. UNCHANGED <<next, promised, flushed, op>>
    BY <1>6 DEF RunCache, Empty, ReadSize, WriteData, ClearSlave, FreeSlave, Destroy, UseAfter,
                Crash, vars
  <2>2. QED BY <1>1, <2>1
<1>7. QED BY <1>2, <1>3, <1>4, <1>5, <1>6 DEF Next, StrandStep

\* A Flush covers all messages only when no Log is under way.
LEMMA FinalBegins ==
    ASSUME BaseInv, EndInv, NEW u \in Threads, FlushCall(u), Final'
    PROVE  \A t \in Threads : op[t] # "log"
<1>0. /\ op \in [Threads -> {"none", "log", "flush1", "flush2"}]
      /\ promised \in [Threads -> [stored : Nat, called : Nat]] /\ next \in Nat /\ next >= 1
  BY DEF BaseInv, TypeInv
<1>1. flushed' = flushed /\ next' = next /\ state = "alive"
  BY DEF FlushCall
<1>2. CASE Final
  BY <1>1, <1>2 DEF EndInv, FinalInv
<1>3. CASE ~Final
  <2>1. PICK t \in Threads : Flushing(t)' /\ promised'[t].called = next - 1
    BY <1>1, <1>3 DEF Final
  <2>2. \A v \in Threads : v # u => op'[v] = op[v] /\ promised'[v] = promised[v]
    BY <1>0 DEF FlushCall
  <2>3. t = u
    BY <1>3, <2>1, <2>2 DEF Final, Flushing
  <2>4. promised'[u].called = IF \E v \in Threads : pc[v] # "idle" /\ op[v] = "log"
                              THEN 0 ELSE next - 1
    BY <1>0 DEF FlushCall
  <2>5. \A v \in Threads : op[v] = "log" => pc[v] # "idle" /\ next > 1
    BY <1>1 DEF BaseInv, ControlInv, EndInv, CountInv
  <2>6. QED BY <1>0, <2>1, <2>3, <2>4, <2>5
<1>4. QED BY <1>2, <1>3

\* Where a Flush covers all messages, one did before: no Log has begun.
LEMMA FinalBefore ==
    ASSUME BaseInv, EndInv, state = "alive", [Next]_vars, Final',
           \A u \in Threads : ~FlushCall(u), \A u \in Threads : ~LogCall(u)
    PROVE  Final
<1> USE DEF Goto, bufVars, strandVars, fileVars, callVars, history
<1>0. /\ op \in [Threads -> {"none", "log", "flush1", "flush2"}] /\ pc \in [Threads -> PCs]
      /\ promised \in [Threads -> [stored : Nat, called : Nat]] /\ next \in Nat /\ next >= 1
      /\ flushed.called \in Nat
  BY DEF BaseInv, TypeInv
<1>1. ASSUME UNCHANGED <<next, promised, flushed>>,
             \A t \in Threads : Flushing(t)' => Flushing(t)
      PROVE  Final
  BY <1>1 DEF Final
<1>2. ASSUME NEW u \in Threads, FlushReturn(u) PROVE Final
  <2>1. Flushing(u)
    BY <1>2 DEF FlushReturn, BaseInv, ControlInv, Flushing
  <2>2. /\ next' = next
        /\ flushed'.called = flushed.called \/ flushed'.called = promised[u].called
        /\ op'[u] = "none"
        /\ \A t \in Threads : t # u => op'[t] = op[t] /\ promised'[t] = promised[t]
    BY <1>0, <1>2 DEF FlushReturn, Larger, Return
  <2>3. QED BY <2>1, <2>2 DEF Final, Flushing
<1>3. ASSUME NEW u \in Threads, CallStep(u) \/ RunBarrier(u), ~FlushReturn(u) PROVE Final
  <2>1. UNCHANGED <<next, promised, flushed>>
    BY <1>3 DEF CallStep, WriteToCache, NeedWriteToFile, LoadFree, StoreBusy, SwapPointers,
                AsyncCacheToFile, PostBarrier, SecondHalf, RunBarrier
  <2>2. SecondHalf(u) => op[u] = "flush1"
    BY DEF SecondHalf, BaseInv, ControlInv
  <2>3. \A t \in Threads : Flushing(t)' => Flushing(t)
    BY <1>0, <1>3, <2>2 DEF CallStep, WriteToCache, NeedWriteToFile, LoadFree, StoreBusy,
                SwapPointers, AsyncCacheToFile, PostBarrier, SecondHalf, RunBarrier, Return, Flushing
  <2>4. QED BY <1>1, <2>1, <2>3
<1>4. CASE RunCache \/ Empty \/ ReadSize \/ WriteData \/ ClearSlave \/ FreeSlave \/ Destroy
               \/ UseAfter \/ Crash \/ UNCHANGED vars
  <2>1. UNCHANGED <<next, promised, flushed, op>>
    BY <1>4 DEF RunCache, Empty, ReadSize, WriteData, ClearSlave, FreeSlave, Destroy, UseAfter,
                Crash, vars
  <2>2. QED BY <1>1, <2>1 DEF Flushing
<1>5. QED BY <1>2, <1>3, <1>4 DEF Next, StrandStep
LEMMA TailAwaited ==
    ASSUME BaseInv, Awaited, xpc = "idle", pending # <<>>, pending' = Tail(pending),
           Posting => Posting', xpc' # "idle" => Head(pending) = "cache"
    PROVE  Awaited'
<1>1. /\ Len(pending) \in Nat /\ Len(pending) >= 1 /\ Head(pending) = pending[1]
      /\ Len(pending') = Len(pending) - 1
      /\ \A i \in 1 .. Len(pending') : i + 1 \in 1 .. Len(pending) /\ pending'[i] = pending[i + 1]
  BY TailBarriers
<1>2. ASSUME NEW i \in 1 .. Len(pending), pending[i] = "cache", ~Posting'
      PROVE  \E j \in i .. Len(pending') : pending'[j] # "cache"
  <2>1. PICK j \in i + 1 .. Len(pending) : pending[j] # "cache"
    BY <1>2 DEF Awaited
  <2>2. j - 1 \in i .. Len(pending') /\ pending'[j - 1] = pending[j]
    BY <1>1, <2>1
  <2>3. QED BY <2>1, <2>2
<1>3. ASSUME NEW i \in 1 .. Len(pending'), pending'[i] = "cache", ~Posting'
      PROVE  \E j \in i + 1 .. Len(pending') : pending'[j] # "cache"
  BY <1>1, <1>2, <1>3
<1>4. ASSUME xpc' # "idle", ~Posting'
      PROVE  \E j \in 1 .. Len(pending') : pending'[j] # "cache"
  BY <1>1, <1>2, <1>4
<1>5. QED BY <1>3, <1>4 DEF Awaited

LEMMA AwaitedStays ==
    ASSUME BaseInv, Awaited, state = "alive", [Next]_vars, \A t \in Threads : op[t] # "log",
           \A u \in Threads : ~LogCall(u)
    PROVE  Awaited' /\ \A t \in Threads : op'[t] # "log"
<1> USE DEF Goto, bufVars, strandVars, fileVars, callVars, history
<1>0. /\ op \in [Threads -> {"none", "log", "flush1", "flush2"}] /\ pc \in [Threads -> PCs]
      /\ pending \in Seq(Threads \cup {"cache"}) /\ Len(pending) \in Nat
  BY DEF BaseInv, TypeInv
<1>1. ASSUME pending' = pending, Posting => Posting', xpc' # "idle" => xpc # "idle"
      PROVE  Awaited'
  BY <1>1 DEF Awaited
<1>2. ASSUME NEW u \in Threads, FlushCall(u) \/ CallStep(u)
      PROVE  Awaited' /\ \A t \in Threads : op'[t] # "log"
  <2>1. \A t \in Threads : op'[t] # "log"
    BY <1>0, <1>2 DEF FlushCall, CallStep, WriteToCache, NeedWriteToFile, LoadFree, StoreBusy,
              SwapPointers, AsyncCacheToFile, PostBarrier, SecondHalf, FlushReturn, Return
  <2>2. CASE AsyncCacheToFile(u)
    <3>1. pc[u] = "post" /\ op[u] \in {"flush1", "flush2"}
      BY <1>0, <2>2 DEF AsyncCacheToFile, BaseInv, ControlInv
    <3>2. pc'[u] = "barrier" /\ op'[u] = op[u]
      BY <1>0, <2>2, <3>1 DEF AsyncCacheToFile, AfterPost
    <3>3. Posting'
      BY <3>1, <3>2 DEF Posting, Flushing
    <3>4. QED BY <2>1, <3>3 DEF Awaited
  <2>3. CASE PostBarrier(u)
    <3>1. pending' = Append(pending, u) /\ u # "cache"
      BY <2>3 DEF PostBarrier
    <3>2. /\ Len(pending') = Len(pending) + 1 /\ pending'[Len(pending) + 1] = u
          /\ \A i \in 1 .. Len(pending) : pending'[i] = pending[i]
      BY <1>0, <3>1
    <3>3. ASSUME NEW i \in 1 .. Len(pending'), pending'[i] = "cache"
          PROVE  \E j \in i + 1 .. Len(pending') : pending'[j] # "cache"
      <4>1. Len(pending) + 1 \in i + 1 .. Len(pending')
        BY <1>0, <3>1, <3>2, <3>3
      <4>2. QED BY <3>1, <3>2, <4>1
    <3>4. \E j \in 1 .. Len(pending') : pending'[j] # "cache"
      BY <1>0, <3>1, <3>2
    <3>5. QED BY <2>1, <3>3, <3>4 DEF Awaited
  <2>4. CASE ~AsyncCacheToFile(u) /\ ~PostBarrier(u)
    <3>1. /\ pending' = pending /\ xpc' = xpc /\ pc[u] \notin {"post", "barrier"}
          /\ \A v \in Threads : v # u => pc'[v] = pc[v] /\ op'[v] = op[v]
      BY <1>0, <1>2, <2>4 DEF FlushCall, CallStep, WriteToCache, NeedWriteToFile, LoadFree,
              StoreBusy, SwapPointers, SecondHalf, FlushReturn, Return
    <3>2. Posting => Posting'
      BY <3>1 DEF Posting, Flushing
    <3>3. QED BY <1>1, <2>1, <3>1, <3>2
  <2>5. QED BY <2>2, <2>3, <2>4
<1>3. ASSUME NEW u \in Threads, RunBarrier(u)
      PROVE  Awaited' /\ \A t \in Threads : op'[t] # "log"
  <2>1. /\ pending # <<>> /\ Head(pending) = u /\ pending' = Tail(pending)
        /\ xpc = "idle" /\ xpc' = "idle" /\ op' = op
    BY <1>3 DEF RunBarrier
  <2>2. pending[1] = u /\ 1 \in 1 .. Len(pending)
    BY <1>0, <2>1
  <2>3. pc[u] = "await" /\ \A v \in Threads : v # u => pc'[v] = pc[v]
    BY <1>0, <1>3, <2>2 DEF RunBarrier, BaseInv, BarrierInv
  <2>4. Posting => Posting'
    BY <2>1, <2>3 DEF Posting, Flushing
  <2>5. QED BY <2>1, <2>4, TailAwaited
<1>4. CASE RunCache
  <2>1. /\ pending # <<>> /\ Head(pending) = "cache" /\ pending' = Tail(pending)
        /\ xpc = "idle" /\ op' = op /\ pc' = pc
    BY <1>4 DEF RunCache
  <2>2. Posting => Posting'
    BY <2>1 DEF Posting, Flushing
  <2>3. QED BY <2>1, <2>2, TailAwaited
<1>5. CASE Empty \/ ReadSize \/ WriteData \/ ClearSlave \/ FreeSlave \/ Destroy \/ UNCHANGED vars
  <2>1. UNCHANGED <<pending, pc, op>> /\ (xpc' # "idle" => xpc # "idle")
    BY <1>5 DEF Empty, ReadSize, WriteData, ClearSlave, FreeSlave, Destroy, vars
  <2>2. QED BY <1>1, <2>1 DEF Posting, Flushing
<1>6. CASE UseAfter
  BY <1>6 DEF UseAfter
<1>7. CASE Crash
  BY <1>7 DEF Crash, Awaited
<1>8. QED BY <1>2, <1>3, <1>4, <1>5, <1>6, <1>7 DEF Next, StrandStep

LEMMA FinalStep ==
    ASSUME BaseInv, EndInv, [Next]_vars
    PROVE  FinalInv'
<1> SUFFICES ASSUME state' = "alive", Final' PROVE Awaited' /\ \A t \in Threads : op'[t] # "log"
  BY DEF FinalInv
<1>0. /\ op \in [Threads -> {"none", "log", "flush1", "flush2"}] /\ pc \in [Threads -> PCs]
      /\ promised \in [Threads -> [stored : Nat, called : Nat]] /\ next \in Nat /\ next >= 1
      /\ flushed.called \in Nat
  BY DEF BaseInv, TypeInv
<1>1. state = "alive"
  BY DEF Next, LogCall, FlushCall, CallStep, WriteToCache, NeedWriteToFile, LoadFree, StoreBusy,
         SwapPointers, AsyncCacheToFile, PostBarrier, SecondHalf, FlushReturn,
         StrandStep, RunCache, Empty, ReadSize, WriteData, ClearSlave, FreeSlave, RunBarrier,
         Destroy, UseAfter, Crash, vars
<1>2. ASSUME NEW u \in Threads, LogCall(u) PROVE FALSE
  <2>1. /\ next' = next + 1 /\ promised' = promised /\ flushed' = flushed
    BY <1>2 DEF LogCall
  <2>2. PICK n \in Nat : n <= next - 1 /\ n = next' - 1
    BY <1>0, <2>1 DEF Final, EndInv, CountInv
  <2>3. QED BY <1>0, <2>1, <2>2
<1>3. ASSUME NEW u \in Threads, FlushCall(u)
      PROVE  Awaited' /\ \A t \in Threads : op'[t] # "log"
  <2>1. \A t \in Threads : op[t] # "log"
    BY <1>3, FinalBegins
  <2>2. \A t \in Threads : op'[t] # "log"
    BY <1>0, <1>3, <2>1 DEF FlushCall
  <2>3. pc'[u] = "post" /\ op'[u] = "flush1"
    BY <1>0, <1>3 DEF FlushCall, Goto
  <2>4. Posting'
    BY <2>3 DEF Posting, Flushing
  <2>5. QED BY <2>2, <2>4 DEF Awaited
<1>4. CASE \A u \in Threads : ~FlushCall(u)
  <2>1. Final
    BY <1>1, <1>2, <1>4, FinalBefore
  <2>2. Awaited /\ \A t \in Threads : op[t] # "log"
    BY <1>1, <2>1 DEF EndInv, FinalInv
  <2>3. QED BY <1>1, <1>2, <2>2, AwaitedStays
<1>5. QED BY <1>3, <1>4

\* When nobody is in the sink and all tasks are awaited, none is left.
LEMMA NothingLeft ==
    ASSUME BaseInv, Idle, Awaited
    PROVE  pending = <<>> /\ xpc = "idle"
<1>0. pending \in Seq(Threads \cup {"cache"}) /\ Len(pending) \in Nat
  BY DEF BaseInv, TypeInv
<1>1. ~Posting
  BY DEF Posting, Idle
<1>2. \A i \in 1 .. Len(pending) : pending[i] = "cache"
  BY <1>0 DEF BaseInv, BarrierInv, Idle
<1>3. xpc = "idle"
  BY <1>1, <1>2 DEF Awaited
<1>4. ASSUME Len(pending) >= 1 PROVE FALSE
  <2>1. 1 \in 1 .. Len(pending)
    BY <1>0, <1>4
  <2>2. PICK j \in 2 .. Len(pending) : pending[j] # "cache"
    BY <1>1, <1>2, <2>1 DEF Awaited
  <2>3. j \in 1 .. Len(pending)
    BY <1>0
  <2>4. QED BY <1>2, <2>2, <2>3
<1>5. pending = <<>>
  BY <1>0, <1>4
<1>6. QED BY <1>3, <1>5

LEMMA CalmStep ==
    ASSUME BaseInv, EndInv, [Next]_vars
    PROVE  CalmInv'
<1> USE DEF bufVars, strandVars, fileVars, callVars, history
<1>1. ASSUME UNCHANGED <<calm, dangling, state>>, state = "alive" PROVE CalmInv'
  BY <1>1 DEF EndInv, CalmInv
<1>2. ASSUME NEW u \in Threads, LogCall(u) \/ FlushCall(u) \/ CallStep(u) PROVE CalmInv'
  <2>1. UNCHANGED <<calm, dangling, state>>
    BY <1>2 DEF LogCall, FlushCall, CallStep, WriteToCache, NeedWriteToFile, LoadFree, StoreBusy,
         SwapPointers, AsyncCacheToFile, PostBarrier, SecondHalf, FlushReturn
  <2>2. CASE state = "destroyed"
    <3>1. pc[u] = "idle" /\ state # "alive"
      BY <2>2 DEF BaseInv, ControlInv, Idle
    <3>2. FALSE
      BY <1>2, <3>1 DEF LogCall, FlushCall, CallStep, WriteToCache, NeedWriteToFile, LoadFree,
         StoreBusy, SwapPointers, AsyncCacheToFile, PostBarrier, SecondHalf, FlushReturn
    <3>3. QED BY <3>2
  <2>3. CASE state # "destroyed"
    BY <2>1, <2>3 DEF EndInv, CalmInv
  <2>4. QED BY <2>2, <2>3
<1>3. ASSUME NEW u \in Threads, RunBarrier(u) PROVE CalmInv'
  <2>1. UNCHANGED <<calm, dangling, state>> /\ pending # <<>>
    BY <1>3 DEF RunBarrier
  <2>2. QED BY <2>1 DEF EndInv, CalmInv
<1>4. CASE RunCache \/ Empty \/ ReadSize \/ WriteData \/ ClearSlave \/ FreeSlave
  BY <1>1, <1>4 DEF RunCache, Empty, ReadSize, WriteData, ClearSlave, FreeSlave
<1>5. CASE Destroy
  <2>1. /\ state = "alive" /\ state' = "destroyed" /\ pending' = pending /\ xpc' = xpc
        /\ dangling' = dangling /\ Idle
    BY <1>5 DEF Destroy
  <2>0. ~dangling
    BY <2>1 DEF EndInv, CalmInv
  <2>2. CASE calm'
    <3>1. Final
      BY <1>5, <2>2 DEF Destroy, Final
    <3>2. Awaited
      BY <2>1, <3>1 DEF EndInv, FinalInv
    <3>3. pending = <<>> /\ xpc = "idle"
      BY <2>1, <3>2, NothingLeft
    <3>4. QED BY <2>1, <2>2, <2>0, <3>3 DEF CalmInv
  <2>3. CASE ~calm'
    BY <2>1, <2>3, <2>0 DEF CalmInv
  <2>4. QED BY <2>2, <2>3
<1>6. CASE UseAfter
  BY <1>6 DEF UseAfter, EndInv, CalmInv
<1>7. CASE Crash
  BY <1>7 DEF Crash, EndInv, CalmInv
<1>8. CASE UNCHANGED vars
  BY <1>8 DEF vars, EndInv, CalmInv
<1>9. QED BY <1>2, <1>3, <1>4, <1>5, <1>6, <1>7, <1>8 DEF Next, StrandStep

\* An owner whose last call is a Flush that covers every Log may destroy the
\* sink: no task uses it after that (~AsyncSink does not wait for the strand).
THEOREM FlushedThenSafe == Spec => []SafeDestroy
<1>1. BaseInv /\ EndInv /\ [Next]_vars => EndInv'
  BY CountStep, FinalStep, CalmStep DEF EndInv
<1>2. Spec => []EndInv
  BY <1>1, InitEnd, BaseInvariance, PTL DEF Spec
<1>3. EndInv => SafeDestroy
  BY DEF EndInv, CalmInv, SafeDestroy
<1>4. QED BY <1>2, <1>3, PTL
-----------------------------------------------------------------------------
(* The sink as a store of messages                                            *)

MsgsOf(S) == {x.msg : x \in S}

LEMMA MsgOfType ==
    ASSUME NEW S, NEW s \in Seq(S)
    PROVE  /\ MsgOf(s) \in Seq(MsgsOf(S)) /\ Len(MsgOf(s)) = Len(s) /\ Len(s) \in Nat
           /\ \A i \in 1 .. Len(s) : MsgOf(s)[i] = s[i].msg
<1>1. Len(s) \in Nat /\ \A i \in 1 .. Len(s) : s[i].msg \in MsgsOf(S)
  BY DEF MsgsOf
<1>2. QED BY <1>1 DEF MsgOf

LEMMA MsgOfAppend ==
    ASSUME NEW S, NEW s \in Seq(S), NEW e \in S
    PROVE  MsgOf(Append(s, e)) = Append(MsgOf(s), e.msg)
<1>1. /\ Append(s, e) \in Seq(S) /\ Len(Append(s, e)) = Len(s) + 1 /\ Len(s) \in Nat
      /\ \A i \in 1 .. Len(s) + 1 : Append(s, e)[i] = IF i = Len(s) + 1 THEN e ELSE s[i]
  OBVIOUS
<1>2. e.msg \in MsgsOf(S)
  BY DEF MsgsOf
<1> DEFINE a == MsgOf(Append(s, e))
           b == Append(MsgOf(s), e.msg)
<1>3. /\ a \in Seq(MsgsOf(S)) /\ Len(a) = Len(s) + 1
      /\ \A i \in 1 .. Len(s) + 1 : a[i] = Append(s, e)[i].msg
  BY <1>1, MsgOfType
<1>4. MsgOf(s) \in Seq(MsgsOf(S)) /\ Len(MsgOf(s)) = Len(s) /\ \A i \in 1 .. Len(s) : MsgOf(s)[i] = s[i].msg
  BY MsgOfType
<1>5. /\ b \in Seq(MsgsOf(S)) /\ Len(b) = Len(s) + 1
      /\ \A i \in 1 .. Len(s) + 1 : b[i] = IF i = Len(s) + 1 THEN e.msg ELSE MsgOf(s)[i]
  BY <1>1, <1>2, <1>4
<1>6. \A i \in 1 .. Len(s) + 1 : a[i] = b[i]
  BY <1>1, <1>3, <1>4, <1>5
<1>7. QED BY <1>3, <1>5, <1>6, SeqEqual

LEMMA MsgOfConcat ==
    ASSUME NEW S, NEW s \in Seq(S), NEW r \in Seq(S)
    PROVE  MsgOf(s \o r) = MsgOf(s) \o MsgOf(r)
<1> DEFINE u == MsgOf(s)
           v == MsgOf(r)
           a == MsgOf(s \o r)
<1>1. /\ s \o r \in Seq(S) /\ Len(s \o r) = Len(s) + Len(r) /\ Len(s) \in Nat /\ Len(r) \in Nat
      /\ \A i \in 1 .. Len(s) + Len(r) :
            (s \o r)[i] = IF i <= Len(s) THEN s[i] ELSE r[i - Len(s)]
  BY ConcatProperties
<1>2. /\ a \in Seq(MsgsOf(S)) /\ Len(a) = Len(s) + Len(r)
      /\ \A i \in 1 .. Len(s) + Len(r) : a[i] = (s \o r)[i].msg
  BY <1>1, MsgOfType
<1>3. /\ u \in Seq(MsgsOf(S)) /\ Len(u) = Len(s)
      /\ v \in Seq(MsgsOf(S)) /\ Len(v) = Len(r)
      /\ \A i \in 1 .. Len(s) : u[i] = s[i].msg
      /\ \A i \in 1 .. Len(r) : v[i] = r[i].msg
  BY MsgOfType
<1> HIDE DEF a, u, v
<1>8. /\ u \o v \in Seq(MsgsOf(S)) /\ Len(u \o v) = Len(u) + Len(v)
      /\ \A i \in 1 .. Len(u) + Len(v) : (u \o v)[i] = IF i <= Len(u) THEN u[i] ELSE v[i - Len(u)]
  <2>1. u \in Seq(MsgsOf(S)) /\ v \in Seq(MsgsOf(S))
    BY <1>3
  <2>2. QED BY <2>1, ConcatProperties
<1>4. /\ u \o v \in Seq(MsgsOf(S)) /\ Len(u \o v) = Len(s) + Len(r)
      /\ \A i \in 1 .. Len(s) + Len(r) : (u \o v)[i] = IF i <= Len(s) THEN u[i] ELSE v[i - Len(s)]
  BY <1>3, <1>8
<1>5. ASSUME NEW i \in 1 .. Len(s) + Len(r) PROVE a[i] = (u \o v)[i]
  <2>1. CASE i <= Len(s)
    BY <1>1, <1>2, <1>3, <1>4, <2>1
  <2>2. CASE i > Len(s)
    <3>1. i - Len(s) \in 1 .. Len(r)
      BY <1>1, <2>2
    <3>2. PICK k \in 1 .. Len(r) : k = i - Len(s)
      BY <3>1
    <3>3. a[i] = r[k].msg
      BY <1>1, <1>2, <2>2, <3>2
    <3>4. (u \o v)[i] = v[k]
      BY <1>1, <1>4, <2>2, <3>2
    <3>5. v[k] = r[k].msg
      BY <1>3
    <3>6. QED BY <3>3, <3>4, <3>5
  <2>3. i <= Len(s) \/ i > Len(s)
    BY <1>1
  <2>4. QED BY <2>1, <2>2, <2>3, Zenon
<1>6. a = u \o v
  BY <1>2, <1>4, <1>5, SeqEqual
<1>7. QED BY <1>6 DEF a, u, v

LEMMA MsgOfPrefix ==
    ASSUME NEW S, NEW s \in Seq(S), NEW k \in 0 .. Len(s)
    PROVE  MsgOf(SubSeq(s, 1, k)) = SubSeq(MsgOf(s), 1, k)
<1>1. /\ SubSeq(s, 1, k) \in Seq(S) /\ Len(SubSeq(s, 1, k)) = k
      /\ \A i \in 1 .. k : SubSeq(s, 1, k)[i] = s[i] /\ i \in 1 .. Len(s)
  OBVIOUS
<1>2. /\ MsgOf(s) \in Seq(MsgsOf(S)) /\ Len(MsgOf(s)) = Len(s)
      /\ \A i \in 1 .. Len(s) : MsgOf(s)[i] = s[i].msg
  BY MsgOfType
<1>3. /\ SubSeq(MsgOf(s), 1, k) \in Seq(MsgsOf(S)) /\ Len(SubSeq(MsgOf(s), 1, k)) = k
      /\ \A i \in 1 .. k : SubSeq(MsgOf(s), 1, k)[i] = MsgOf(s)[i]
  BY <1>2
<1>4. /\ MsgOf(SubSeq(s, 1, k)) \in Seq(MsgsOf(S)) /\ Len(MsgOf(SubSeq(s, 1, k))) = k
      /\ \A i \in 1 .. k : MsgOf(SubSeq(s, 1, k))[i] = SubSeq(s, 1, k)[i].msg
  BY <1>1, MsgOfType
<1>5. \A i \in 1 .. k : MsgOf(SubSeq(s, 1, k))[i] = SubSeq(MsgOf(s), 1, k)[i]
  BY <1>1, <1>2, <1>3, <1>4
<1>6. QED BY <1>3, <1>4, <1>5, SeqEqual

\* A concatenation falls apart into its parts.
LEMMA Parts ==
    ASSUME NEW S, NEW s \in Seq(S), NEW r \in Seq(S)
    PROVE  /\ Len(s) \in 0 .. Len(s \o r)
           /\ SubSeq(s \o r, 1, Len(s)) = s
           /\ SubSeq(s \o r, Len(s) + 1, Len(s \o r)) = r
<1>1. /\ s \o r \in Seq(S) /\ Len(s \o r) = Len(s) + Len(r) /\ Len(s) \in Nat /\ Len(r) \in Nat
      /\ \A i \in 1 .. Len(s) : (s \o r)[i] = s[i]
      /\ \A i \in 1 .. Len(r) : (s \o r)[Len(s) + i] = r[i]
  BY ConcatProperties
<1> DEFINE c == s \o r
<1> HIDE DEF c
<1>2. /\ c \in Seq(S) /\ Len(c) = Len(s) + Len(r)
      /\ \A i \in 1 .. Len(s) : c[i] = s[i]
      /\ \A i \in 1 .. Len(r) : c[Len(s) + i] = r[i]
  BY <1>1 DEF c
<1>3. SubSeq(c, 1, Len(s)) = s
  <2>1. /\ SubSeq(c, 1, Len(s)) \in Seq(S) /\ Len(SubSeq(c, 1, Len(s))) = Len(s)
        /\ \A i \in 1 .. Len(s) : SubSeq(c, 1, Len(s))[i] = c[i]
    BY <1>1, <1>2
  <2>2. QED BY <1>2, <2>1, SeqEqual
<1>4. SubSeq(c, Len(s) + 1, Len(c)) = r
  <2>1. /\ SubSeq(c, Len(s) + 1, Len(c)) \in Seq(S)
        /\ Len(SubSeq(c, Len(s) + 1, Len(c))) = Len(r)
        /\ \A i \in 1 .. Len(r) : SubSeq(c, Len(s) + 1, Len(c))[i] = c[Len(s) + i]
    BY <1>1, <1>2, SubSeqProperties
  <2>2. QED BY <1>2, <2>1, SeqEqual
<1>5. QED BY <1>1, <1>3, <1>4 DEF c
Buffered == MsgOf(Unwritten \o mem[master])

\* What the store is of a state in which the parts are the same.
LEMMA SameStore ==
    ASSUME UNCHANGED <<stream, saved>>, Unwritten' \o mem'[master'] = Unwritten \o mem[master]
    PROVE  UNCHANGED Store!svars
  BY DEF Store!svars, MsgOf

LEMMA AcceptStep ==
    ASSUME BaseInv, NEW t \in Threads, WriteToCache(t)
    PROVE  Store!SAccept
<1> USE DEF strandVars, fileVars
<1>1. /\ slave' = slave /\ slave # master /\ slave \in Bufs /\ master \in Bufs
      /\ mem[master] \in Seq(Items) /\ mem[slave] \in Seq(Items) /\ mem \in [Bufs -> Seq(Items)]
  BY Slave, NextSlave DEF WriteToCache, BaseInv, TypeInv
<1>2. msg[t] \in Items /\ msg[t].msg \in Msgs
  BY DEF WriteToCache, BaseInv, TypeInv, Items
<1>3. mem'[slave'] = mem[slave] /\ mem'[master'] = Append(mem[master], msg[t])
  BY <1>1 DEF WriteToCache
<1>4. xpc' = xpc /\ stream' = stream /\ saved' = saved
  BY DEF WriteToCache
<1>5. Unwritten' = Unwritten /\ Unwritten \in Seq(Items)
  BY <1>1, <1>3, <1>4 DEF Unwritten
<1>6. Unwritten \o Append(mem[master], msg[t]) = Append(Unwritten \o mem[master], msg[t])
  <2>1. /\ Append(mem[master], msg[t]) = mem[master] \o <<msg[t]>>
        /\ Append(Unwritten \o mem[master], msg[t]) = (Unwritten \o mem[master]) \o <<msg[t]>>
        /\ <<msg[t]>> \in Seq(Items)
    BY <1>1, <1>2, <1>5, AppendIsConcat
  <2>2. QED BY <1>1, <1>5, <2>1, ConcatAssociative
<1>7. Unwritten \o mem[master] \in Seq(Items)
  BY <1>1, <1>5
<1>8. Buffered' = Append(Buffered, msg[t].msg)
  <2>1. Unwritten' \o mem'[master'] = Append(Unwritten \o mem[master], msg[t])
    BY <1>3, <1>5, <1>6
  <2>2. Buffered' = MsgOf(Append(Unwritten \o mem[master], msg[t]))
    BY <2>1 DEF Buffered, MsgOf
  <2>3. QED BY <1>2, <1>7, <2>2, MsgOfAppend DEF Buffered
<1>9. MsgOf(stream)' = MsgOf(stream)
  BY <1>4 DEF MsgOf
<1>10. QED BY <1>2, <1>4, <1>8, <1>9 DEF Store!SAccept, Buffered

LEMMA WriteStep ==
    ASSUME BaseInv, DataInv, Good, WriteData
    PROVE  Store!SWrite
<1> USE DEF bufVars, callVars, history
<1>1. /\ slave' = slave /\ mem[slave] \in Seq(Items) /\ mem[master] \in Seq(Items)
      /\ stream \in Seq(Items \cup {Junk}) /\ saved \in 0 .. Len(stream)
  BY Slave, NextSlave DEF WriteData, BaseInv, TypeInv
<1>2. xcount = Len(mem[slave]) /\ xcount \in Nat
  BY DEF DataInv, SizeInv, WriteData, BaseInv, TypeInv
<1>3. Block(slave, xcount) = mem[slave]
  BY <1>2, BlockType DEF BaseInv
<1>4. /\ stream' = stream \o mem[slave] /\ mem' = mem /\ master' = master
      /\ xpc = "data" /\ xpc' = "clear"
  BY <1>3 DEF WriteData
<1>5. mem[slave] \in Seq(Items \cup {Junk})
  BY <1>1
<1> DEFINE u == MsgOf(mem[slave])
           v == MsgOf(mem[master])
<1>6. MsgOf(stream)' = MsgOf(stream) \o u
  <2>1. MsgOf(stream \o mem[slave]) = MsgOf(stream) \o u
    BY <1>1, <1>5, MsgOfConcat
  <2>2. QED BY <1>4, <2>1 DEF MsgOf
<1>7. Buffered = u \o v
  BY <1>1, <1>4, MsgOfConcat DEF Buffered, Unwritten
<1>8. Buffered' = v
  <2>1. <<>> \o mem[master] = mem[master]
    BY <1>1, ConcatEmptySeq
  <2>2. Unwritten' \o mem'[master'] = mem[master]
    BY <1>4, <2>1 DEF Unwritten
  <2>3. QED BY <2>2 DEF Buffered, MsgOf
<1>9. u \in Seq(MsgsOf(Items)) /\ v \in Seq(MsgsOf(Items))
  BY <1>1, MsgOfType
<1> HIDE DEF u, v
<1>10. /\ Len(u) \in 0 .. Len(Buffered)
       /\ SubSeq(Buffered, 1, Len(u)) = u
       /\ SubSeq(Buffered, Len(u) + 1, Len(Buffered)) = v
  BY <1>7, <1>9, Parts
<1>11. Len(stream) \in Nat /\ Len(stream') \in Nat /\ Len(stream') >= Len(stream)
  BY <1>1, <1>4, <1>5, ConcatProperties
<1>12. stream' \in Seq(Items \cup {Junk})
  BY <1>1, <1>4, <1>5, ConcatProperties
<1>13. Len(MsgOf(stream)') = Len(stream')
  BY <1>12, MsgOfType DEF MsgOf
<1>14. saved' \in saved .. Len(MsgOf(stream)')
  BY <1>1, <1>11, <1>13 DEF WriteData
<1>15. \E k \in 0 .. Len(Buffered) :
          /\ MsgOf(stream)' = MsgOf(stream) \o SubSeq(Buffered, 1, k)
          /\ Buffered' = SubSeq(Buffered, k + 1, Len(Buffered))
  BY <1>6, <1>8, <1>10
<1>16. QED BY <1>14, <1>15 DEF Store!SWrite, Store!Synced, Buffered

LEMMA SwapStep ==
    ASSUME BaseInv, ~overrun', NEW t \in Threads, SwapPointers(t)
    PROVE  UNCHANGED Store!svars
<1> USE DEF strandVars, fileVars
<1>1. /\ master' = slave /\ slave' = master /\ mem' = mem /\ stream' = stream /\ saved' = saved
      /\ xpc' = xpc /\ mem[slave] = <<>> /\ xpc \in {"idle", "empty"}
  BY NextSlave DEF SwapPointers, SlaveAvailable, BaseInv
<1>2. mem[master] \in Seq(Items)
  BY Slave DEF BaseInv
<1>3. Unwritten = <<>> /\ Unwritten' = mem[master]
  BY <1>1 DEF Unwritten
<1>4. Unwritten' \o mem'[master'] = mem[master] /\ Unwritten \o mem[master] = mem[master]
  BY <1>1, <1>2, <1>3, ConcatEmptySeq
<1>5. QED BY <1>1, <1>4, SameStore

LEMMA DestroyStep ==
    ASSUME BaseInv, Destroy
    PROVE  Store!SSync
<1> USE DEF bufVars, strandVars
<1>1. stream \in Seq(Items \cup {Junk}) /\ saved \in 0 .. Len(stream) /\ Len(stream) \in Nat
  BY DEF BaseInv, TypeInv
<1>2. slave' = slave /\ mem' = mem /\ master' = master /\ xpc' = xpc /\ stream' = stream
  BY NextSlave DEF Destroy, BaseInv
<1>3. Buffered' = Buffered /\ MsgOf(stream)' = MsgOf(stream)
  BY <1>2 DEF Buffered, Unwritten, MsgOf
<1>4. Len(MsgOf(stream)) = Len(stream)
  BY <1>1, MsgOfType
<1>5. saved' \in saved .. Len(MsgOf(stream)')
  BY <1>1, <1>3, <1>4 DEF Destroy
<1>6. QED BY <1>3, <1>5 DEF Store!SSync, Store!Synced, Buffered

LEMMA DieStep ==
    ASSUME BaseInv, Crash
    PROVE  Store!SDie
<1>1. stream \in Seq(Items \cup {Junk}) /\ saved \in 0 .. Len(stream) /\ Len(stream) \in Nat
  BY DEF BaseInv, TypeInv
<1>2. PICK k \in saved .. Len(stream) : stream' = SubSeq(stream, 1, k)
  BY DEF Crash
<1>3. k \in 0 .. Len(stream)
  BY <1>1
<1>4. MsgOf(stream)' = SubSeq(MsgOf(stream), 1, k)
  <2>1. MsgOf(SubSeq(stream, 1, k)) = SubSeq(MsgOf(stream), 1, k)
    BY <1>1, <1>3, MsgOfPrefix
  <2>2. QED BY <1>2, <2>1 DEF MsgOf
<1>5. Len(MsgOf(stream)) = Len(stream)
  BY <1>1, MsgOfType
<1>6. Len(MsgOf(stream)') = Len(stream')
  <2>1. stream' \in Seq(Items \cup {Junk})
    BY <1>1, <1>2, <1>3
  <2>2. QED BY <2>1, MsgOfType DEF MsgOf
<1>7. Buffered' = <<>>
  <2>1. slave' = slave /\ master' = master /\ slave \in Bufs /\ master \in Bufs
    BY Slave, NextSlave DEF Crash, bufVars, BaseInv, TypeInv
  <2>2. mem'[slave'] = <<>> /\ mem'[master'] = <<>>
    BY <2>1 DEF Crash
  <2>3. Unwritten' \o mem'[master'] = <<>>
    BY <2>2 DEF Unwritten
  <2>4. QED BY <2>3 DEF Buffered, MsgOf
<1>8. saved' = Len(MsgOf(stream)')
  BY <1>6 DEF Crash
<1>9. QED BY <1>2, <1>4, <1>5, <1>7, <1>8 DEF Store!SDie, Buffered

LEMMA StoreStep ==
    ASSUME BaseInv, DataInv, [Next]_vars
    PROVE  [overrun' \/ Store!SNext]_(Store!svars)
<1> SUFFICES ASSUME ~overrun' PROVE Store!SNext \/ UNCHANGED Store!svars
  OBVIOUS
<1> USE DEF bufVars, strandVars, fileVars, callVars, history
<1>1. ASSUME UNCHANGED <<mem, master, stream, saved>>, xpc' = "clear" <=> xpc = "clear"
      PROVE  UNCHANGED Store!svars
  <2>1. slave' = slave
    BY <1>1, NextSlave DEF BaseInv
  <2>2. Unwritten' \o mem'[master'] = Unwritten \o mem[master]
    BY <1>1, <2>1 DEF Unwritten
  <2>3. QED BY <1>1, <2>2, SameStore
<1>2. ASSUME NEW u \in Threads, LogCall(u) \/ FlushCall(u) \/ CallStep(u) \/ RunBarrier(u)
      PROVE  Store!SNext \/ UNCHANGED Store!svars
  <2>1. CASE WriteToCache(u)
    BY <2>1, AcceptStep DEF Store!SNext
  <2>2. CASE SwapPointers(u)
    BY <2>2, SwapStep
  <2>3. CASE ~WriteToCache(u) /\ ~SwapPointers(u)
    <3>1. UNCHANGED <<mem, master, stream, xpc>>
      BY <1>2, <2>3, QuietCalls
    <3>2. saved' = saved
      BY <1>2, <2>3 DEF LogCall, FlushCall, CallStep, NeedWriteToFile, LoadFree, StoreBusy,
              AsyncCacheToFile, PostBarrier, SecondHalf, FlushReturn, RunBarrier
    <3>3. QED BY <1>1, <3>1, <3>2
  <2>4. QED BY <2>1, <2>2, <2>3
<1>3. CASE RunCache \/ Empty \/ ReadSize \/ FreeSlave \/ UseAfter \/ UNCHANGED vars
  <2>1. UNCHANGED <<mem, master, stream, saved>> /\ (xpc' = "clear" <=> xpc = "clear")
    BY <1>3 DEF RunCache, Empty, ReadSize, FreeSlave, UseAfter, vars
  <2>2. QED BY <1>1, <2>1
<1>4. CASE WriteData
  <2>1. Good
    BY <1>4 DEF WriteData, Good
  <2>2. QED BY <1>4, <2>1, WriteStep DEF Store!SNext
<1>5. CASE ClearSlave
  <2>1. /\ slave' = slave /\ slave \in Bufs /\ slave # master /\ master \in Bufs
        /\ mem \in [Bufs -> Seq(Items)]
    BY <1>5, Slave, NextSlave DEF ClearSlave, BaseInv, TypeInv
  <2>2. mem'[slave'] = <<>> /\ mem'[master'] = mem[master] /\ xpc = "clear" /\ xpc' = "free"
    BY <1>5, <2>1 DEF ClearSlave, Clear
  <2>3. Unwritten' \o mem'[master'] = Unwritten \o mem[master]
    BY <2>2 DEF Unwritten
  <2>4. QED BY <1>5, <2>3, SameStore DEF ClearSlave
<1>6. CASE Destroy
  BY <1>6, DestroyStep DEF Store!SNext
<1>7. CASE Crash
  BY <1>7, DieStep DEF Store!SNext
<1>8. QED BY <1>2, <1>3, <1>4, <1>5, <1>6, <1>7 DEF Next, StrandStep

LEMMA InitStore == Init => Store!SInit
<1> SUFFICES ASSUME Init PROVE Store!SInit
  OBVIOUS
<1>1. mem[slave] = <<>> /\ mem[master] = <<>> /\ stream = <<>> /\ saved = 0 /\ xpc = "idle"
  BY InitBase, Slave DEF Init, BaseInv
<1>2. Buffered = <<>>
  BY <1>1 DEF Buffered, Unwritten, MsgOf
<1>3. MsgOf(stream) = <<>>
  BY <1>1 DEF MsgOf
<1>4. QED BY <1>1, <1>2, <1>3 DEF Store!SInit, Buffered

\* As long as no swap goes wrong the sink implements LogStore: messages reach
\* the file in order and once, and only the end of the process takes any away.
THEOREM SinkIsStore == Spec => ImplementsStore
<1>1. BaseInv /\ DataInv /\ [Next]_vars => [overrun' \/ Store!SNext]_(Store!svars)
  BY StoreStep
<1>2. QED BY <1>1, InitStore, DataInvariance, PTL DEF Spec, ImplementsStore
-----------------------------------------------------------------------------
(* Sizes and capacities                                                       *)

\* Induction over the naturals, by the least one that is not in T.
LEMMA Induction ==
    ASSUME NEW T, 0 \in T, \A n \in Nat : n \in T => n + 1 \in T
    PROVE  Nat \subseteq T
<1> DEFINE R == OpToRel(<, Nat)
           D == Nat \ T
<1>1. IsWellFoundedOn(R, Nat)
  BY NatLessThanWellFounded
<1>2. \A x, y \in Nat : y < x => <<y, x>> \in R
  BY DEF OpToRel
<1>3. SUFFICES ASSUME D # {} PROVE FALSE
  OBVIOUS
<1>4. D \subseteq Nat
  OBVIOUS
<1> HIDE DEF R, D
<1>5. PICK x \in D : \A y \in D : ~(<<y, x>> \in R)
  BY <1>1, <1>3, <1>4, WFMin
<1>6. x \in Nat /\ x \notin T
  BY DEF D
<1>7. x # 0 /\ x - 1 \in Nat /\ x - 1 < x /\ (x - 1) + 1 = x
  BY <1>6
<1>8. x - 1 \notin T
  BY <1>6, <1>7
<1>9. x - 1 \in D
  BY <1>7, <1>8 DEF D
<1>10. QED BY <1>2, <1>5, <1>6, <1>7, <1>9

\* What the definition of Size says of sum[i].
Plus(s, f, i) == IF i = 0 THEN 0 ELSE f[i - 1] + s[i].len

LEMMA SumExists ==
    ASSUME NEW s, NEW m \in Nat
    PROVE  \E f : f = [i \in 0..m |-> Plus(s, f, i)]
<1> DEFINE T == {k \in Nat : \E f : f = [i \in 0..k |-> Plus(s, f, i)]}
<1>1. 0 \in T
  <2> DEFINE f == [i \in {0} |-> 0]
  <2>1. 0..0 = {0}
    OBVIOUS
  <2>2. f = [i \in 0..0 |-> Plus(s, f, i)]
    BY <2>1 DEF Plus
  <2>3. QED BY <2>2
<1>2. ASSUME NEW k \in Nat, k \in T
      PROVE  k + 1 \in T
  <2>1. PICK f : f = [i \in 0..k |-> Plus(s, f, i)]
    BY <1>2
  <2> DEFINE g == [i \in 0..k + 1 |-> IF i = k + 1 THEN Plus(s, f, k + 1) ELSE f[i]]
  <2>2. ASSUME NEW i \in 0..k + 1
        PROVE  g[i] = Plus(s, g, i)
    <3>1. i # 0 => i - 1 \in 0..k /\ i - 1 \in 0..k + 1 /\ i - 1 # k + 1
      OBVIOUS
    <3>2. i # 0 => g[i - 1] = f[i - 1]
      BY <3>1
    <3>3. Plus(s, g, i) = Plus(s, f, i)
      BY <3>2 DEF Plus
    <3>4. i # k + 1 => i \in 0..k
      OBVIOUS
    <3>5. i # k + 1 => f[i] = Plus(s, f, i)
      BY <2>1, <3>4
    <3>6. QED BY <3>3, <3>5
  <2>3. g = [i \in 0..k + 1 |-> g[i]]
    OBVIOUS
  <2> HIDE DEF g
  <2>4. g = [i \in 0..k + 1 |-> Plus(s, g, i)]
    BY <2>2, <2>3
  <2>5. QED BY <2>4
<1> HIDE DEF T
<1>3. m \in T
  BY <1>1, <1>2, Induction
<1>4. QED BY <1>3 DEF T

\* The sums of the first sizes; Size is the last of them.
SumTo(s) == CHOOSE f : f = [i \in 0..Len(s) |-> Plus(s, f, i)]

LEMMA SumIs ==
    ASSUME NEW s \in Seq(Items)
    PROVE  /\ Size(s) = SumTo(s)[Len(s)] /\ SumTo(s)[0] = 0
           /\ \A i \in 1..Len(s) : SumTo(s)[i] = SumTo(s)[i - 1] + s[i].len
<1> DEFINE P(f) == f = [i \in 0..Len(s) |-> Plus(s, f, i)]
           f == SumTo(s)
<1>1. Len(s) \in Nat
  OBVIOUS
<1>2. \E g : P(g)
  BY <1>1, SumExists
<1>3. f = CHOOSE g : P(g)
  BY DEF SumTo
<1>4. P(f)
  BY <1>2, <1>3
<1>5. Size(s) = f[Len(s)]
  BY DEF Size, SumTo, Plus
<1> HIDE DEF f
<1>6. \A i \in 0..Len(s) : f[i] = Plus(s, f, i)
  BY <1>4
<1>7. f[0] = 0
  BY <1>1, <1>6 DEF Plus
<1>8. \A i \in 1..Len(s) : f[i] = f[i - 1] + s[i].len
  BY <1>1, <1>6 DEF Plus
<1>9. QED BY <1>5, <1>7, <1>8 DEF f

\* The sums of two sequences are the same as long as the items are.
LEMMA SumSame ==
    ASSUME NEW s \in Seq(Items), NEW r \in Seq(Items), Len(s) <= Len(r),
           \A i \in 1..Len(s) : r[i] = s[i]
    PROVE  \A k \in 0..Len(s) : SumTo(s)[k] \in Nat /\ SumTo(r)[k] = SumTo(s)[k]
<1> DEFINE f == SumTo(s)
           g == SumTo(r)
           T == {k \in Nat : k <= Len(s) => f[k] \in Nat /\ g[k] = f[k]}
<1>1. f[0] = 0 /\ \A i \in 1..Len(s) : f[i] = f[i - 1] + s[i].len
  BY SumIs
<1>2. g[0] = 0 /\ \A i \in 1..Len(r) : g[i] = g[i - 1] + r[i].len
  BY SumIs
<1>3. Len(s) \in Nat /\ Len(r) \in Nat
  OBVIOUS
<1>4. \A i \in 1..Len(s) : s[i].len \in Nat /\ i \in 1..Len(r)
  <2>1. \A i \in 1..Len(s) : s[i] \in Items
    OBVIOUS
  <2>2. \A i \in 1..Len(s) : s[i].len \in Nat
    BY <2>1 DEF Items
  <2>3. QED BY <1>3, <2>2
<1> HIDE DEF f, g
<1>5. ASSUME NEW k \in Nat, k <= Len(s) => f[k] \in Nat /\ g[k] = f[k], k + 1 <= Len(s)
      PROVE  f[k + 1] \in Nat /\ g[k + 1] = f[k + 1]
  <2>1. f[k] \in Nat /\ g[k] = f[k] /\ k + 1 \in 1..Len(s) /\ (k + 1) - 1 = k
    BY <1>3, <1>5
  <2>2. f[k + 1] = f[k] + s[k + 1].len /\ g[k + 1] = g[k] + r[k + 1].len
    BY <1>1, <1>2, <1>4, <2>1
  <2>3. s[k + 1].len \in Nat /\ r[k + 1] = s[k + 1]
    BY <1>4, <2>1
  <2>4. QED BY <2>1, <2>2, <2>3
<1>6. 0 \in T /\ \A k \in Nat : k \in T => k + 1 \in T
  BY <1>1, <1>2, <1>5
<1> HIDE DEF T
<1>7. \A k \in 0..Len(s) : k \in T
  BY <1>6, Induction
<1>8. QED BY <1>7, <1>3 DEF T, f, g

LEMMA SizeIs ==
    ASSUME NEW s \in Seq(Items), NEW x \in Items
    PROVE  /\ Size(s) \in Nat /\ Size(Append(s, x)) = Size(s) + x.len
           /\ Size(<<>>) = 0
<1> DEFINE r == Append(s, x)
<1>1. /\ r \in Seq(Items) /\ Len(r) = Len(s) + 1 /\ Len(s) \in Nat
      /\ r[Len(r)] = x /\ \A i \in 1..Len(s) : r[i] = s[i]
  OBVIOUS
<1> HIDE DEF r
<1>2. SumTo(s)[Len(s)] \in Nat /\ SumTo(r)[Len(s)] = SumTo(s)[Len(s)]
  BY <1>1, SumSame
<1>3. Size(s) = SumTo(s)[Len(s)] /\ Size(r) = SumTo(r)[Len(r)]
  BY <1>1, SumIs
<1>4. SumTo(r)[Len(r)] = SumTo(r)[Len(s)] + x.len
  <2>1. Len(r) \in 1..Len(r) /\ Len(r) - 1 = Len(s)
    BY <1>1
  <2>2. QED BY <1>1, <2>1, SumIs
<1>5. Size(<<>>) = 0
  <2>1. <<>> \in Seq(Items) /\ Len(<<>>) = 0
    OBVIOUS
  <2>2. QED BY <2>1, SumIs
<1>6. QED BY <1>2, <1>3, <1>4, <1>5 DEF r

\* What the definition of Grown says of grow[k].
Up(need, halves, f, k) == IF k > need THEN k ELSE f[(k * halves) \div 2]

\* Half as much again is more, from 2 on; below that it may be the same.
LEMMA HalfMore ==
    ASSUME NEW halves \in Growths, NEW k \in Nat
    PROVE  /\ (k * halves) \div 2 \in Nat /\ (k * halves) \div 2 >= k
           /\ k >= 2 => (k * halves) \div 2 > k
<1>1. (k * 3) \div 2 \in Nat /\ (k * 3) \div 2 >= k /\ (k >= 2 => (k * 3) \div 2 > k)
  OBVIOUS
<1>2. (k * 4) \div 2 \in Nat /\ (k * 4) \div 2 >= k /\ (k >= 2 => (k * 4) \div 2 > k)
  OBVIOUS
<1>3. QED BY <1>1, <1>2 DEF Growths

\* There is such a function: one for the numbers from m + 1 on can be extended
\* to m, since grow[m] refers to a number that is not smaller.
LEMMA GrowExists ==
    ASSUME NEW need \in Nat, NEW halves \in Growths
    PROVE  \E f : f = [k \in Nat |-> Up(need, halves, f, k)]
<1> DEFINE From(j) == {k \in Nat : k + j > need}
           T == {j \in Nat : \E f : f = [k \in From(j) |-> Up(need, halves, f, k)]}
<1>1. 0 \in T
  <2> DEFINE f == [k \in From(0) |-> k]
  <2>1. f = [k \in From(0) |-> Up(need, halves, f, k)]
    BY DEF Up
  <2>2. QED BY <2>1
<1>2. ASSUME NEW j \in Nat, j \in T
      PROVE  j + 1 \in T
  <2>1. PICK f : f = [k \in From(j) |-> Up(need, halves, f, k)]
    BY <1>2
  <2> DEFINE h(k) == (k * halves) \div 2
             new(k) == IF h(k) = k THEN 0 ELSE Up(need, halves, f, k)
             g == [k \in From(j + 1) |-> IF k \in From(j) THEN f[k] ELSE new(k)]
  <2>2. ASSUME NEW k \in From(j + 1)
        PROVE  g[k] = Up(need, halves, g, k)
    <3>1. /\ k \in Nat /\ h(k) \in Nat /\ h(k) >= k /\ h(k) \in From(j + 1)
      BY HalfMore
    <3> HIDE DEF h
    <3>2. k \notin From(j) => k + j = need /\ k <= need
      BY <3>1
    <3>3. k \notin From(j) /\ h(k) # k => h(k) \in From(j)
      BY <3>1, <3>2
    <3>4. k \in From(j) => h(k) \in From(j) /\ f[k] = Up(need, halves, f, k)
      BY <2>1, <3>1
    <3>5. h(k) \in From(j) => g[h(k)] = f[h(k)]
      BY <3>1
    <3>6. CASE k \in From(j)
      BY <3>4, <3>5, <3>6 DEF Up, h
    <3>7. CASE k \notin From(j) /\ h(k) = k
      <4>1. g[k] = new(k) /\ new(k) = 0
        BY <3>7
      <4>2. Up(need, halves, g, k) = g[k]
        BY <3>1, <3>2, <3>7 DEF Up, h
      <4>3. QED BY <4>2
    <3>8. CASE k \notin From(j) /\ h(k) # k
      <4>1. g[k] = Up(need, halves, f, k)
        BY <3>8
      <4>2. g[h(k)] = f[h(k)]
        BY <3>3, <3>5, <3>8
      <4> HIDE DEF g
      <4>3. QED BY <4>1, <4>2 DEF Up, h
    <3>9. QED BY <3>6, <3>7, <3>8
  <2>3. g = [k \in From(j + 1) |-> g[k]]
    OBVIOUS
  <2> HIDE DEF g
  <2>4. g = [k \in From(j + 1) |-> Up(need, halves, g, k)]
    BY <2>2, <2>3
  <2>5. QED BY <2>4
<1>3. From(need + 1) = Nat
  OBVIOUS
<1> HIDE DEF T
<1>4. need + 1 \in T
  BY <1>1, <1>2, Induction
<1>5. QED BY <1>3, <1>4 DEF T

\* The loop of Reserve_ ends with more than what was asked for.
LEMMA GrownEnough ==
    ASSUME NEW need \in Nat, NEW halves \in Growths, NEW c \in Nat, c >= 2
    PROVE  Grown(c, need, halves) \in Nat /\ Grown(c, need, halves) > need
<1> DEFINE P(f) == f = [k \in Nat |-> Up(need, halves, f, k)]
           g == CHOOSE f : P(f)
           T == {j \in Nat : \A k \in Nat : k >= 2 /\ k + j > need => g[k] \in Nat /\ g[k] > need}
<1>1. P(g)
  <2>1. \E f : P(f)
    BY GrowExists
  <2>2. QED BY <2>1
<1>2. Grown(c, need, halves) = g[c]
  BY DEF Grown, Up
<1> HIDE DEF g
<1>3. \A k \in Nat : g[k] = Up(need, halves, g, k)
  BY <1>1
<1>4. \A k \in Nat : k > need => g[k] = k
  BY <1>3 DEF Up
<1>5. 0 \in T
  BY <1>4
<1>6. ASSUME NEW j \in Nat, j \in T
      PROVE  j + 1 \in T
  <2> SUFFICES ASSUME NEW k \in Nat, k >= 2, k + (j + 1) > need, ~(k > need)
               PROVE  g[k] \in Nat /\ g[k] > need
    BY <1>4
  <2> DEFINE h == (k * halves) \div 2
  <2>1. g[k] = g[h]
    BY <1>3 DEF Up
  <2>2. h \in Nat /\ h > k
    BY HalfMore
  <2> HIDE DEF h
  <2>3. h >= 2 /\ h + j > need
    BY <2>2
  <2>4. QED BY <1>6, <2>1, <2>2, <2>3
<1> HIDE DEF T
<1>7. need \in T
  BY <1>5, <1>6, Induction
<1>8. c + need > need
  OBVIOUS
<1>9. QED BY <1>2, <1>7, <1>8 DEF T

\* A buffer has room for what it holds.
CapInv ==
    /\ cap \in [Bufs -> Nat]
    /\ \A b \in Bufs : cap[b] >= 2 /\ Size(mem[b]) <= cap[b]

LEMMA CapInit == Init => CapInv
<1> SUFFICES ASSUME Init PROVE CapInv
  OBVIOUS
<1>1. /\ mem = [b \in Bufs |-> <<>>] /\ cap = [b \in Bufs |-> Capacity]
      /\ Capacity \in Nat /\ Capacity >= 2
  BY DEF Init
<1>2. Size(<<>>) = 0
  <2>1. <<>> \in Seq(Items) /\ Len(<<>>) = 0
    OBVIOUS
  <2>2. QED BY <2>1, SumIs
<1>3. QED BY <1>1, <1>2 DEF CapInv

LEMMA CapStep ==
    ASSUME TypeInv, CapInv, [Next]_vars
    PROVE  CapInv'
<1>1. /\ mem \in [Bufs -> Seq(Items)] /\ master \in Bufs
      /\ cap \in [Bufs -> Nat] /\ \A b \in Bufs : cap[b] >= 2 /\ Size(mem[b]) <= cap[b]
  BY DEF TypeInv, CapInv
<1>2. Size(<<>>) = 0
  <2>1. <<>> \in Seq(Items) /\ Len(<<>>) = 0
    OBVIOUS
  <2>2. QED BY <2>1, SumIs
<1>3. ASSUME NEW t \in Threads, WriteToCache(t)
      PROVE  CapInv'
  <2> DEFINE s == mem[master]
             need == Size(s) + msg[t].len
  <2>1. s \in Seq(Items) /\ msg[t] \in Items /\ msg[t].len \in Nat
    <3>1. msg[t] \in Items
      BY <1>3 DEF WriteToCache, TypeInv
    <3>2. QED BY <1>1, <3>1 DEF Items
  <2>2. Size(s) \in Nat /\ Size(Append(s, msg[t])) = need /\ need \in Nat
    BY <2>1, SizeIs
  <2>3. PICK halves \in Growths :
            cap' = [cap EXCEPT ![master] = EnsureCapacity(cap[master], need, halves)]
    BY <1>3 DEF WriteToCache
  <2>4. mem' = [mem EXCEPT ![master] = Append(s, msg[t])]
    BY <1>3 DEF WriteToCache
  <2> DEFINE c == EnsureCapacity(cap[master], need, halves)
  <2>5. cap[master] \in Nat /\ cap[master] >= 2
    BY <1>1
  <2> HIDE DEF need
  <2>6. c \in Nat /\ c >= 2 /\ c >= need
    <3>1. CASE need <= cap[master]
      BY <2>2, <2>5, <3>1 DEF EnsureCapacity
    <3>2. CASE ~(need <= cap[master])
      <4>1. c = Grown(cap[master], need, halves)
        BY <3>2 DEF EnsureCapacity
      <4> HIDE DEF c
      <4>2. c \in Nat /\ c > need
        BY <2>2, <2>5, <4>1, GrownEnough
      <4>3. QED BY <2>2, <2>5, <3>2, <4>2
    <3>3. QED BY <3>1, <3>2
  <2> HIDE DEF c, s
  <2>7. cap' = [cap EXCEPT ![master] = c]
    BY <2>3 DEF c
  <2>8. cap' \in [Bufs -> Nat]
    BY <1>1, <2>6, <2>7
  <2>9. ASSUME NEW b \in Bufs
        PROVE  cap'[b] >= 2 /\ Size(mem'[b]) <= cap'[b]
    <3>1. CASE b = master
      <4>1. mem'[b] = Append(s, msg[t]) /\ cap'[b] = c
        BY <1>1, <2>4, <2>7, <3>1
      <4>2. QED BY <2>2, <2>6, <4>1
    <3>2. CASE b # master
      <4>1. mem'[b] = mem[b] /\ cap'[b] = cap[b]
        BY <1>1, <2>4, <2>7, <3>2
      <4>2. QED BY <1>1, <4>1
    <3>3. QED BY <3>1, <3>2
  <2>10. QED BY <2>8, <2>9 DEF CapInv
<1>4. CASE ClearSlave
  <2>1. mem' = [mem EXCEPT ![slave] = <<>>] /\ cap' = cap
    BY <1>4 DEF ClearSlave, Clear
  <2>2. \A b \in Bufs : mem'[b] \in {mem[b], <<>>}
    BY <1>1, <2>1
  <2>3. \A b \in Bufs : Size(mem'[b]) <= cap[b]
    BY <1>1, <1>2, <2>2, SMTT(20)
  <2>4. QED BY <1>1, <2>1, <2>3 DEF CapInv
<1>5. CASE Crash
  <2>1. mem' = [b \in Bufs |-> <<>>] /\ cap' = cap
    BY <1>5 DEF Crash
  <2>2. QED BY <1>1, <1>2, <2>1 DEF CapInv
<1>6. ASSUME NEW t \in Threads,
             \/ LogCall(t) \/ FlushCall(t) \/ NeedWriteToFile(t) \/ LoadFree(t) \/ StoreBusy(t)
             \/ SwapPointers(t) \/ AsyncCacheToFile(t) \/ PostBarrier(t)
             \/ SecondHalf(t) \/ FlushReturn(t) \/ RunBarrier(t)
      PROVE  UNCHANGED <<mem, cap>>
  BY <1>6 DEF LogCall, FlushCall, NeedWriteToFile, LoadFree, StoreBusy, SwapPointers,
              AsyncCacheToFile, PostBarrier, SecondHalf, FlushReturn, RunBarrier, bufVars
<1>7. CASE RunCache \/ Empty \/ ReadSize \/ WriteData \/ FreeSlave \/ Destroy \/ UseAfter
           \/ UNCHANGED vars
  <2>1. UNCHANGED <<mem, cap>>
    BY <1>7 DEF RunCache, Empty, ReadSize, WriteData, FreeSlave, Destroy, UseAfter, vars, bufVars
  <2>2. QED BY <1>1, <2>1 DEF CapInv
<1>8. CASE UNCHANGED <<mem, cap>>
  BY <1>1, <1>8 DEF CapInv
<1>9. QED BY <1>3, <1>4, <1>5, <1>6, <1>7, <1>8 DEF Next, CallStep, StrandStep

\* The variables keep their types, the capacities too: the loop of Reserve_ ends,
\* whatever the library makes of a request for more.
THEOREM TypeCorrect == Spec => []TypeOK
<1>1. BaseInv /\ CapInv => TypeOK
  BY DEF BaseInv, TypeInv, CapInv, TypeOK
<1>2. BaseInv /\ CapInv /\ [Next]_vars => CapInv'
  BY CapStep DEF BaseInv
<1>3. QED BY <1>1, <1>2, BaseInvariance, CapInit, PTL DEF Spec

\* What a buffer holds is within its capacity.
Fits == \A b \in Bufs : Size(mem[b]) <= cap[b]

\* MemoryBuffer::Push copies into what EnsureCapacity_ has made room for,
\* whatever has been logged, swapped and cleared before.
THEOREM PushFits == Spec => []Fits
<1>1. CapInv => Fits
  BY DEF CapInv, Fits
<1>2. BaseInv /\ CapInv /\ [Next]_vars => CapInv'
  BY CapStep DEF BaseInv
<1>3. QED BY <1>1, <1>2, BaseInvariance, CapInit, PTL DEF Spec
=============================================================================
