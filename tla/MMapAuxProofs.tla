--------------------------- MODULE MMapAuxProofs ---------------------------
(* Proofs about MMapAux for any page size, header, default capacity, cells,   *)
(* blocks and failing system calls.                                           *)
EXTENDS MMapAux, Integers, SequenceTheorems, TLAPS

USE MMapAssumption

-----------------------------------------------------------------------------
(* The inductive invariant                                                    *)

\* Where each call can be, and what it has while it is there.
CallInv ==
    /\ pc \in {"closed", "open"} <=> op = "none"
    /\ op \in {"none", "ctor"} => arg = <<>> /\ new_size = 0
    /\ op = "ctor" => pc \in {"reserve", "init"}
    /\ pc = "init" => op = "ctor"
    /\ pc = "copy" => op = "push"
    /\ op = "push" => new_size = size + Len(arg)
    /\ op = "resize" => arg = <<>> /\ pc \in {"reserve", "store"}

\* A mapping is there before a call needs a longer one, and is as long as its
\* file unless ftruncate fails; only a file that was in use has contents.
MapInv ==
    /\ handle = "mapped" => Len(data) + HeaderLen = capacity \/ "ftruncate" \in Fails
    /\ pc = "closed" \/ (op = "ctor" /\ pc = "reserve") => handle = "null" /\ capacity = 0
    /\ op \in {"push", "resize"} /\ pc = "reserve" => handle = "mapped"
    /\ op \in {"push", "resize"} => magic
    /\ ~magic => size = 0

\* After Reserve_ there is room for what the call is about to store.
RoomInv ==
    pc \in {"copy", "store"} /\ handle = "mapped" =>
        new_size + HeaderLen <= capacity

\* Before the size is stored, the block is in its place.
CopiedInv ==
    op = "push" /\ pc = "store" =>
        /\ new_size <= Len(data)
        /\ \A i \in 1 .. Len(arg) : data[size + i] = arg[i]

IInv == TypeOK /\ CallInv /\ MapInv /\ RoomInv /\ CopiedInv

-----------------------------------------------------------------------------
(* Capacities and truncation                                                  *)

LEMMA DivBound ==
    ASSUME NEW P \in Nat \ {0}, NEW m \in Nat
    PROVE  LET q == m \div P IN q \in Nat /\ q * P <= m /\ m < q * P + P
<1>1. m \div P \in Nat
  OBVIOUS
<1>2. m = P * (m \div P) + (m % P) /\ m % P \in 0 .. P - 1
  OBVIOUS
<1>3. QED BY <1>1, <1>2

\* A multiple has no remainder.
LEMMA ModOfMultiple ==
    ASSUME NEW P \in Nat \ {0}, NEW q \in Nat
    PROVE  (q * P) % P = 0
<1> DEFINE m == q * P
           d == m \div P
<1>1. m \in Nat /\ d \in Nat
  OBVIOUS
<1>2. d * P <= m /\ m < d * P + P
  BY <1>1, DivBound
<1>3. ~(q < d) /\ ~(d < q)
  <2>1. ASSUME q < d PROVE FALSE
    <3>1. (q + 1) * P <= d * P
      BY <1>1, <2>1
    <3>2. QED BY <1>2, <3>1
  <2>2. ASSUME d < q PROVE FALSE
    <3>1. (d + 1) * P <= q * P
      BY <1>1, <2>2
    <3>2. QED BY <1>2, <3>1
  <2>3. QED BY <2>1, <2>2
<1>4. m = P * d + (m % P)
  BY <1>1
<1>5. QED BY <1>1, <1>3, <1>4

LEMMA ModOfZero == 0 % Page = 0
<1>1. 0 * Page = 0
  OBVIOUS
<1>2. QED BY <1>1, ModOfMultiple

\* Rounding to pages does not lose anything.
LEMMA RoundUpBound ==
    ASSUME NEW n \in Nat
    PROVE  RoundUp(n) \in Nat /\ RoundUp(n) >= n /\ RoundUp(n) % Page = 0
<1> DEFINE q == (n + Page - 1) \div Page
<1>1. Page \in Nat \ {0} /\ n + Page - 1 \in Nat
  OBVIOUS
<1>2. q \in Nat /\ n + Page - 1 < q * Page + Page
  BY <1>1, DivBound
<1>3. q * Page \in Nat
  BY <1>1, <1>2
<1>4. QED BY <1>1, <1>2, <1>3, ModOfMultiple DEF RoundUp

\* The capacity that is asked for has room for the header, and for the new
\* size if there is one.
LEMMA GoalBound ==
    ASSUME TypeOK
    PROVE  /\ Goal \in Nat /\ Goal > HeaderLen - 1 /\ Goal % Page = 0
           /\ op = "ctor" => Goal > 0
           /\ op # "ctor" => new_size + HeaderLen <= Goal
<1>1. Requested \in Nat /\ Requested >= DefaultCapacity /\ Requested % Page = 0
  BY RoundUpBound DEF Requested
<1>2. /\ Needed(new_size) \in Nat /\ Needed(new_size) >= new_size + HeaderLen
      /\ Needed(new_size) % Page = 0
  <2>1. new_size + HeaderLen \in Nat
    BY DEF TypeOK
  <2>2. QED BY <2>1, RoundUpBound DEF Needed
<1>3. QED BY <1>1, <1>2 DEF TypeOK, Goal

\* What ftruncate leaves.
LEMMA TruncatedIs ==
    ASSUME TypeOK, NEW n \in Nat, n >= HeaderLen
    PROVE  /\ Truncated(n) \in Seq(Cells)
           /\ Len(Truncated(n)) = n - HeaderLen
           /\ \A i \in 1 .. n - HeaderLen :
                 i <= Len(data) => Truncated(n)[i] = data[i]
<1>1. \A i \in 1 .. n - HeaderLen : (IF i <= Len(data) THEN data[i] ELSE Zero) \in Cells
  BY DEF TypeOK
<1>2. n - HeaderLen \in Nat
  OBVIOUS
<1>3. QED BY <1>1, <1>2 DEF Truncated

\* What the copy of a Push leaves.
LEMMA CopyIs ==
    ASSUME TypeOK, BehindTheOld
    PROVE  /\ data' \in Seq(Cells) /\ Len(data') = Len(data)
           /\ \A i \in 1 .. Len(data) :
                 data'[i] = IF i \in size + 1 .. size + Len(arg) THEN arg[i - size] ELSE data[i]
<1>1. \A i \in 1 .. Len(data) :
         (IF i \in size + 1 .. size + Len(arg) THEN arg[i - size] ELSE data[i]) \in Cells
  BY DEF TypeOK
<1>2. Len(data) \in Nat
  BY DEF TypeOK
<1>3. QED BY <1>1, <1>2 DEF BehindTheOld, CopyFrom

-----------------------------------------------------------------------------

LEMMA InitIInv == Init => IInv
<1> SUFFICES ASSUME Init PROVE IInv
  OBVIOUS
<1> USE DEF Init
<1>1. <<>> \in Seq(Cells) /\ 0 % Page = 0
  BY Zenon, EmptySeq, ModOfZero
<1>2. QED BY <1>1 DEF IInv, TypeOK, CallInv, MapInv, RoomInv, CopiedInv

\* Every step keeps the invariant.
LEMMA Step == ASSUME IInv, [Next]_vars PROVE IInv'
<1> USE DEF IInv, TypeOK, CallInv, MapInv, RoomInv, CopiedInv,
        vars, fileVars, mapVars, callVars, isValid
<1>0. <<>> \in Seq(Cells) /\ 0 % Page = 0
  BY Zenon, EmptySeq, ModOfZero
<1>1. CASE Construct
  BY <1>1 DEF Construct
<1>2. CASE EnoughCapacity
  <2>1. op = "ctor" => ~(Goal <= capacity)
    BY <1>2, GoalBound DEF EnoughCapacity
  <2>2. CASE op = "push"
    BY <1>2, <2>2, GoalBound DEF EnoughCapacity, AfterReserve
  <2>3. CASE op = "resize"
    BY <1>2, <2>3, GoalBound DEF EnoughCapacity, AfterReserve
  <2>4. QED BY <1>2, <2>1, <2>2, <2>3 DEF EnoughCapacity
<1>3. CASE Remap
  <2>1. /\ Truncated(Goal) \in Seq(Cells)
        /\ Len(Truncated(Goal)) = Goal - HeaderLen
    BY GoalBound, TruncatedIs
  <2>2. /\ op \in {"ctor", "push", "resize"}
        /\ pc' = [ctor |-> "init", push |-> "copy", resize |-> "store"][op]
        /\ capacity' = Goal /\ UNCHANGED <<magic, size, callVars>>
    BY <1>3 DEF Remap, AfterReserve
  <2>3. /\ data' \in Seq(Cells)
        /\ handle' \in {"null", "mapped", "failed"}
        /\ handle' = "mapped" => Len(data') + HeaderLen = Goal \/ "ftruncate" \in Fails
    BY <1>3, <2>1, GoalBound DEF Remap, ResizeFile
  <2>4. CASE op = "ctor"
    BY <2>2, <2>3, <2>4, GoalBound
  <2>5. CASE op = "push"
    BY <2>2, <2>3, <2>5, GoalBound
  <2>6. CASE op = "resize"
    BY <2>2, <2>3, <2>6, GoalBound
  <2>7. QED BY <2>2, <2>4, <2>5, <2>6
<1>4. CASE InitHeader
  BY <1>4 DEF InitHeader
<1>5. ASSUME NEW d \in Blocks, Push(d) PROVE IInv'
  <2>1. d \in Seq(Cells) /\ Len(d) \in Nat
    OBVIOUS
  <2>2. QED BY <1>5, <2>1 DEF Push
<1>6. ASSUME NEW n \in 0 .. MaxSize, Resize(n) PROVE IInv'
  BY <1>0, <1>6 DEF Resize
<1>7. CASE Copy
  <2>1. size + Len(arg) <= Len(data) /\ Len(arg) \in Nat /\ new_size = size + Len(arg)
    BY <1>7 DEF Copy
  <2>2. \A i \in 1 .. Len(arg) : data'[size + i] = arg[i]
    <3>1. TAKE i \in 1 .. Len(arg)
    <3>2. size + i \in 1 .. Len(data) /\ size + i \in size + 1 .. size + Len(arg)
      BY <2>1
    <3>3. (size + i) - size = i
      BY <2>1
    <3>4. QED BY <1>7, <3>2, <3>3, CopyIs DEF Copy
  <2>3. QED BY <1>7, <2>1, <2>2, CopyIs DEF Copy
<1>8. CASE CopyBehindFile
  BY <1>0, <1>8, CopyIs DEF CopyBehindFile, EndOfProcess
<1>9. CASE StoreSize
  BY <1>0, <1>9 DEF StoreSize
<1>10. CASE Clear
  BY <1>10 DEF Clear
<1>11. CASE Exit
  BY <1>0, <1>11 DEF Exit, EndOfProcess
<1>12. CASE UNCHANGED vars
  BY <1>12
<1>13. QED
  BY <1>1, <1>2, <1>3, <1>4, <1>5, <1>6, <1>7, <1>8, <1>9, <1>10, <1>11, <1>12 DEF Next

LEMMA Invariance == Spec => []IInv
<1>1. QED BY InitIInv, Step, PTL DEF Spec

-----------------------------------------------------------------------------
(* Intact contents                                                            *)

\* Only the constructor's Reserve_ can cut the contents, and a Resize of a mapping
\* that has another length than its file.
LEMMA CutStep ==
    ASSUME IInv, [Next]_vars, Intact
    PROVE  Intact' \/ (op = "ctor" /\ pc = "reserve") \/ (op = "resize" /\ Untruncated)
<1> USE DEF IInv, TypeOK, CallInv, MapInv, RoomInv, CopiedInv, Intact,
        vars, fileVars, mapVars, callVars
<1>1. CASE Remap
  <2>1. /\ size' = size /\ pc = "reserve" /\ Goal > capacity
        /\ data' = data \/ data' = Truncated(Goal)
    BY <1>1 DEF Remap, ResizeFile
  <2>2. Len(Truncated(Goal)) = Goal - HeaderLen
    BY GoalBound, TruncatedIs
  <2>3. op \in {"push", "resize"} \/ op = "ctor"
    BY <2>1
  <2>4. CASE op = "push"
    BY <2>1, <2>2, <2>4, GoalBound
  <2>5. CASE op = "resize"
    BY <2>1, <2>2, <2>5, GoalBound DEF Untruncated
  <2>6. QED BY <2>1, <2>3, <2>4, <2>5
<1>2. CASE InitHeader
  BY <1>2 DEF InitHeader
<1>3. CASE Copy \/ CopyBehindFile
  BY <1>3, CopyIs DEF Copy, CopyBehindFile
<1>4. CASE StoreSize
  <2>1. size' = new_size /\ data' = data /\ pc = "store" /\ handle = "mapped"
    BY <1>4 DEF StoreSize
  <2>2. CASE op = "push"
    BY <2>1, <2>2
  <2>3. CASE op = "resize"
    BY <2>1, <2>3 DEF Untruncated
  <2>4. QED BY <2>1, <2>2, <2>3
<1>5. CASE Clear
  BY <1>5 DEF Clear
<1>6. CASE UNCHANGED fileVars
  BY <1>6
<1>7. QED
  BY <1>1, <1>2, <1>3, <1>4, <1>5, <1>6
  DEF Next, Construct, EnoughCapacity, Push, Resize, Exit, EndOfProcess

\* The contents as long as they are intact.
LEMMA ContentsAre ==
    ASSUME TypeOK, Intact
    PROVE  /\ Contents \in Seq(Cells) /\ Len(Contents) = size
           /\ \A i \in 1 .. size : Contents[i] = data[i]
<1>1. /\ size \in 0 .. Len(data) /\ Len(data) \in Nat /\ data \in Seq(Cells)
      /\ Contents = SubSeq(data, 1, size)
  BY DEF TypeOK, Intact, Contents
<1>2. \A i \in 1 .. size : data[i] \in Cells
  BY <1>1
<1>3. Contents = [i \in 1 .. size |-> data[i]]
  BY <1>1
<1>4. QED BY <1>1, <1>2, <1>3

\* Two mappings that agree on the first cells have the same contents.
LEMMA SameContents ==
    ASSUME TypeOK, Intact, TypeOK', Intact', size' = size,
           \A i \in 1 .. size : data'[i] = data[i]
    PROVE  Contents' = Contents
<1>1. /\ Contents \in Seq(Cells) /\ Len(Contents) = size
      /\ \A i \in 1 .. size : Contents[i] = data[i]
  BY ContentsAre
<1>2. /\ Contents' \in Seq(Cells) /\ Len(Contents') = size'
      /\ \A i \in 1 .. size' : Contents'[i] = data'[i]
  <2>1. /\ size' \in 0 .. Len(data') /\ Len(data') \in Nat /\ data' \in Seq(Cells)
        /\ Contents' = SubSeq(data', 1, size')
    BY DEF TypeOK, Intact, Contents
  <2>2. \A i \in 1 .. size' : data'[i] \in Cells
    BY <2>1
  <2>3. Contents' = [i \in 1 .. size' |-> data'[i]]
    BY <2>1
  <2>4. QED BY <2>1, <2>2, <2>3
<1>3. QED BY <1>1, <1>2, SeqEqual

-----------------------------------------------------------------------------
(* The refinement                                                             *)

LEMMA InitBuffer == Init => Abstract!BInit
<1> SUFFICES ASSUME Init PROVE Abstract!BInit
  OBVIOUS
<1>1. Contents = <<>>
  <2>1. data = <<>> /\ size = 0 /\ SubSeq(data, 1, size) = <<>>
    BY DEF Init
  <2>2. QED BY <2>1 DEF Contents, Intact
<1>2. Calling = Abstract!NoCall
  BY DEF Init, Calling, Abstract!NoCall
<1>3. QED BY <1>1, <1>2 DEF Abstract!BInit

\* Between two intact states every step is one of Buffer or leaves it alone.
LEMMA BufferStep ==
    ASSUME IInv, IInv', [Next]_vars, Intact, Intact'
    PROVE  Abstract!BNext \/ UNCHANGED Abstract!bvars
<1> USE DEF IInv, vars, fileVars, mapVars, callVars, Abstract!bvars
<1>c. ASSUME size' = size, \A i \in 1 .. size : data'[i] = data[i] PROVE Contents' = Contents
  BY <1>c, SameContents
<1>1. CASE Construct
  <2>1. Contents' = Contents
    BY <1>1, <1>c DEF Construct
  <2>2. Calling' = Calling
    BY <1>1 DEF Construct, Calling, CallInv
  <2>3. QED BY <2>1, <2>2
<1>2. CASE EnoughCapacity
  <2>1. Contents' = Contents
    BY <1>2, <1>c DEF EnoughCapacity
  <2>2. Calling' = Calling
    BY <1>2 DEF EnoughCapacity, Calling
  <2>3. QED BY <2>1, <2>2
<1>3. CASE Remap
  <2>1. data' = data \/ data' = Truncated(Goal)
    BY <1>3 DEF Remap, ResizeFile
  <2>2. \A i \in 1 .. size : data'[i] = data[i]
    <3>1. /\ Len(Truncated(Goal)) = Goal - HeaderLen
          /\ \A i \in 1 .. Goal - HeaderLen : i <= Len(data) => Truncated(Goal)[i] = data[i]
      BY GoalBound, TruncatedIs
    <3>2. size <= Len(data) /\ size <= Len(data') /\ size \in Nat /\ Len(data) \in Nat
      BY <1>3 DEF Remap, Intact, TypeOK
    <3>3. QED BY <2>1, <3>1, <3>2, GoalBound, SMTT(20)
  <2>3. Contents' = Contents
    BY <1>3, <1>c, <2>2 DEF Remap
  <2>4. Calling' = Calling
    BY <1>3 DEF Remap, Calling
  <2>5. QED BY <2>3, <2>4
<1>4. CASE InitHeader
  <2>1. Contents' = Contents
    <3>1. size' = size /\ data' = data
      BY <1>4 DEF InitHeader, MapInv
    <3>2. QED BY <1>c, <3>1
  <2>2. Calling' = Calling
    BY <1>4 DEF InitHeader, Calling, CallInv
  <2>3. QED BY <2>1, <2>2
<1>5. ASSUME NEW d \in Blocks, Push(d) PROVE Abstract!BNext
  <2>1. Contents' = Contents
    BY <1>5, <1>c DEF Push
  <2>2. Calling = Abstract!NoCall
    BY <1>5 DEF Push, Calling, Abstract!NoCall, CallInv
  <2>3. Calling' = [op |-> "push", arg |-> d, len |-> Len(Contents) + Len(d)]
    BY <1>5, ContentsAre DEF Push, Calling
  <2>4. QED BY <2>1, <2>2, <2>3 DEF Abstract!BNext, Abstract!BPush
<1>6. ASSUME NEW n \in 0 .. MaxSize, Resize(n) PROVE Abstract!BNext
  <2>1. Contents' = Contents
    BY <1>6, <1>c DEF Resize
  <2>2. Calling = Abstract!NoCall
    BY <1>6 DEF Resize, Calling, Abstract!NoCall, CallInv
  <2>3. Calling' = [op |-> "resize", arg |-> <<>>, len |-> n] /\ n \in Nat
    BY <1>6 DEF Resize, Calling
  <2>4. QED BY <2>1, <2>2, <2>3 DEF Abstract!BNext, Abstract!BResize
<1>7. CASE Copy \/ CopyBehindFile
  <2>1. \A i \in 1 .. size : data'[i] = data[i]
    <3>1. /\ size \in Nat /\ Len(data) \in Nat /\ size <= Len(data)
          /\ TypeOK /\ BehindTheOld
      BY <1>7 DEF Copy, CopyBehindFile, Intact, TypeOK
    <3>2. \A i \in 1 .. Len(data) :
             data'[i] = IF i \in size + 1 .. size + Len(arg) THEN arg[i - size] ELSE data[i]
      BY <3>1, CopyIs
    <3>3. \A i \in 1 .. size : i \in 1 .. Len(data) /\ i \notin size + 1 .. size + Len(arg)
      BY <3>1
    <3>4. QED BY <3>2, <3>3
  <2>2. Contents' = Contents
    BY <1>7, <1>c, <2>1 DEF Copy, CopyBehindFile
  <2>3. Calling' = Calling \/ Calling' = Abstract!NoCall
    BY <1>7 DEF Copy, CopyBehindFile, EndOfProcess, Calling, Abstract!NoCall
  <2>4. QED BY <2>2, <2>3 DEF Abstract!BNext, Abstract!BExit
<1>8. CASE StoreSize
  <2> DEFINE old == Contents
             new == SubSeq(data, 1, new_size)
  <2>1. /\ op \in {"push", "resize"} /\ new_size \in Nat /\ new_size <= Len(data)
        /\ data \in Seq(Cells) /\ arg \in Seq(Cells) /\ size \in Nat
        /\ op = "push" => new_size = size + Len(arg)
    BY <1>8 DEF StoreSize, CallInv, MapInv, RoomInv, Intact, TypeOK
  <2>2. /\ new \in Seq(Cells) /\ Len(new) = new_size
        /\ \A i \in 1 .. new_size : new[i] = data[i]
    <3>1. new = [i \in 1 .. new_size |-> data[i]] /\ \A i \in 1 .. new_size : data[i] \in Cells
      BY <2>1
    <3>2. QED BY <2>1, <3>1
  <2>3. Contents' = new
    BY <1>8 DEF StoreSize, Contents, Intact
  <2>4. /\ old \in Seq(Cells) /\ Len(old) = size
        /\ \A i \in 1 .. size : old[i] = data[i]
    BY ContentsAre
  <2>5. \A i \in DOMAIN old \cap DOMAIN new : new[i] = old[i]
    BY <2>1, <2>2, <2>4
  <2>6. ASSUME op = "push" PROVE new = old \o arg
    <3>1. /\ old \o arg \in Seq(Cells) /\ Len(old \o arg) = size + Len(arg)
          /\ \A i \in 1 .. size + Len(arg) :
                (old \o arg)[i] = IF i <= size THEN old[i] ELSE arg[i - size]
      BY <2>1, <2>4, ConcatProperties, ZenonT(30)
    <3>2. \A i \in 1 .. Len(arg) : data[size + i] = arg[i]
      BY <1>8, <2>6 DEF StoreSize, CopiedInv
    <3>3. \A i \in 1 .. size + Len(arg) : i > size => data[i] = arg[i - size]
      <4>1. TAKE i \in 1 .. size + Len(arg)
      <4>2. HAVE i > size
      <4>3. i - size \in 1 .. Len(arg) /\ size + (i - size) = i
        BY <2>1, <4>2
      <4>4. QED BY <3>2, <4>3
    <3>4. \A i \in 1 .. Len(new) : new[i] = (old \o arg)[i]
      BY <2>1, <2>2, <2>4, <2>6, <3>1, <3>3
    <3>5. QED BY <2>1, <2>2, <2>6, <3>1, <3>4, SeqEqual
  <2>7. /\ Calling = [op |-> op, arg |-> arg, len |-> new_size]
        /\ Calling' = Abstract!NoCall
        /\ Calling # Abstract!NoCall
    BY <1>8, <2>1 DEF StoreSize, Calling, Abstract!NoCall
  <2> HIDE DEF old, new
  <2>8. Abstract!BReturn
    BY <2>2, <2>3, <2>5, <2>6, <2>7 DEF Abstract!BReturn, old
  <2>9. QED BY <2>8 DEF Abstract!BNext
<1>9. CASE Clear
  <2>1. Contents' = <<>>
    <3>1. data' \in Seq(Cells) /\ size' = 0 /\ SubSeq(data', 1, size') = <<>>
      BY <1>9 DEF Clear, TypeOK
    <3>2. QED BY <3>1 DEF Contents, Intact
  <2>2. Calling = Abstract!NoCall /\ Calling' = Calling
    BY <1>9 DEF Clear, Calling, Abstract!NoCall, CallInv
  <2>3. QED BY <2>1, <2>2 DEF Abstract!BNext, Abstract!BClear
<1>10. CASE Exit
  <2>1. Contents' = Contents
    BY <1>10, <1>c DEF Exit, EndOfProcess
  <2>2. Calling' = Abstract!NoCall
    BY <1>10 DEF Exit, EndOfProcess, Calling, Abstract!NoCall
  <2>3. QED BY <2>1, <2>2 DEF Abstract!BNext, Abstract!BExit
<1>11. CASE UNCHANGED vars
  BY <1>11, <1>c DEF Calling
<1>12. QED
  BY <1>1, <1>2, <1>3, <1>4, <1>5, <1>6, <1>7, <1>8, <1>9, <1>10, <1>11 DEF Next

-----------------------------------------------------------------------------

\* The variables of a mapping keep their types: in particular the file's cells
\* are cells whatever is truncated and copied.
THEOREM TypeCorrect == Spec => []TypeOK
<1>1. IInv => TypeOK
  BY DEF IInv
<1>2. QED BY <1>1, Invariance, PTL

\* No Push copies beyond its mapping (mmap_aux.cc 31-39, 88-106), for any page
\* size, header and blocks.
THEOREM CopiesInBounds == Spec => []CopyInBounds
<1>1. IInv => CopyInBounds
  BY DEF IInv, TypeOK, CallInv, MapInv, RoomInv, CopyInBounds
<1>2. QED BY <1>1, Invariance, PTL

\* Nothing but the constructor's Reserve_ takes contents away (mmap_aux.cc 13-18),
\* but for a Resize of a mapping whose ftruncate has failed.
THEOREM CutsWhenReopened == Spec => OnlyReopeningCuts
<1>1. IInv /\ [Next]_vars => [Intact => Intact' \/ (op = "ctor" /\ pc = "reserve")
                                             \/ (op = "resize" /\ Untruncated)]_vars
  BY CutStep
<1>2. QED BY <1>1, Invariance, PTL DEF Spec, OnlyReopeningCuts

\* A mapping implements Buffer as long as it is not cut.
THEOREM MappingIsBuffer == Spec => ImplementsBuffer
<1>1. IInv /\ IInv' /\ [Next]_vars
          => [Intact /\ Intact' => Abstract!BNext]_(Abstract!bvars)
  BY BufferStep
<1>2. QED BY <1>1, InitBuffer, Invariance, PTL DEF Spec, ImplementsBuffer
=============================================================================
