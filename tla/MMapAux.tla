------------------------------- MODULE MMapAux ------------------------------
(* logger::MMapAux (mmap/mmap_aux.cc, mmap_aux_linux.cc): a growing buffer in *)
(* a mapped file, with a header that holds a magic number and the size of the *)
(* contents.  The process may end between any two steps; the file, to which   *)
(* the mapping is shared, keeps what was stored.                              *)
(*                                                                            *)
(* Sizes are in cells of which a page and the header hold a few.  Callers     *)
(* serialize their calls, so there is one call at a time.  (Operators named   *)
(* before the one the code has, such as WithoutHeader, are the faults the     *)
(* properties must detect.)                                                   *)
EXTENDS Naturals, Sequences

CONSTANTS Cells,           \* what a cell can hold
          Zero,            \* what a new page holds
          Page,            \* GetPageSize()
          HeaderLen,       \* sizeof(MMapHeader)
          DefaultCapacity, \* kDafaultCapacity
          Blocks,          \* bound: what is pushed at once
          MaxSize,         \* bound: the size of the contents
          Fails            \* the system calls that may fail

SystemCalls == {"open", "ftruncate", "mmap"}

ASSUME MMapAssumption ==
    /\ Zero \in Cells
    /\ {Page, HeaderLen, DefaultCapacity} \subseteq Nat \ {0}
    /\ HeaderLen < DefaultCapacity
    /\ Blocks \subseteq Seq(Cells)
    /\ MaxSize \in Nat
    /\ Fails \subseteq SystemCalls

VARIABLES
    magic,     \* the file: whether its header has kMagic
    size,      \* the file: the size in its header
    data,      \* the file: the cells behind the header; an empty one has none
    handle,    \* handle_: "null", "mapped" or MAP_FAILED
    capacity,  \* capacity_
    pc,        \* where the call is; "closed" is no object, "open" no call
    op,        \* the call
    arg,       \* what Push copies
    new_size   \* the size the call stores at its end

fileVars == <<magic, size, data>>
mapVars  == <<handle, capacity>>
callVars == <<op, arg, new_size>>
vars == <<fileVars, mapVars, pc, callVars>>

Init ==
    /\ magic = FALSE /\ size = 0 /\ data = <<>>
    /\ handle = "null" /\ capacity = 0
    /\ pc = "closed" /\ op = "none" /\ arg = <<>> /\ new_size = 0

-----------------------------------------------------------------------------
(* Capacities                                                                 *)

\* GetValidCapacity: whole pages.
RoundUp(n) == ((n + Page - 1) \div Page) * Page

\* EnsureCapacity_: the header is part of the mapping.
WithoutHeader(n) == RoundUp(n)
Needed(n) == RoundUp(n + HeaderLen)

\* The constructor asks for the size of file_path after it was moved from: the
\* path is empty, the size 0, and the default remains.
Requested == RoundUp(DefaultCapacity)

\* The capacity that Reserve_ is called for.
Goal == IF op = "ctor" THEN Requested ELSE Needed(new_size)

\* ftruncate: the file is cut, or extended with zeros.
Truncated(n) == [i \in 1 .. n - HeaderLen |-> IF i <= Len(data) THEN data[i] ELSE Zero]

isValid == handle = "mapped" /\ magic

-----------------------------------------------------------------------------
(* The steps of a call                                                        *)

Construct ==
    /\ pc = "closed"
    /\ op' = "ctor"
    /\ pc' = "reserve"
    /\ UNCHANGED <<fileVars, mapVars, arg, new_size>>

\* What follows Reserve_ in each call.
AfterReserve == [ctor |-> "init", push |-> "copy", resize |-> "store"][op]

\* Reserve_ finds the capacity sufficient.
EnoughCapacity ==
    /\ pc = "reserve"
    /\ Goal <= capacity
    /\ pc' = AfterReserve
    /\ UNCHANGED <<fileVars, mapVars, callVars>>

\* Reserve_: unmap, open, truncate, map.  After a failure, which nobody looks
\* at, handle_ is null (open) or MAP_FAILED (mmap), or the file is as long as it
\* was (ftruncate), which the mapping then is not.
ResizeFile == data' = Truncated(Goal)

Remap ==
    /\ pc = "reserve"
    /\ Goal > capacity
    /\ \/ "open" \in Fails /\ handle' = "null" /\ UNCHANGED data
       \/ /\ ResizeFile \/ ("ftruncate" \in Fails /\ UNCHANGED data)
          /\ handle' = "mapped" \/ ("mmap" \in Fails /\ handle' = "failed")
    /\ capacity' = Goal
    /\ pc' = AfterReserve
    /\ UNCHANGED <<magic, size, callVars>>

\* Init_.  Without a mapping it returns; MAP_FAILED is used like an address, and
\* the header of an empty file is behind its end, which ends the process (Exit).
InitHeader ==
    /\ pc = "init"
    /\ handle = "null" \/ (handle = "mapped" /\ data # <<>>)
    /\ IF handle = "mapped" /\ ~magic THEN magic' = TRUE /\ size' = 0
                                      ELSE UNCHANGED <<magic, size>>
    /\ pc' = "open"
    /\ op' = "none"
    /\ UNCHANGED <<data, mapVars, arg, new_size>>

\* Push and Resize on a valid mapping; on another one they do nothing.
Push(d) ==
    /\ pc = "open" /\ isValid
    /\ size + Len(d) <= MaxSize
    /\ op' = "push" /\ arg' = d /\ new_size' = size + Len(d)
    /\ pc' = "reserve"
    /\ UNCHANGED <<fileVars, mapVars>>

Resize(n) ==
    /\ pc = "open" /\ isValid
    /\ op' = "resize" /\ arg' = <<>> /\ new_size' = n
    /\ pc' = "reserve"
    /\ UNCHANGED <<fileVars, mapVars>>

\* memcpy to Data() + Size(), which without a mapping ends the process.
CopyFrom(start) ==
    data' = [i \in 1 .. Len(data) |->
               IF i \in start + 1 .. start + Len(arg) THEN arg[i - start] ELSE data[i]]
OverTheOld == CopyFrom(0)
BehindTheOld == CopyFrom(size)

Copy ==
    /\ pc = "copy"
    /\ handle = "mapped"
    /\ size + Len(arg) <= Len(data)
    /\ BehindTheOld
    /\ pc' = "store"
    /\ UNCHANGED <<magic, size, mapVars, callVars>>

\* The call ends with the store of the new size in the header.
StoreSize ==
    /\ pc = "store"
    /\ handle = "mapped"
    /\ size' = new_size
    /\ pc' = "open" /\ op' = "none" /\ arg' = <<>> /\ new_size' = 0
    /\ UNCHANGED <<magic, data, mapVars>>

Clear ==
    /\ pc = "open" /\ isValid
    /\ size' = 0
    /\ UNCHANGED <<magic, data, mapVars, pc, callVars>>

EndOfProcess ==
    /\ handle' = "null" /\ capacity' = 0
    /\ pc' = "closed" /\ op' = "none" /\ arg' = <<>> /\ new_size' = 0

\* The copy comes to a page that the file does not have.
CopyBehindFile ==
    /\ pc = "copy"
    /\ handle = "mapped"
    /\ size + Len(arg) > Len(data)
    /\ BehindTheOld
    /\ EndOfProcess
    /\ UNCHANGED <<magic, size>>

\* The process ends, here or at a bad address.
Exit ==
    /\ pc # "closed"
    /\ EndOfProcess
    /\ UNCHANGED fileVars

Next ==
    \/ Construct \/ EnoughCapacity \/ Remap \/ InitHeader
    \/ Copy \/ CopyBehindFile \/ StoreSize \/ Clear \/ Exit
    \/ \E d \in Blocks : Push(d)
    \/ \E n \in 0 .. MaxSize : Resize(n)

Spec == Init /\ [][Next]_vars

-----------------------------------------------------------------------------
(* Properties                                                                 *)

TypeOK ==
    /\ magic \in BOOLEAN
    /\ size \in Nat
    /\ data \in Seq(Cells)
    /\ handle \in {"null", "mapped", "failed"}
    /\ capacity \in Nat /\ capacity % Page = 0
    /\ pc \in {"closed", "open", "reserve", "init", "copy", "store"}
    /\ op \in {"none", "ctor", "push", "resize"}
    /\ arg \in Seq(Cells)
    /\ new_size \in Nat

\* The mapping is not as long as the file: its ftruncate has failed.
Untruncated == handle = "mapped" /\ Len(data) + HeaderLen # capacity

\* The copy of a Push stays within the mapping: through growth, failing system
\* calls, ends of the process and reopening, also of a mapping that has been cut
\* or is not as long as its file.
CopyInBounds ==
    pc = "copy" /\ handle = "mapped" => size + Len(arg) + HeaderLen <= capacity

\* The contents lie within the file.
Intact == size <= Len(data)

\* The only step that takes part of the contents away is the constructor's
\* Reserve_: no growth and no failure does, and no exit during either.  (A Resize
\* does not see that the mapping has another length than the file.)
OnlyReopeningCuts ==
    [][Intact => Intact' \/ (op = "ctor" /\ pc = "reserve")
                         \/ (op = "resize" /\ Untruncated)]_vars

Contents == SubSeq(data, 1, IF Intact THEN size ELSE Len(data))

Calling == [op |-> IF op = "ctor" THEN "none" ELSE op, arg |-> arg, len |-> new_size]

\* As long as it is not cut, the mapping is a buffer: a Push is there as a
\* whole or not at all, whenever the process ends, and nothing that is in
\* the buffer changes by the growth or the reopening of the file.
Abstract == INSTANCE Buffer WITH contents <- Contents, call <- Calling

ImplementsBuffer ==
    Abstract!BInit /\ [][Intact /\ Intact' => Abstract!BNext]_(Abstract!bvars)
=============================================================================
