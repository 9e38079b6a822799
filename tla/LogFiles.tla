------------------------------ MODULE LogFiles ------------------------------
(* The log files of the sinks that share a directory: GetFilePath_ of each    *)
(* sink names the file for the next chunk, EliminateFiles_ of EffectiveSink,  *)
(* a task that its timer repeats, removes the oldest ones.  All sinks have    *)
(* the same code for names but for a flag; only EffectiveSink eliminates.     *)
(*                                                                            *)
(* A sink names and opens a file in two steps, the elimination visits one     *)
(* file in a step; both tasks of EffectiveSink run on its strand, the other   *)
(* sinks in threads of their own.  Sizes are in bytes, of which a chunk has a *)
(* few, and the time is the second that a name shows.                         *)
EXTENDS Naturals, Sequences, FiniteSets, Elements, Space

CONSTANTS Sinks,        \* the sinks with this directory and file_name
          Effective,    \* the one of them that eliminates files
          Confs,        \* the values of conf_.single_size and conf_.total_size
          ChunkSizes,   \* bytes of a ChunkHeader and its data
          LargestChunk, \* the largest of them
          Small,        \* what std::filebuf can keep back
          MaxChunks,    \* bound: chunks written in a behaviour
          MaxTime,      \* bound: seconds
          MaxRestarts   \* bound: sinks that end and are constructed again

ASSUME FilesAssumption ==
    /\ Effective \in Sinks
    /\ Confs \subseteq [single_size : Nat, total_size : Nat]
    /\ ChunkSizes \subseteq 1..LargestChunk
    /\ LargestChunk \in Nat
    /\ {Small, MaxChunks, MaxTime, MaxRestarts} \subseteq Nat

\* file_name, the second, the flag of the sink, and an index, 0 for none.
Names == [time : Nat, flag : Sinks, index : Nat]
NoPath == [time |-> 0, flag |-> Effective, index |-> 0]

VARIABLES
    conf,       \* conf_, in MB
    now,        \* the second that the system clock shows
    files,      \* every file there ever was, in the order of creation
    recent,     \* the files in the directory, the last one written to first
    file_path,  \* of each sink, NoPath when empty
    ofs,        \* of each sink: the file it has open, or 0
    buf,        \* of each sink: bytes in its std::filebuf
    pc,         \* of each sink: whether a file has been named and not opened
    listing,    \* files of EliminateFiles_: the directory, newest first
    visited,    \* how many of them it has seen
    cur_total_size,
    chunks, restarts,   \* history: for the bounds
    purged      \* history: the seconds of which a file was eliminated

walkVars == <<listing, visited, cur_total_size>>
sinkVars == <<file_path, ofs, buf, pc>>
dirVars  == <<files, recent>>
vars == <<conf, now, dirVars, sinkVars, walkVars, chunks, restarts, purged>>

Init ==
    /\ conf \in Confs
    /\ now = 1
    /\ files = <<>> /\ recent = <<>>
    /\ file_path = [s \in Sinks |-> NoPath]
    /\ ofs = [s \in Sinks |-> 0]
    /\ buf = [s \in Sinks |-> 0]
    /\ pc = [s \in Sinks |-> "idle"]
    /\ listing = <<>> /\ visited = 0 /\ cur_total_size = 0
    /\ chunks = 0 /\ restarts = 0 /\ purged = {}

single_size == space_cast(conf.single_size, MB, B)
total_size == space_cast(conf.total_size, MB, B)

InDir == Elems(recent)

\* The file of that name, or 0.
Lookup(name) == LET same == {i \in InDir : files[i].name = name}
                IN IF same = {} THEN 0 ELSE CHOOSE i \in same : TRUE

GetFileSize(name) == IF Lookup(name) = 0 THEN 0 ELSE files[Lookup(name)].size

-----------------------------------------------------------------------------
(* GetFilePath_                                                               *)

GetDataTimePath(s) == [time |-> now, flag |-> s, index |-> 0]

OverTotal(s) == GetFileSize(file_path[s]) > total_size
TooLong(s) == GetFileSize(file_path[s]) > single_size

\* The directory is searched for names that contain the second, whatever flag
\* or index follows it.
CountOwn(s) == Cardinality({i \in InDir : files[i].name.time = now /\ files[i].name.flag = s}) - 1
CountSame(s) == Cardinality({i \in InDir : files[i].name.time = now})

NewPath(s) == IF Lookup(GetDataTimePath(s)) = 0
              THEN GetDataTimePath(s)
              ELSE [GetDataTimePath(s) EXCEPT !.index = CountSame(s)]

NextPath(s) == IF file_path[s] = NoPath THEN GetDataTimePath(s)
               ELSE IF TooLong(s) THEN NewPath(s)
               ELSE file_path[s]

\* A task of the strand runs when no other one does.
StrandFree(s) == s = Effective => listing = <<>>

GetFilePath(s) ==
    /\ pc[s] = "idle"
    /\ StrandFree(s)
    /\ chunks < MaxChunks
    /\ chunks' = chunks + 1
    /\ file_path' = [file_path EXCEPT ![s] = NextPath(s)]
    /\ pc' = [pc EXCEPT ![s] = IF ofs[s] = 0 \/ file_path'[s] # file_path[s]
                               THEN "open" ELSE "write"]
    /\ UNCHANGED <<conf, now, dirVars, ofs, buf, walkVars, restarts, purged>>

-----------------------------------------------------------------------------
(* The rest of CacheToFile_                                                   *)

\* What the kernel gets of a file.  A file that was removed while it was open
\* grows, but has no place in the directory any more.  The one written to last is
\* in front: the kernel's times are coarser than that, and leave open the order
\* of two files that were written in the same tick, which is left out here.
Put(f, n) == [f EXCEPT !.size = @ + n]
Without(r, i) == LET k == CHOOSE k \in 1..Len(r) : r[k] = i
                 IN SubSeq(r, 1, k - 1) \o SubSeq(r, k + 1, Len(r))
Touch(r, i) == IF i \in Elems(r) THEN <<i>> \o Without(r, i) ELSE r

\* close() empties the buffer into the old file, if there is one.
Closed(s) ==
    IF ofs[s] = 0 \/ buf[s] = 0 THEN [fs |-> files, rs |-> recent]
    ELSE [fs |-> [files EXCEPT ![ofs[s]] = Put(@, buf[s])], rs |-> Touch(recent, ofs[s])]

\* open() for appending makes a file only when there is none of that name.
OpenFile(s) ==
    /\ pc[s] = "open"
    /\ LET old == Lookup(file_path[s])
       IN IF old = 0
          THEN /\ files' = Append(Closed(s).fs, [name |-> file_path[s], size |-> 0, opened |-> 1])
               /\ recent' = <<Len(files')>> \o Closed(s).rs
               /\ ofs' = [ofs EXCEPT ![s] = Len(files')]
          ELSE /\ files' = [Closed(s).fs EXCEPT ![old].opened = @ + 1]
               /\ recent' = Closed(s).rs
               /\ ofs' = [ofs EXCEPT ![s] = old]
    /\ buf' = [buf EXCEPT ![s] = 0]
    /\ pc' = [pc EXCEPT ![s] = "write"]
    /\ UNCHANGED <<conf, now, file_path, walkVars, chunks, restarts, purged>>

\* A chunk that fits may stay in the buffer; any other goes to the kernel with
\* all that was there.
WriteChunk(s) ==
    /\ pc[s] = "write"
    /\ pc' = [pc EXCEPT ![s] = "idle"]
    /\ \E n \in ChunkSizes :
          \/ /\ buf[s] + n <= Small
             /\ buf' = [buf EXCEPT ![s] = @ + n]
             /\ UNCHANGED dirVars
          \/ /\ files' = [files EXCEPT ![ofs[s]] = Put(@, buf[s] + n)]
             /\ recent' = Touch(recent, ofs[s])
             /\ buf' = [buf EXCEPT ![s] = 0]
    /\ UNCHANGED <<conf, now, file_path, ofs, walkVars, chunks, restarts, purged>>

\* The destructor, when no task of the sink is under way.  Another sink may be
\* constructed in its place: it does not know the files of the first.
Close(s) ==
    /\ restarts < MaxRestarts
    /\ restarts' = restarts + 1
    /\ pc[s] = "idle"
    /\ StrandFree(s)
    /\ files' = Closed(s).fs /\ recent' = Closed(s).rs
    /\ file_path' = [file_path EXCEPT ![s] = NoPath]
    /\ ofs' = [ofs EXCEPT ![s] = 0]
    /\ buf' = [buf EXCEPT ![s] = 0]
    /\ UNCHANGED <<conf, now, pc, walkVars, chunks, purged>>

\* The process ends at any step, and starts again.
Crash ==
    /\ restarts < MaxRestarts
    /\ restarts' = restarts + 1
    /\ file_path' = [s \in Sinks |-> NoPath]
    /\ ofs' = [s \in Sinks |-> 0]
    /\ buf' = [s \in Sinks |-> 0]
    /\ pc' = [s \in Sinks |-> "idle"]
    /\ listing' = <<>> /\ visited' = 0 /\ cur_total_size' = 0
    /\ UNCHANGED <<conf, now, dirVars, chunks, purged>>

-----------------------------------------------------------------------------
(* EliminateFiles_                                                            *)

\* The files are listed and sorted by the time of their last write.
OldestFirst == [k \in 1..Len(recent) |-> recent[Len(recent) + 1 - k]]
NewestFirst == recent

List ==
    /\ listing = <<>> /\ recent # <<>>
    /\ pc[Effective] = "idle"
    /\ listing' = NewestFirst
    /\ visited' = 0 /\ cur_total_size' = 0
    /\ UNCHANGED <<conf, now, dirVars, sinkVars, chunks, restarts, purged>>

Visited == listing[visited + 1]

\* As long as the limit is not reached the files are added up.
NotCounted == cur_total_size' = files[Visited].size
Counted == cur_total_size' = cur_total_size + files[Visited].size

Keep ==
    /\ visited < Len(listing)
    /\ cur_total_size < total_size
    /\ Counted
    /\ visited' = visited + 1
    /\ UNCHANGED <<conf, now, dirVars, sinkVars, listing, chunks, restarts, purged>>

RemoveFile ==
    /\ visited < Len(listing)
    /\ cur_total_size >= total_size
    /\ recent' = IF Visited \in InDir THEN Without(recent, Visited) ELSE recent
    /\ purged' = purged \cup {files[Visited].name.time}
    /\ visited' = visited + 1
    /\ UNCHANGED <<conf, now, files, sinkVars, listing, cur_total_size, chunks, restarts>>

Return ==
    /\ listing # <<>> /\ visited = Len(listing)
    /\ listing' = <<>> /\ visited' = 0 /\ cur_total_size' = 0
    /\ UNCHANGED <<conf, now, dirVars, sinkVars, chunks, restarts, purged>>

EliminateFiles == List \/ Keep \/ RemoveFile \/ Return

Tick ==
    /\ now < MaxTime
    /\ now' = now + 1
    /\ UNCHANGED <<conf, dirVars, sinkVars, walkVars, chunks, restarts, purged>>

Next ==
    \/ \E s \in Sinks : GetFilePath(s) \/ OpenFile(s) \/ WriteChunk(s) \/ Close(s)
    \/ Crash
    \/ EliminateFiles
    \/ Tick

Spec == Init /\ [][Next]_vars

\* A sink finishes the chunk it is writing; the timer repeats the elimination
\* for ever, and the strand runs it.
Fairness ==
    /\ \A s \in Sinks : WF_vars(OpenFile(s) \/ WriteChunk(s))
    /\ WF_vars(EliminateFiles)

FairSpec == Spec /\ Fairness

-----------------------------------------------------------------------------
(* Properties                                                                 *)

\* The variables have their types.
TypeOK ==
    /\ conf \in Confs
    /\ now \in Nat \ {0}
    /\ files \in Seq([name : Names, size : Nat, opened : Nat])
    /\ recent \in Seq(1..Len(files))
    /\ file_path \in [Sinks -> Names]
    /\ ofs \in [Sinks -> 0..Len(files)]
    /\ buf \in [Sinks -> Nat]
    /\ pc \in [Sinks -> {"idle", "open", "write"}]
    /\ \A s \in Sinks : pc[s] = "write" => ofs[s] # 0
    /\ listing \in Seq(1..Len(files))
    /\ visited \in 0..Len(listing)
    /\ cur_total_size \in Nat
    /\ {chunks, restarts} \subseteq Nat
    /\ purged \subseteq Nat

\* A sink whose file is too long gets a name that no file has (GetFilePath_
\* derives its suffix from the number of files of the second), unless a file of
\* this second was eliminated, whatever the other sinks do in the directory.
RotationFresh ==
    [][\A s \in Sinks :
          (pc[s] = "idle" /\ pc'[s] # "idle" /\ TooLong(s) /\ now \notin purged)
          => Lookup(file_path'[s]) = 0]_vars

\* The size in the directory lags behind by the buffer, and a new sink appends
\* to the file of its second without a look at it; yet each time a file is
\* opened adds at most a buffer and a chunk to the limit.  Not so when a file of
\* the second was eliminated: the next name may be the one that is too long.
FileBounded ==
    \A i \in InDir :
        files[i].name.time \in purged
        \/ files[i].size <= single_size + files[i].opened * (Small + LargestChunk)

\* The bytes of each file in r, of those that the sinks in S have named, and the
\* sum of the first n of such numbers, for each n.
Bytes(r, S) == [k \in 1..Len(r) |-> IF files[r[k]].name.flag \in S THEN files[r[k]].size ELSE 0]
SumUpTo(c) == LET sum[n \in 0..Len(c)] == IF n = 0 THEN 0 ELSE sum[n - 1] + c[n] IN sum

\* EliminateFiles_ removes the file that a sink made and has open only when what
\* other sinks have written since exhausts the limit: a sink that is alone in
\* its directory never writes to a file without a name.
OpenFileKept ==
    [][\A s \in Sinks :
          LET i == ofs[s]
          IN (i \in InDir /\ i \notin Elems(recent') /\ files[i].opened = 1)
             => SumUpTo(Bytes(listing, Sinks \ {s}))[visited] >= total_size]_vars

\* When the sinks have no more to write, the directory comes to hold at most one
\* file more than total_size has room for, and stays so.
WithinBudget ==
    recent = <<>> \/ SumUpTo(Bytes(recent, Sinks))[Len(recent) - 1] < total_size
Eliminated == <>[]WithinBudget
=============================================================================
