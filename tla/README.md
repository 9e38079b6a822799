# A TLA+ model of FlashLog

FlashLog is a C++ logging library (`src/` holds the tests, `example/` a demo,
`src/logger/` is the library, `src/decode/` the offline decoder). A log call
formats, compresses and encrypts a message and stores it in a memory mapping;
a *strand* of the library's own scheduler writes full mappings to a log file.
This directory models the library and the decoder in TLA+, from the thread pool to the
lines that the decoder prints, checks the models with TLC on small instances and proves
the main invariants and refinements of eight of them with TLAPS for all instances.

Paths below are relative to the repository root. `PROJECT.json` lists, for every
definition, the source lines it stands for, every hazard with the line where it
bites, and the runs, theorems and findings.

1. [Inventory](#1-inventory)
2. [The models and the code](#2-the-models-and-the-code)
3. [Runs](#3-runs)
4. [Fairness](#4-fairness)
5. [Proofs](#5-proofs)
6. [Findings](#6-findings)
7. [What is not modelled](#7-what-is-not-modelled)
8. [Plan](#8-plan)

## 1. Inventory

```
  LogHandle / LogFactory          level filter, list of sinks, registry
        |  Log, Flush
        v
  sinks: EffectiveSink   MMapSink   Simple/Protobuf/Compress/Crypto   AsyncSink
        |                   |                  |                          |
        |  Push, Data       |  Push            |  Push                    |  Push
        v                   v                  v                          v
  MMapAux (two mappings) MMapAux            MemoryBuffer          MemoryBuffer (two)
        ^                                                              ^
        | CacheToFile_                                                 | CacheToFile_
  Scheduler directory: tag -> ThreadPool of one thread (a strand) <----+
        ^  PostTask, PostTaskAndGetResult, WAIT_TASKS_COMPLETED
  Scheduler::Timer: Run_ on a ThreadPool of its own
```

| Component (source) | State | Operations | What is hard | What makes it correct | Status |
|---|---|---|---|---|---|
| `ThreadPool` (`logger/scheduler/thread_pool.*`) | `is_running_`, `task_queue_`, `mtx_`, `cv_`, the threads | `Start`, `Stop`, `AddTask`, `AddReturnTask`, `AddThread`'s loop | lost and spurious wakeups, `Stop` against a worker about to block, restart | tasks are taken once, in order, never from an empty queue; a posted task runs; `Stop` returns and leaves no thread | modelled, proved |
| Scheduler directory, macros (`scheduler.h`, `scheduler.cc`) | `executor_dirc_` | `NewTaskExecutor`, `GetExecutorByTag`, `PostTask`, `WAIT_TASKS_COMPLETED` | a missing tag throws; a barrier is one only on a strand | a finished barrier covers what was posted before it | modelled |
| `Scheduler::Timer` (`scheduler.h`, `scheduler.cc`) | `timer_queue_`, `repeated_set_`, `is_running_` | `Start`, `Stop`, `Run_`, delayed and repeated tasks, `CancelRepeatedTask` | two first callers start it twice; a shorter task arrives during a sleep; cancellation races with a run; `Stop` joins before it notifies | a job is never copied, early, run too often, or slept through | modelled, proved |
| `EffectiveSink` (`logger/sinks/effective_sink.*`) | two mappings, `is_slave_free_`, `mtx_`, compression stream, session key, `ofs_` | `Log`, `Flush`, `SwapCache_`, `CacheToFile_`, constructor with recovery, rotation, elimination, destructor | swap claimed before it is made, tasks that run without a swap, unlocked reads, crash between two writes, recovery | accepted messages are kept, once, in order, decodable; `Flush` persists; sessions stay apart | modelled, proved |
| `MMapAux` (`logger/mmap/mmap_aux*.cc`) | file, size, capacity, header with magic and size | `Push`, `Resize`, `Clear`, `Data`, `GetRatio`, `Reserve_` | growth by remapping, reopening with another size, a failed map | a copy stays within the mapping; an exit leaves whole `Push`es; growth and reopening keep the contents | modelled, proved |
| Rotation and elimination (`effective_sink.cc` 190-237, the same names in all sinks) | `file_path_`, `ofs_`, the directory of log files | `GetFilePath_`, opening, `EliminateFiles_` | a suffix derived from a count, sizes that lag behind the buffer, several sinks in a directory, removal of an open file | a new name is fresh; files stay bounded; the open file and the newest ones stay; the directory comes to fit its limit | modelled, mostly proved |
| Synchronous sinks (`mmap_sink`, `simple_sink`, `protobuf_sink`, `compress_sink`, `crypto_sink`) | a cache, a threshold, `mtx_`, `ofs_` | `Log`, `Flush`, `CacheToFile_`, constructor, destructor | the limit is tested in another critical section than the push and the write; a crash between two `Push`es or between write and clear | items once and in order, lost or repeated by a crash only; the file can be walked chunk by chunk; `Flush` persists | modelled, proved (not the names of files) |
| `AsyncSink` (`async_sink.*`), `MemoryBuffer` (`mmap/memory_buffer.*`) | two growing buffers, `is_slave_free_`, `ofs_` | `Log`, `Flush`, `SwapCache_`, `CacheToFile_`, destructor | the protocol of `EffectiveSink` without a file behind the buffer; tasks that outlive the sink | `Flush` persists; a destruction after it is safe; the sink is a store of messages | modelled, proved |
| `LogHandle`, `LogFactory`, macros (`handler/`, `logger.h`) | `level_`, `sinks_`, the registered handle | `Log`, `Flush`, `SetLevel`, `SetLogHandle`, `LOG_*` | levels set and handles replaced or dropped during calls; a macro reads its plain pointer twice | a message goes to all sinks or none; a handle that is not there is used only after a replacement | modelled, proved |
| Decoder (`decode/decode.cc`) | `dctx` of the decompressor, offsets, the line buffer | `DecodeFile`, `DecodeChunkData`, `DecodeItemData` | chunks cut short, torn and recovered items, lost and long messages, exceptions | what was written is read; damage is contained | modelled |
| Compression (`compress/`) | a stream on each side | `Compress`, `ResetStream`, `Decompress` | stream state is carried from item to item and across chunks | a frame is readable as far as it is whole | modelled |
| Formatters (`formatter/`, `decode/decode_formatter.cc`) | the parsed pattern | `SetPattern`, `Format` | doubled, dangling, unknown flags | a line is what its pattern means | partly (patterns) |
| Crypto (`crypto/`) | keys, IV | `Encrypt`, `Decrypt` | whose key a chunk names | - | partly (which key) |
| Space units (`space.h`) | - | `space_cast` | products that do not fit a word | - | partly (in `LogFiles`) |

## 2. The models and the code

| Module | Models | Role |
|---|---|---|
| `Strand` | `scheduler.h` 163-175 | abstract specification: posted tasks run one at a time, in order |
| `ThreadPool` | `thread_pool.h`, `thread_pool.cc` | detailed specification, implements `Strand` when it has one thread |
| `Timer` | `scheduler.h`, `scheduler.cc` | the directory of executors and the timer |
| `EffectiveSink` | `effective_sink.cc` | the sink with its strand, crashes and recovery, implements `LogStore` until a swap goes wrong and except for untidy ends of a run |
| `Buffer` | what the sinks use of `mmap_aux.h` | abstract specification: contents that only `Push`, `Resize` and `Clear` change, each as a whole |
| `MMapAux` | `mmap_aux.cc`, `mmap_aux_linux.cc` | detailed specification, implements `Buffer` while the mapping has not been cut |
| `LogStore` | what `sinks/sink.h` promises | abstract specification: accepted messages are buffered and move to the file in order; only the end of the process takes or repeats any |
| `SyncSink` | `mmap_sink.cc`, `simple_sink.cc`, `protobuf_sink.cc`, `compress_sink.cc`, `crypto_sink.cc` | detailed specification of the sinks without an executor, implements `LogStore` |
| `AsyncSink` | `async_sink.cc`, `memory_buffer.cc` | detailed specification of the sink over two `MemoryBuffer`s, implements `LogStore` until a swap goes wrong |
| `LogFiles` | `GetFilePath_` and the file part of `CacheToFile_` of six sinks, `EliminateFiles_` | the directory that the sinks share |
| `Space` | `space.h` | operators: sizes in words |
| `LogHandle` | `log_handle.*`, `log_variadic_handle.h`, `log_factory.h`, `logger.h` | threads, handles and the program that replaces them |
| `Compression` | `zstd_compress.cc`, `zlib_compress.cc` | operators: what each side's stream makes of a block |
| `DecodeFormatter` | `decode_formatter.cc`, `effective_formatter.cc` | operators: the parser of patterns, and what a pattern means without it |
| `Decode` | `decode.cc`, and of the sinks what decides about a file | the decoder behind the sink whose files it reads |
| `MC...` | - | instances for TLC; `MCThreadPool` and `MCEffectiveSink` hold the documented properties the code does not have |
| `ThreadPoolProofs`, `TimerProofs`, `EffectiveSinkProofs`, `MMapAuxProofs`, `SyncSinkProofs`, `AsyncSinkProofs`, `LogFilesProofs`, `EndsProofs` | - | theorems; `ThreadPoolProofs` begins with the lemmas about sequences that the others use; `EndsProofs` has the two ends of the library, `LogHandle` and `Decode`, which do not meet |
| `Elements` | - | the elements of a sequence |

The modules are composed by what they promise. `ThreadPool` is refined to `Strand` (`ImplementsStrand`, with the
running worker's task as the strand's active one), `MMapAux` to `Buffer` (`ImplementsBuffer`), and `SyncSink`,
`AsyncSink` and `EffectiveSink` to `LogStore` (`ImplementsStore`), in which a write may move any first part of what is
buffered: all of it in `SyncSink`, the older of the two buffers in the other two. `EffectiveSink` uses its executor as
that strand: `pending` is the queue, `xpc` tells where the running task is, and a barrier (`WAIT_TASKS_COMPLETED`) is
the name of the thread that waits for it. Its two mappings are such buffers: `Push` is one step, and what a mapping
holds outlives the process. The timer's pool is reduced to its own thread's loop, the number of calls of `Run_` in its
queue, and its `Start`, `AddTask` and `Stop` with the same steps as in `ThreadPool`, because `Timer::Stop` can only
return if that pool's `Stop` does. `LogFiles` takes from the sinks only when they write a chunk and how many bytes,
and `Decode` takes from them what a run can leave in a file; both say in their headers what they reduce. `Decode` is
composed of `Compression`, which the sink's `Log` and the decoder share, and `DecodeFormatter`.

Definitions keep the names of the source. In each specification some operators
stand just before the one the code has (`NoLock` before `CanLock`, `DontPop`
before `Pop`, ...). They are the same operation with a plausible fault, and each
property has been seen to fail with one of them in place of the true one.

### ThreadPool

One step of a thread is what it does between two points where another thread
can interfere. For a worker these are: taking `mtx_` and evaluating the
predicate (`Evaluate`), blocking (`Block`, which releases `mtx_` and enters the
wait set at once, as `std::condition_variable` guarantees), taking the front
(`TakeTask`) or leaving (`Exit`), and returning from the task (`FinishTask`).
`AddTask` and `AddReturnTask` notify *after* they have released `mtx_`, and
`Stop` stores `is_running_` and notifies without `mtx_`: `Enqueue` /
`NotifyAdd` and `StopStore` / `StopNotify` are therefore separate steps. `Start`
adds threads while there are fewer than `thread_count_`; `Join` is the destructor
of one `ThreadInfo`. A task is a model value that is posted at most once. The
owner may start and stop the pool again and again.

### Timer

A critical section of `mtx_` is one step: every `notify_all` that can end a wait
of `Run_` is issued inside one, so no evaluation of a wait condition can be
separated from the blocking after it. Steps of their own are what the code does
outside: the load and the store of `is_running_` in `Start` (two first callers can
both pass), reading the clock (`Stamp`), calling the task (`RunTask`), and each
part of `Stop`. `now` counts units of `1/Micro` microseconds, because `Run_` truncates
the time that is left to whole microseconds and so may run an entry less than one
microsecond early; the proofs hold for any `Micro`, TLC uses 1. `Tick` moves the clock
while there is something in the future to wait for. A job is posted at most once and
is a record of its kind, delay, repetitions and tag; the number in it plays the part
of the repeated id. `PostRepeatedTask_` is one group of actions used by callers
(first run) and by the loop (later runs), as in the code. `GetExecutorByTag` throws
for an unknown tag: `TaskThrows` ends the caller's call, leaving the id registered,
and is caught in `Run_`. `Stop` is called by the destructor of the scheduler, when no
call is under way. `repeat_num` of -1 means 2^64 - 1 runs and is not instantiated.

A thread of the timer's pool waits for a call of `Run_` as any worker does (`thread_pool.cc` 34-46). It evaluates the
predicate with the pool's mutex (`EnterRun`, `LeavePool`, `PoolWaits`) and only then blocks (`PoolBlocks`), so it is
asleep until a notification or a spurious wakeup. `AddRun` takes that mutex and `NotifyRun` follows after its release;
the pool's `Stop` stores (`StopExecutor`) and notifies (`StopExecutorNotify`) without it. A thread that is between the
evaluation and the block misses that notification, and `JoinLoops` waits for it. Two first callers can be in
`StartExecutor` at the same time and append to one `thread_vector_` without a lock. What the race can lose is an
entry: `Vectors` says that `Stop` then finds some of the threads and not all, and joins only those. A crash in the
middle of the race, which is undefined behaviour as well, is left out.

### EffectiveSink

The state of the sink is `mem` (contents of the two mappings), `master` (which of
them `master_mmap_` points to), `slaveFree`, `mtx`, `cctx` (the last message that went
through the compression stream) and `session` (the key pair and IV of this run
of the process). `stream` is all that was written through `ofs_`, one file behind the other, and `saved` how much of
it is certainly in the kernel. A chunk's header tells whether a file begins with it (`opens`).

An item records which message it carries, which message the compressor saw just
before it in the same frame (`prev`), which session encrypted it (`key`) and whether
its second `Push` has been done (`whole`). These four are what the decoder needs in
order to read it, so "decodable" can be stated without modelling bytes. A mapping
is over 80 % when it has more than `Threshold` items.

The steps of a caller follow the code: `Empty` and `ResetStream` without the lock, then compress, encrypt and two
`Push`es under it, `NeedWriteToFile_`, the load of `is_slave_free_`, its store *before* the lock is taken for the
swap, the swap, the post. `Log` posts `CacheToFile_` whether or not it has swapped. `CacheToFile_` tests, sizes,
writes, clears and frees what `slave_mmap_` points to *at each line*, without `mtx_`; each is a step and reads the
current slave. `WriteHeader` closes the file and opens another one, or stays with the one it has: which of the two
depends on sizes and seconds, which are the matter of `LogFiles`, and is left open. A close hands everything to the
kernel. `WriteData` writes `chunk_header.size` items from wherever the pointer leads, with `Junk` behind the end.

`ResetStream` runs without the lock, so it can fall in the middle of another thread's `Compress`, which is undefined
for the library that holds the stream. Its outcomes are taken to be these: the reset happened before or behind it; it
is lost, because `Compress` stores the state it had found (`AfterReset`); or `Compress` sees the stream change under
it and returns an error (`CompressBroken`), after which `Log` has stored nothing. In zstd as it is published there are no others: a reset of the session sets the one field of zstd's context that says that a frame has to be begun, and compressing tests that
field, fails if it finds it set in the middle, and stores it at its end. `late` remembers the messages whose `Log` had
looked at the master before a swap and compresses behind it.

`Crash` may happen between any two steps. The mappings survive (the kernel owns the
pages), everything in memory is gone, and of the file an end is lost that
lies behind `saved` and between two writes. The constructor then finds what is left in the
mappings, which it opens by name, and hands the slave and then the master to
the strand, itself subject to crashes. `Close` is the destructor when no call and no
task is under way.

For `LogStore`, what is buffered are the messages of what the strand has still to write of the slave, followed by
those of the master; what is written are those of the stream, and what is durable those of its first `saved` cells.
The buffer outlives the process. Two ends of a run (`Untidy`) are outside what `LogStore` allows, and
`ImplementsStore` excepts the step in which one of them happens: between the write of the slave and its `Clear`, after
which the slave is written again, and with two filled mappings that have changed places, after which the newer items
are recovered first, because the mappings are opened by name (`effective_sink.cc:40`) and the slave is written first
(`:46`). TLC finds each of the two without its exception.

### MMapAux

The file is `magic` and `size` (its header) and `data` (the cells behind it); the object is `handle` and `capacity`.
Sizes are counted in cells, of which a page and the header hold a few. The sinks serialize their calls, so one call is
under way at a time, and what interferes with it is the end of the process. A call is therefore cut where an end makes
a difference: `Push` reads the size, `Reserve_` returns (`EnoughCapacity`) or unmaps, opens, truncates and maps
(`Remap`, one step because all it changes of the file is its length), `Copy` is the `memcpy`, `StoreSize` the store in
the header. The results of `open`, `ftruncate` and `mmap` are looked at by nobody: after a failed `open` the handle is
null, after a failed `mmap` it is `MAP_FAILED`, which the code uses like an address, and after a failed `ftruncate`
the mapping is longer or shorter than its file. Using a bad address, or a page behind the end of the file
(`CopyBehindFile`), ends the process, which `Exit` can do at any step. `Requested` is the default capacity because the
constructor asks for the size of a path it has just moved from. The size in the header does not wrap: it has 32 bits,
and a bound `MaxSize` stands for the memory there is. `mmap_aux_win.cc` is empty and so is not modelled.

### SyncSink

The five sinks without an executor have the same code but for two places, which depend on
the variable `sink`: what `Log` does to a message before `WriteToCache_`
(`CompressSink` compresses in a critical section of its own, `CryptoSink` encrypts in
that of the push, and both may fail), and the cache, which is a mapping or a
`MemoryBuffer`. A critical section is a step unless the process can end in the middle
of it with another effect: `WriteToCache_` is `PushHeader` and `PushBody`,
`CacheToFile_` is `BeginChunk` (size, file, header), `WriteData` and `ClearCache`, and
`mtx` is held in between. Between its critical sections a `Log` holds nothing.

A mapping is a `Buffer` here too. `stream` is all that went through `ofs_`, in order, across
runs and files; `first` is where the current file begins, and `saved` how much the
kernel has for certain. The kernel may have more, up to the end of a write, since `std::filebuf`
writes a block at once or not at all: `WriteBoundary` says where a file can end, both
for `GetFileSize` and after a crash. The chunk of a cache over its limit (over 400 KB)
passes through the buffer of `std::filebuf`, a smaller one may stay in it. Rotation
closes the file, which hands everything to the kernel. Whether a new
run continues the file of the last one (same second, same name) is a choice in `OpenFile`.

`text` records that an item has the bytes of its message. `MemoryBuffer` copies behind the size of a
string and then resizes it, which fills the place with zeros. Everything
else that `SyncSink` says is about the places of items and headers, which are right in
all five sinks; with zeros in them the items of four are of no use.

`MsgOf` maps the cache and the stream to the messages of `LogStore`; a chunk that has been
written and not yet cleared is still in the buffer (`Done`), so that `ClearCache` is the step that
writes and `WriteData` is none. A crash between the two is the step of `LogStore` that
repeats.

### AsyncSink

The protocol of `EffectiveSink` over two `MemoryBuffer`s: `cap` are their capacities, which
`Push` lets grow (`EnsureCapacity`: by halves, in the loop of `Reserve_`, or by what
`std::string` makes of it) and `Clear` keeps, so that the 80 % after which
a `Log` swaps move while the sink runs. No torn item is seen, since nothing reads the
master without `mtx_` and nothing survives the process, so `WriteToCache_` is one
step; the load, the store and the swap of `SwapCache_`, and the lines of
`CacheToFile_`, are steps as in `EffectiveSink`. `Flush` posts, waits, swaps, posts and
waits (`flush1`, `flush2`). `Destroy` can come when no call is under way and leaves the
strand as it is; `UseAfter` is the next step of a task then, and its outcome, which is
undefined, ends the behaviour.

### LogFiles

`files` are all files there ever were, `recent` those in the directory by the time of
their last write, which is how `EliminateFiles_` sorts them. A name is the second, the
flag of the sink (`_mmap`, ..., none for `EffectiveSink`) and an index. `GetFilePath` is `GetFilePath_`
(a name for the next chunk) with the test whether the file must be opened, `OpenFile`
closes the old and opens the new file, and `WriteChunk` is the write; between them other
sinks, the clock and the elimination interfere, but not the elimination in the sink that
does it, because both run on one strand. A size is what the kernel has: `buf` is what
`std::filebuf` keeps back, and a file that was removed while it was open has size 0 for
`GetFileSize`. `List`, `Keep`, `RemoveFile` and `Return` are the elimination, a file at
a time. `Close` constructs a sink anew, `Crash` all of them; neither knows the earlier
files, so a sink of the same second appends to one. `purged` remembers the seconds
of which a file was eliminated, since from then on the count no longer bounds the indices.
The limits are `space_cast` of `Space`, in a word of `Word` values.

### LogHandle

A `LOG_*` macro reads the registered plain pointer twice, for its test and for its call
(`TestHandle`, `CallHandle`); a call of the program's own keeps a `shared_ptr` (`BeginOwn`).
`Filter` loads `level_` once, each sink is called in a step (`CallSink`), and meanwhile
the program sets levels, registers another handle or none, and drops its pointers. A
handle is there as long as someone owns it (`Alive`). A call of a member of a handle that
is not there ends the thread in the model, with `fault` saying how. `got` is what each sink of each handle
has seen. `SetLevel` is modelled as the header declares it, see [Findings](#6-findings).

### Compression, DecodeFormatter and Decode

A block records its message, the message before it in its frame (`prev`) and whether it
is `long` (over the 10 KB that `ZstdCompress` gives the output). The stream of the
reader is the last message that went through it; `Decompressed` gives what a block
can become: its text when the stream is at `prev`, garbage or the text of a literal block
otherwise, and garbage from a stream that is `Broken` until a block with a magic number
resets it. `ZlibCompress`, which has no users, has no stream before its first reset.

`ParsePattern` is the parser turn by turn, `Format` the formatters in their order. `Meaning` is
their reference: a `%` announces a flag if an even number of `%` stands directly before it.

`Decode` (`DInit`, `DNext`, `DSpec`) lets a sink log, reset its stream (at any message, because the reset is not made
under the lock), lose items to a failing encryption, open files, write chunks, and end with its run: between calls,
inside the last item, after a chunk's header, or after a chunk whose mapping is not cleared. The next run writes what
it finds under its own key, in the same file or another. The decoder is given one file and has no context from others,
so `file` is the one that is open, or was last, and `OpenFile` begins it anew; an earlier file is what the decoder
reads when it starts before the next one is opened. A message whose frame begins in an earlier file (`Carried`) is not
in `clean` any more. The decoder then walks the file in cells (a header, an item's header, its data): chunk by chunk,
item by item, one stream for the whole file, one buffer of lines per chunk. A wrong magic number or a failing
`Decrypt` is an exception, which nobody catches before `main`. An item under a wrong key is usually found by its
padding; the model lets it be found or not.

## 3. Runs

| Run | Shows | Instance |
|---|---|---|
| `pool` | FIFO dispatch, no `front` of an empty queue, a quiet pool after `Stop`, no task forgotten, and a pool of one thread refines `Strand` | 2 workers, 2 clients, 2 tasks, pools of 1 and 2 threads |
| `timer` | no job is copied, early, or run too often; no loop oversleeps; what is posted runs; `Stop` hangs only on an idle loop or on a thread that misses the pool's notification | 2 callers, 2 loops, a delayed job of delta 2 and a repeated one of delta 1 and two runs, 1 tag, 1 cancellation |
| `sink_order` | messages appear once and in order; each item is decodable in its file unless a frame was carried into it; `Flush` persists | 2 threads, 3 messages, 1 `Flush`, every `Log` over the threshold, a new file at any chunk |
| `sink_recover` | messages are kept across crashes and failing calls; torn items come from crashes only; sessions do not mix; the sink refines `LogStore`; `Flush` returns; the slave becomes free again | 2 threads, 2 messages, 1 `Flush`, 3 sessions, `compress` and `encrypt` may fail |
| `mapping` | a copy stays in bounds; only reopening cuts (and a `Resize` after a failed `ftruncate`); otherwise the mapping refines `Buffer`, with failing calls and exits at any step | pages of 4 cells, a header of 2, a default of 3, blocks of 1 to 3 cells, contents up to 7 |
| `sync_sinks` | chunks are framed; torn items end a chunk of an earlier run; a `Flush` has written what was accepted; nobody leaves a full cache; the sink refines `LogStore` | 2 threads, all five sinks, 3 messages, 2 `Flush`es, 3 runs of the process |
| `files` | a rotated file has a fresh name; files stay bounded; only the files of other sinks can push an open file out; the directory comes to fit its limit | 2 sinks, 4 chunks of 2 bytes, 2 seconds, 1 restart, a buffer of 2 bytes, limits of 0 to 4 MB of 4 bytes in words of 16 values |
| `async` | `Flush` has written what was stored before it; a sink destroyed after a last `Flush` is not used again; the sink refines `LogStore` | 2 threads, 4 calls, items of 2 and 4 bytes, buffers of 4 |
| `decode` | the decoder reads every message whose frame begins in its file and is whole, contains damage in its chunk, and prints what the pattern means | 2 runs, files of up to 3 chunks, 4 messages, both codecs; 1 message with every pattern of up to 5 characters of `%`, a flag and another, and with that of `main` |
| `handles` | a message goes once to all sinks or to none; a handle that is not there is used only after a replacement | 2 threads, 2 handles that share a sink, 2 calls, 3 levels, 3 changes by the program |
| `pool_stop_hangs`, `sink_one_logger_loses` | counterexamples to documented properties, see [Findings](#6-findings) | the smallest that show them |

Type invariants are theorems of every module with a run (`TypeCorrect`, `DecodeTypes`), so the runs do not
repeat them.

**Why the bounds are enough.**
*Pool.* Two workers are the least that can race for one task, and a worker that
has just been joined is needed next to one that starts. Two tasks are the least for an
order, and with two clients one enqueues while the other notifies. Starts and stops
are not bounded.
*Timer.* Two callers are needed to start the timer twice and two loops to show the consequence, also that `Stop` knows
of one of two threads only. The shorter job can be posted while a loop goes to sleep for the longer, run for the first
time in its caller and again in a loop, and be cancelled at any point of it. The tag may or may not have an executor
at each run.
*Sink.* With `Threshold = 0` every `Log` tries to swap, so two loggers race for the slave
with three messages: one in the file, one in the slave, one in the master. Recovery
needs three sessions, so that a recovery crashes and is itself recovered; there
`Threshold = 1` lets a mapping keep an item that no swap has taken, which is how both
mappings are found non-empty. The bounds of messages, flushes, sessions and
cancellations are guards named `MaxMsgs`, `MaxFlushes`, `MaxSessions`, `MaxCancels`.
*Mapping.* The first page has room for two cells behind the header, so that a block fits, fills
the page or makes it grow; seven cells need three pages, so that a mapping grows twice
and is cut by more than a page when it is reopened. No capacity is a multiple of a page
before it is rounded. Exits and reopenings are not bounded.
*Synchronous sinks.* With `Threshold = 1` two messages make a cache full, so one thread's push, the
other's test and a third message meet. Three runs let a torn item be written by the second
and be seen by the third. With `SingleSize = 2` one chunk fits a file and two
do not.
*Files.* A chunk fits the buffer of a stream once and not twice, so sizes lag behind by a
chunk. With a limit of 0 every chunk that reaches the kernel makes the file too long, and
four chunks give indices up to 2 in one second or a name in each of two; with the third limit
a directory of 4 MB is 16 bytes, 0 in the word, and everything is eliminated. One restart appends to
a file of the same second.
*Asynchronous sink.* Two loggers and a `Flush` with a fourth call, or two `Flush`es around
two messages. A small item leaves a buffer under its ratio, a large one takes it over, and
a second one makes it grow. Nothing distinguishes the threads (symmetry).
*Decoder.* Two runs are needed for a chunk with the items of another run, three chunks
for one before and one behind it, four messages for a frame that goes on behind a reset, a
lost one and a long one. Five characters contain every pair of flags, runs of three `%` and a
dangling one.
*Handles.* Two calls meet on one handle and its sinks; three changes allow a replacement, a
drop of the last pointer, and a level in one behaviour.

`CHECK_DEADLOCK FALSE` is said for the sinks, their files and handles, the decoder and the timer: the model stops when
the bounds are used up and all calls have ended, the decoder when it has read the file, and the timer also after its
`Stop` (or in it). The mapping can be reopened at any time and is checked for deadlock as well. The pool can always be
started or stopped again and is checked for deadlock, which includes the case that all workers wait for each other;
the counterexample to `StopCompletes` is no deadlock for TLC because the sleeping worker may wake spuriously.

**Overrun.** Several properties of `EffectiveSink` and `AsyncSink` are conditional on `~overrun`. `overrun` becomes
true when a swap meets a slave that is in use or not empty, or when the strand frees a slave
that was claimed for a swap to come: the two faults of `SwapCache_` that finding 2
shows. After one the sink may lose, repeat or cut messages, so the runs ask what
holds as long as none has happened, including up to that moment in
every behaviour that leads to one. `RecoveryIsolated`, `TornOnlyByCrash`,
`FlushReturns`, `SlaveReleased` and `SafeDestroy` hold without that condition.

`InOrder` and `Decodable` are stated for the first session, and `Decodable` for one in which no call fails. Recovery
opens the mappings by name and can write the newer one first, and continues no compression stream, so the code keeps
no order across sessions. What can still be read then is the matter of `Decode`.

**Purged seconds.** `RotationFresh` and `FileBounded` are conditional on `purged`: a file's
index is the number of files of its second, so after an elimination the next name can be that of
the file that is too long. `EliminateFiles_` has then already decided that the directory is
full, and what remains is `Eliminated`.

## 4. Fairness

The runs with liveness properties use `FairSpec`:

- Every worker, loop, caller inside a call and the strand has weak fairness:
  they are operating-system threads, and a thread that can run will. Nobody is obliged to
  *begin* a call, start or stop a pool, cancel a task, or crash.
- No strong fairness for `mtx_`: `std::mutex` promises no order among waiters. The
  liveness properties of the sink hold all the same because the number of messages is bounded.
- In `Timer`, strong fairness for a caller's `AddRun` alone: it waits for the mutex of the timer's pool, which a
  thread that wakes spuriously may take again and again. The threads of that pool hold it only to evaluate a predicate, and
  a system that let a caller starve there would have no scheduling at all.
- No fairness for spurious wakeups: a condition variable may wake early, but a program
  may not rely on it. The lost wakeup of `Stop` is a counterexample under exactly
  this assumption.

- The clock has weak fairness: it does not stand still while something is in the future.
- `Stop` and the constructor go on when they can.
- In `LogFiles` a sink finishes the chunk it has begun, and the elimination, which the
  timer repeats for ever on the strand, goes on. Nobody is obliged to log; the number of chunks is
  bounded, so `Eliminated` says what the directory comes to when the sinks are quiet.
- `AsyncSink`, `Decode` and `LogHandle` are checked for safety only and assume no fairness.

`TaskRuns` allows for a stopped pool and `AllRuns` for a cancelled, throwing or stopped job, since the code drops
those. `StopReturns` says that `Timer::Stop` ends unless one of two wakeups is lost. Either a loop is asleep on an
empty queue: `scheduler.cc` 46 joins the loop's thread before line 47 notifies the condition variable it sleeps on. Or
a thread is asleep in the pool while `Stop` joins: it has returned from `Run_`, or never got a call of it, still found
the pool running, and blocked after the pool's notification, as in finding 1. Both happen in the run; whoever is in
neither of the two places lets `Stop` return.

## 5. Proofs

All theorems hold for every value of the constants that satisfies the named assumption.

| Module | Assumption | Theorems |
|---|---|---|
| `ThreadPoolProofs` | `PoolAssumption`: thread counts are naturals, the two null values are none of the sets' | `TypeCorrect`, `DispatchOrder`, `StopIsQuiet`, `BarrierWaits`, `PoolIsStrand` |
| `TimerProofs` | `TimerAssumption`: jobs are records of their type, clients and loops are distinct, a delayed job runs once, `Micro` is positive | `TypeCorrect`, `NeverCopied`, `NeverOversleeps`, `CountedRuns`, `NotBeforeTime` |
| `MMapAuxProofs` | `MMapAssumption`: page, header and default capacity are positive, the default is larger than the header, what may fail are `open`, `ftruncate` and `mmap` | `TypeCorrect`, `CopiesInBounds`, `CutsWhenReopened`, `MappingIsBuffer` |
| `SyncSinkProofs` | `SyncAssumption`: finitely many threads, the constructing one among them, bounds are naturals, only `CompressSink` and `CryptoSink` fail | `TypeCorrect`, `FramedChunks`, `TornItems`, `FlushedIsWritten`, `BoundedCache`, `SinkIsStore` |
| `LogFilesProofs` | `FilesAssumption`: the eliminating sink is one of the sinks, limits and bounds are naturals, chunks have at least a byte and at most `LargestChunk`; `SpaceAssumption`: words and units are positive | `TypeCorrect`, `Bounded`, `Fresh`, `OpenKept` |
| `EndsProofs` | `HandleAssumption`: the null handle is none of the handles', each handle has a sequence of sinks, levels are 0 to 6 with `kTrace` and `kInfo` among them, bounds are naturals | `TypeCorrect`, `Delivered`, `HandleKept` |
| `EndsProofs` | `DecodeAssumption`: an input has a pattern of characters, one of the two codecs and a number of messages, bounds are naturals | `DecodeTypes`, `ReadClean`, `DamageStays`, `PatternMeant` |
| `EffectiveSinkProofs` | `SinkAssumption`: the constructing thread is one of the threads, bounds are naturals, the null values are distinct | `TypeCorrect`, `TornItems`, `StoredMessages`, `RecoveredApart`, `FlushIsDurable`, `OrderKept`, `ItemsDecodable`, `SinkIsStore` |
| `AsyncSinkProofs` | `AsyncAssumption`: a task is not named like a thread, bounds are naturals, lengths are positive, a buffer has room for two cells | `FlushIsDurable`, `FlushedThenSafe`, `SinkIsStore`, `TypeCorrect`, `PushFits` |

**ThreadPool.** That no worker pops an empty queue (`NoEmptyPop`, a part of `DispatchFIFO`) is not inductive: the worker that
has evaluated the predicate must be the only one that can pop until it does. `MutexInv`
says that `mtx_` is held between two steps exactly by a worker inside `cv_.wait`.
The second way to violate it is a worker of an earlier start that passed the
predicate because the pool was stopped and then sees it running: `ThreadInv` says
that a pool that is idle and not running has no threads, since `Stop` joins them.
`WorkInv` links what was started and finished to what the running workers hold, which
`QuietAfterStop` needs. `IInv` is the conjunction with the properties themselves.
`BarrierOrder` and the steps of `Strand` are about a pool of one thread. `StrandInv` adds that there is
then at most one worker, that what was started is what was finished and the task in hand, and
that no task is posted twice. A barrier that has finished was started, so what was posted before
it was started before it, and finished, since the one worker finishes what it has
started first. In `PoolIsStrand` posting, taking and finishing a task are the steps of `Strand`,
and every other step (waking, blocking, starting, stopping, joining) is a stutter.

**Timer.** `BaseInv` consists of the types, `PlaceInv` (where callers and loops can be, and that exactly those in the
middle of something have a job) and `LeftInv` (what is left of a job at each place). `OneCopy` is inductive with it: a
thread that pushes an entry gives up its job in the same step, and one that pops takes it. `CountInv` relates the runs
of a job to what is left in its single copy, which is why `OneCopy` must come first; `CancelInv` says that a cancelled
job can run once more only if some thread is already past its membership test, and there is only one such thread,
again by `OneCopy`. `DueInv` relates the time of an entry, or of a stamped push, to the earliest time at which its job
may run; `NotBeforeTime` follows for every step. `SleepsForTop` needs that a push wakes every loop that waits. The
pool's own wait adds to `PlaceInv` where its threads can be, and nothing else, because no safety property depends on
it.

**EffectiveSink.** `BaseInv` has the types; `MutexInv` (`mtx_` is held between two
steps exactly between the two `Push`es); `CallInv` (the last item of the master is then
that thread's message); `KeyInv` (no item of a session to come); `TornInv` (an item of
this session that is not whole is the last of the master, and the lock is held);
`CtorInv` and `BarrierInv` (the constructor is alone; a barrier belongs to one waiting
thread). With it, `Retained` is inductive together with `SizeInv`, which ties
`chunk_header.size` to the slave while the strand writes: without overrun the size
read is the number of items written and cleared. `RecoveryIsolated` needs `SessionInv`,
which follows the constructor phase by phase (`CtorPhase`) and says for each what the
strand's queue can hold and which mapping may still contain old items (`Draining`); it
holds in spite of overruns because they cannot happen before the constructor has returned.

`FlushPersists` is the argument for the *two* halves of `Flush`, and it is not inductive at all: a step of
`CacheToFile_` that another thread's `Log` has posted may drain the slave, or declare it free, at any point
of the call. `FlushInv` says what a waiting `Flush` knows whoever steps. Before the first barrier has
run: all that was stored when it began is written or in the slave (`Covered`), or the slave is drained and the next
swap can only go right (`Calm`), or a `CacheToFile_` is on the strand and not behind the barrier (`Ahead`), or
one is running. When the barrier runs, the strand is idle and nothing is ahead of it, so the first two remain:
`Flush` has not written its messages yet, but its second swap, or the one that another thread is in the middle of
(`Claimed`), hands them over; the second `CacheToFile_` then writes them before the second barrier (`Saved`).
It needs that a slave that counts as free is empty once the constructor has returned (`FreeInv`), and that only a call of
`Log` is at the steps of one (`LogInv`). A crash drops the calls under way; what was flushed stays in the stream
or was lost in `ofs_`.

`InOrder` and `Decodable` are about `Chain`, the file followed by what is left of the slave and by the master. It
changes in three steps only: the two `Push`es, at its end, and the header of a chunk, which goes between the file and
the slave; writing, clearing and a swap that finds its slave drained move items along without changing it
(`ChainStays`, which needs that the size the strand has read is still the slave's). So the order is kept if the
message a thread has in hand was never stored and is nobody else's (`NewInv`), and the items continue each other if
the compression stream is at the last item of the chain, which may be in a mapping or in the file by now, or begins a
frame (`FrameInv`): `ResetStream` without the lock only ever begins a frame too many, or none. That the frame also
begins in the same file is the matter of `LateInv`: the first item of a mapping opens a frame or is `late`
(`FirstOpens`), since while the master is empty whoever is about to store into it has reset the stream, or had passed
the test before the swap (`ResetForFirst`); and what stands behind a header is the first item of a mapping
(`ChunkOpens`). Both properties are stated by places, not by a selection, because `SelectSeq` is a recursion that the
provers cannot unfold.

`SinkIsStore` is the same view of the steps with the messages selected, by `MsgOf`, a recursive function of the
prefixes as in `SyncSink`, and across all runs. Of the two `Push`es the second one is the `SAccept`, since an item
counts as a message once it is whole: that it was not whole before is `TornLast`. `WriteData` is the `SWrite` of the
part that the slave is of what is buffered, which needs `SizeInv` again; the header, the swap and `Clear` are
stutters; the end of a run is `SDie`, with a prefix of the stream that is no shorter than what was durable
(`MsgOfCut`, `MsgOfGrows`) and the same buffer, because the mappings are opened in the order they had, or one of them
is empty (`RestartKeepsBuffer`).

**AsyncSink.** The same argument without a session, a lock on the strand's side or a file behind the buffer.
`FlushInv` follows a `Flush` through `FirstWait`, `Between` and `LastWait`; `Retained` (what is accepted is in the
stream, the slave or the master) takes the place of `StoredMessages`. `SafeDestroy` rests on `EndInv`: when a `Flush`
covers all calls of `Log` there is no `Log` under way, and every `CacheToFile_` on the strand has a barrier behind it
or a `Flush` that has yet to put one there (`Awaited`); when the last `Flush` has returned nobody is left to post, so
the queue is empty. `SinkIsStore` maps a `Push` to a store in `LogStore`, `WriteData` to a write of the part that the
slave is of what is buffered, and the swap to a stutter, because the slave is empty unless the swap goes wrong. The
types are proved as `TypeInv`, without the capacities, which no other invariant needs; `CapInv` adds those.
`GrownEnough` says that the loop of `Reserve_` ends with more than what was asked for, whether the library gives half
as much again or doubles (from a capacity of 2 on, since half of 1 is nothing in integers), and `PushFits` that what
is pushed then has room, which `memcpy` relies on.

**MMapAux.** The file and the mapping agree on a length only while there is a mapping, and the magic number says
nothing about the size, so three invariants come first: `CallInv` (which call can be at which step and what it
carries), `MapInv` (a mapped file has exactly the length of the capacity, if `ftruncate` does not fail), and `RoomInv`
(after `Reserve_` the new size and the header fit into the capacity, also when the size left in a cut file is larger
than the file). `CopiedInv` says that at the store of the size what is stored last is the block; with it each step
maps to a step of `Buffer` or to none (`MappingIsBuffer`), on the steps that begin and end with an intact mapping.
Rounding to pages is a lemma about `\div`.

**SyncSink.** `MutexInv` and `CallInv` say who is where, and that the constructor is alone. `ChunkInv` describes the
chunk between the steps of `CacheToFile_`: the size read is still that of the cache, the header is the last cell, and
after `WriteData` the end of the stream is a copy of the cache. `FramedChunks` needs, besides, that a header at the
end of the stream without its items is being served or belongs to an earlier run (`HeaderInv`); the proof of the crash
uses that a file ends between two writes, never inside one. `TornItems` needs `CacheInv`: an item without its body is
the last of the cache, and if it is of an earlier run the constructor has not returned, so `Log` cannot push behind
it. `FlushedIsWritten` rests on `KeptInv` (what this run has accepted is in the cache or in the stream) and on the
copy that `ChunkInv` describes. `BoundedCache` counts the threads in `Writers`: each push adds an item and a thread
that has not tested the limit yet. `SinkIsStore` maps the body of an item to `SAccept`, the header of a chunk and
`WriteData` to `SSync` (they move bytes, and the kernel may get some), `ClearCache` to the `SWrite` of all that is
buffered, and the ends of a process to `SDie`: until the cache is cleared, what `WriteData` has put in the file counts
as buffered (`Done` leaves it out), and an end of the process in between is where `LogStore` allows messages to be
written twice. The messages of a stream (`MsgOf`) are a recursive function of its prefixes; lemmas say by induction
what it makes of `Append`, `\o` and the first items of a stream.

**LogFiles.** `NamedInv` says that a sink has open the file that `file_path_` names, except between naming and
opening, and that a name carries its sink's flag; `DirInv` that the directory has every file but eliminated ones,
under different names. `FileBounded` is not inductive: `SizeInv` adds, for the file a sink has open, what its buffer
holds and what the chunk under way can still bring (`Coming`), and holds for files out of the directory as well;
opening a file once more pays for one more buffer and chunk. `RotationFresh` follows from `IndexInv`: in a second of
which nothing was eliminated all indices, also those of names that are not opened yet, are below the number of files
or equal to it, so the number is a new index. Counting files of a second is about cardinalities of finite sets that
lose or gain an element; the lemmas about `Without` and `Touch` say what the order of the directory keeps.
`OpenFileKept` is about that order: `PlaceInv` says that in the directory and in the listing each file has one place,
and that in front of a file that its sink made and has open there are no other files of that sink, since the file it
writes to moves to the front and only other sinks' files can overtake it. `SumInv` bounds `cur_total_size` by the
present sizes of the files the walk has seen, which only grow. So when the walk removes the open file, all it has
added up is other sinks'.

*Induction.* The induction theorems of the library take an operator as a parameter. `SyncSinkProofs`,
`LogFilesProofs`, `EffectiveSinkProofs`, `AsyncSinkProofs` and `EndsProofs` therefore state induction over the
naturals for a set (`Induction`: a set with 0 that has the successor of each of its members has all naturals), from
the library's fact that `<` is well founded. With it a recursive function is shown to exist, one number of its domain
at a time, which is what unfolds its definition.

**LogHandle.** `CallInv` follows a call from place to place: a call with a pointer of its own keeps its
handle alive, a macro's handle is the registered one or there was a replacement, and a
message on its way to the sinks had passed a level of `seen`. `IdInv` makes the numbers of calls
unique, and `GotInv` says that a call under way has been to exactly the sinks it has counted, once
each. `AllOrNone` is what `GotInv` becomes when the call returns, and stays true because no other
call has its number. `Times` counts places in a sequence, and a lemma says what `Append` does to it.

**Decode.** The three properties are about what the decoder has read so far, so the invariant first has to say what a
file can look like. `ChunkInv`: a chunk has its header alone (`Ends`, the run ended behind it) or all of its items
(`Full`), headers and data in turn, where only the last item may lack its data, and the keys of chunks never decrease.
`LinkOk` follows the frames: an item of `clean` that is in a chunk of its own run begins a frame, or the item in front
of it is the one its block continues; for the first item of a chunk (`Back`) that is the last cell of the chunk
before, so a frame goes on across chunks. A new file (`OpenSink`) takes the items of the frame that is carried into it
out of `clean`; these are the ones in front of the first item of the mapping that begins a frame, and none behind it,
since the items of a mapping have different messages (`OrderInv`). `MmapInv` says the same of what is not written yet,
and `StreamInv` that the sink's stream is at the last item unless the frame is spoilt. None of this survives a run
that ends unless what is recovered has a smaller key than the chunk it is written in; that is where `CleanRead` needs
that line and chunk have the same key. Of the decoder, `OutInv` counts lines by places of the file (`HeadItems`, the
items with a header up to a place), `AtInv` says that it stands before a header or at the end and has stopped early
only in a chunk that is not `Intact`, and `BehindInv` that its stream is at the message of the last line if that line
had to be readable (`Due`). Then a message of `clean` is read right: its block begins a frame and resets the stream,
or the line before was `Due` as well, and the stream is where the block continues.

`PatternMeaning` relates the parser's state to places of the pattern: after `n` characters, the formatters and the
characters in hand append what these `n` places mean, and `flag` says whether the place announces a flag, which
depends on the length of the run of `%` in front of it. `Run` is a `CHOOSE`, so a lemma shows that a run has one
beginning (`BeginsOnce`). `Parsed` and `Joined` are recursive functions; lemmas show by induction that they exist and
what they do at each place. The provers do not know that the literals of `Letter` are strings, so the names of fields
and flags are kept in a set of their own (`Words`).

**Only model-checked.** Liveness (`TaskRuns`, `AllRuns`, `StopReturns`, `FlushReturns`,
`SlaveReleased`, `Eliminated`) is out of the prover's reach. Every invariant, every action property and every
refinement that a passing run checks is also proved.

## 6. Findings

1. **`ThreadPool::Stop` can hang** (run `pool_stop_hangs`, `thread_pool.cc:22`). `Stop`
   stores `is_running_` and notifies without `mtx_`. A worker that has evaluated the
   predicate and not yet blocked misses the notification, and `join` waits for ever.
   `gtest_threadpool.cc:15-21` creates and destroys a pool and ends only if `Stop` returns.
2. **A message can be lost with a single logger** (run `sink_one_logger_loses`,
   `effective_sink.cc:102`). `Log` posts `CacheToFile_` also when the slave was busy and nothing
   was swapped. This stale task may run after a later call has stored
   `is_slave_free_ = false` and before it swaps: it finds an empty slave and declares it
   free. The swap then makes a slave that counts as free; the next swap brings it
   back as master, or takes it while it is written. `README.md:13` promises that no log is lost.

What else the models state of the code, and where it departs from what one may expect:

- *A crash after `Flush`* (`effective_sink.cc:179`). `CacheToFile_` clears the mapping after
  `ofs_.write`, but a small chunk may stay in the buffer of `std::filebuf`; `ofs_` is flushed
  by the destructor only. `Retained` therefore allows for the messages in `lost`, those the buffer had at a crash.
- *Recovery can repeat or reorder* (`effective_sink.cc:46`, `:179`). A slave that was written and not cleared at a crash is
  written again, and mappings that have changed places are recovered in reverse order. `Untidy` names the two.
- *Recovered items get another key* (`effective_sink.cc:160`). The constructor draws a new
  key pair and IV and writes items of an earlier run under a header that names the new ones. `Decode`
  has these chunks: `CleanRead` is about items under the key of their own run.
- *A frame can be carried into another file* (`effective_sink.cc:75`, `:172`). The mapping is tested and the stream
  reset before `mtx_` is taken. A `Log` that has passed the test before a swap and compresses behind it continues the
  frame of the chunk before. If the two chunks are in different files, the decoder, which begins each file with a new
  stream, cannot read that item nor what continues its frame. `Decodable` and `CleanRead` except exactly these.
- *Reopening cuts a mapping that has grown* (`mmap_aux.cc:14`): the size is asked of a path that has just been moved
  from, so 512 KB are mapped. `OnlyReopeningCuts` says that nothing else cuts it. (After a failed `ftruncate`, which
  nobody looks at either, a `Resize` can store a size the file does not have.)
- *`Timer::Stop` can hang* (`scheduler.cc:46`), on a loop that waits for an empty queue and by finding 1 on its own
  pool (`StopReturns`).
- *The sinks over `MemoryBuffer` write zeros* (`memory_buffer.cc:11`): `Push` copies behind the
  end of a `std::string` and then calls `resize`, which fills the place with zeros. `CompressSink`
  besides pushes with a size of 0 (`compress_sink.cc:49`).
- *Names after an elimination* (`effective_sink.cc:199`): the count that gives the index shrinks, and
  the new name can be that of an older file, or of the one that is too long. A sink whose open file
  was removed sees a size of 0 and writes to the nameless file for ever (`OpenFileKept` says when).
- *The macros* (`logger.h:10`) keep a plain pointer: `LOGGER_INIT` during a call can leave it dangling or null.
- *A destructor of a double-buffered sink* does not wait for its strand (`async_sink.cc:87`); a
  `Flush` as the last call makes it safe (`SafeDestroy`).
- The range constructor of `LogHandle` leaves `level_` at `kTrace`, the other ones at `kInfo`. `LOG_OFF`
  logs with `kError`. `SetLevel` is `inline` in `log_handle.cc`, so other files cannot link it.
- `decode.cc:99` disables the arguments that `README.md:361` documents; `main` has constant paths and a constant key.
- `ZlibCompress` loops if `deflate` makes no progress (`Z_BUF_ERROR`); it has no users and the models
  do not reach the case.

## 7. What is not modelled

- The C++ data race on the two `unique_ptr`s (`effective_sink.cc:137` against the unlocked
  reads): the swap is one step here, so a reader sees one mapping or the other. That a reader
  could see a null pointer ends the process and is listed as a hazard.
- The destructor of `EffectiveSink` while tasks are queued: it has the code of `AsyncSink`'s, where it
  is modelled. Its repeated elimination can never be cancelled, since nobody keeps the id.
- The bytes of items, chunks and headers; the algorithms of zstd, zlib, AES and ECDH; the
  layout of protobuf, of `DefaultFormatter`'s lines, of numbers and dates. They are library code or
  have no state of their own. (`kLogLevelStrp` of `DefaultFormatter` is "DIWEO", indexed by levels
  that begin with `kTrace`: its letters are off by one.)
- `ConsoleSink`, which prints; `SetFormatter`, which is called before any `Log`; `utils` and the
  internal log; the arithmetic and comparison operators of `space`, which the library does not use.
- Errors of the file system, for the directory and the elimination: a file that cannot be listed or
  removed. Two elimination tasks, which would need two `EffectiveSink`s in a directory.
- Two files with the same time of their last write. `LogFiles` has the files in the strict order of their writes, but
  the kernel's clock is coarse (some milliseconds), and `std::sort` leaves the order of equal times open. The files
  that one `OpenFile` closes and opens are then such a pair: if the closed one alone reaches `total_size`, the
  elimination could take the open one. `OpenFileKept` does not speak of this corner.
- The growth of a cache as far as its ratio goes: `Threshold` is 80 % of a capacity that stays in `SyncSink` and
  `EffectiveSink`. In the code the capacity grows when a push does not fit, and the limit with it, so that the cache
  may then hold more before it is over; `AsyncSink` has the capacities, and `MMapAux` their growth.
- A failure of `ofs_`, or a full disk. `EffectiveSink` and `SyncSink` assume of its mappings what `Buffer`
  says: that they are mapped (a failed map makes `Push` do nothing, `MMapAux` shows when), and that
  none has outgrown the default capacity when it is reopened.
- Memory order: the atomics of the code use the default, sequentially consistent one.

## 8. Plan

The order is that of importance: first what every sink relies on, then the sink
the library is named for, then persistence and files, then the simpler sinks.

| Step | Module | Composes | Properties | State |
|---|---|---|---|---|
| 1 | `Strand`, `ThreadPool` | - | dispatch, barrier, quiet stop, refinement | done, proved |
| 2 | `EffectiveSink` | the strand, `LogStore` | retention, order, decodability, recovery, flush, refinement | done, proved but for liveness |
| 3 | `Timer` | `ThreadPool` (reduced) | one copy, no oversleeping, counts, times | done, proved |
| 4 | `Buffer`, `MMapAux` | - | the header's size stays within the mapping; growth and reopening keep the contents | done, proved |
| 5 | `LogStore`, `SyncSink` | `Buffer` | framing, torn items, order, duplicates only by a crash, the limit | done, proved |
| 6 | `Space`, `LogFiles` | the files of all sinks, `Timer`'s repeated task | fresh names, bounded files, the open file stays, the directory fits its limit | done, proved but for liveness |
| 7 | `AsyncSink` | `LogStore`, the strand | flush, destruction, refinement | done, proved |
| 8 | `Compression`, `DecodeFormatter`, `Decode` | what sinks leave in files | what was written is read; damage ends at its chunk; patterns | done, proved |
| 9 | `LogHandle` | a handle's sinks | all sinks or none; only a replaced handle is missed | done, proved |

*What could come next.* The data race on the two pointers of `EffectiveSink`, with loads and stores of their own
for the swap.
