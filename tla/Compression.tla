---------------------------- MODULE Compression ----------------------------
(* The two implementations of logger::compress::Compression, as far as the    *)
(* state of their streams goes: a block can be read only behind all blocks of *)
(* its frame.  ZstdCompress is what the sinks and the decoder use;            *)
(* ZlibCompress has no users in the repository.                               *)
(*                                                                            *)
(* A stream is the last message that went through it, or one of these.        *)
EXTENDS Integers

NoMsg == 0      \* a frame is about to begin
NoStream == -1  \* ZlibCompress before the first reset
Broken == -2    \* it has bytes that are not those of the other side

\* What is printed for a message that cannot be read.
Garbled == 0

Codecs == {"zstd", "zlib"}

\* The streams of a new object.
NewStream(codec) == IF codec = "zlib" THEN NoStream ELSE NoMsg

\* ResetStream
Reset == NoMsg

\* Compress returns 0 without a stream.
CanCompress(cctx) == cctx # NoStream

\* The output of a Z_SYNC_FLUSH or ZSTD_e_flush: it continues the frame of prev,
\* or begins with the magic number of a frame.
Compress(cctx, m, long) == [msg |-> m, prev |-> cctx, long |-> long]

\* IsZSTDCompress, IsCompressed: the first block of a frame has the magic number;
\* no block that continues a frame begins with one, in either format.
IsCompressed(b) == b.prev = NoMsg

\* Decompress begins with a new stream when it sees the magic number.
ResetDecompressStream == NoMsg
KeepStream(dctx, b) == dctx
Resume(dctx, b) == IF IsCompressed(b) THEN ResetDecompressStream ELSE dctx

\* What Decompress can return for a block, and the stream it leaves.  A block
\* out of its place may still be a literal one.  ZstdCompress gives 10 KB to the
\* output and forgets the rest; ZlibCompress takes as many buffers as it needs,
\* but not one more when the input ends with a full one.
Decompressed(codec, dctx, b) ==
    LET d == Resume(dctx, b)
        read  == [text |-> b.msg, dctx |-> b.msg]
        wrong == [text |-> Garbled, dctx |-> Broken]
    IN CASE d = NoStream -> {[text |-> Garbled, dctx |-> NoStream]}
         [] d \notin {b.prev, NoStream} -> {wrong, [text |-> b.msg, dctx |-> Broken]}
         [] d = b.prev /\ ~b.long -> {read}
         [] d = b.prev /\ b.long -> IF codec = "zstd" THEN {wrong} ELSE {read, wrong}

\* Bytes that are no block at all.
DecompressedNoise(dctx) ==
    {[text |-> Garbled, dctx |-> IF dctx = NoStream THEN NoStream ELSE Broken]}
=============================================================================
