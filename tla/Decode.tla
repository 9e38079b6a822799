------------------------------- MODULE Decode -------------------------------
(* The decoder (decode/decode.cc) behind the sink whose files it reads.  The  *)
(* sink is reduced to what decides about the file: which block of a stream an *)
(* item holds, which run of the process has encrypted it, and what of a chunk *)
(* the end of a run leaves; EffectiveSink shows why these are all cases.      *)
(* The decoder is given one file, and has no other context: the file is the   *)
(* one that is being written, and it may begin while the sink still writes,   *)
(* which is what it finds in a file that is not written any more.             *)
(*                                                                            *)
(* Offsets and sizes count cells: a ChunkHeader, an ItemHeader and the data   *)
(* of an item are one each.  An exception ends the decoder; a read behind the *)
(* end of the file, which is undefined, finds noise or ends it as well.       *)
EXTENDS Compression, DecodeFormatter, FiniteSets

CONSTANTS Inputs,       \* [pattern, codec, msgs]: the pattern, the compression,
                        \* and a bound for the messages of the file
          MaxSessions,  \* bound: runs of the process
          MaxChunks     \* bound: chunks of a file

ASSUME DecodeAssumption ==
    /\ Inputs \subseteq [pattern : Seq(STRING), codec : Codecs, msgs : Nat]
    /\ {MaxSessions, MaxChunks} \subseteq Nat

VARIABLES
    input,
    file,       \* the cells of the file that ofs_ has open, or had last
    mmap,       \* the items to be written next
    cctx,       \* the stream of the sink
    session,    \* its run of the process
    next,       \* the next message
    frameOK,    \* history: no block of this frame was long or has got lost
    clean,      \* history: the messages with frameOK that are not long, but for
                \* those whose frame begins in another file
    status,     \* "log"; "file", "chunk" in the decoder's loops; "end", "throw"
    formatters, \* flag_formatters
    dctx,       \* its stream
    offset, pos,    \* offset of DecodeFile and of DecodeChunkData
    output_buf, output  \* lines: the item and the text of each

sinkVars == <<file, mmap, cctx, session, next, frameOK, clean>>
decoderVars == <<status, formatters, dctx, offset, pos, output_buf, output>>
dvars == <<input, sinkVars, decoderVars>>

DInit ==
    /\ input \in Inputs
    /\ file = <<>> /\ mmap = <<>>
    /\ cctx = NewStream(input.codec)
    /\ session = 1 /\ next = 1
    /\ frameOK = TRUE /\ clean = {}
    /\ status = "log"
    /\ formatters = <<>>
    /\ dctx = NewStream(input.codec)
    /\ offset = 0 /\ pos = 0
    /\ output_buf = <<>> /\ output = <<>>

-----------------------------------------------------------------------------
(* The sink                                                                   *)

\* Nothing recovered is left: the constructor has written it out.
OwnItems == \A i \in 1..Len(mmap) : mmap[i].key = session

\* A run encrypts with the key and IV that it has generated.
Encrypt(block) == [key |-> session, whole |-> TRUE, block |-> block]

\* A message goes through the stream and is stored, unless it is not encrypted;
\* the reset, which is not made under the lock, may come too early or too late.
Log ==
    /\ status = "log"
    /\ OwnItems
    /\ next <= input.msgs
    /\ next' = next + 1
    /\ \E reset, long, stored \in BOOLEAN :
         LET c == IF reset THEN Reset ELSE cctx
             ok == reset \/ frameOK
         IN IF CanCompress(c)
            THEN /\ cctx' = next
                 /\ mmap' = IF stored
                            THEN Append(mmap, Encrypt(Compress(c, next, long)))
                            ELSE mmap
                 /\ frameOK' = (ok /\ stored /\ ~long)
                 /\ clean' = IF ok /\ stored /\ ~long THEN clean \cup {next} ELSE clean
            ELSE UNCHANGED <<mmap, cctx, frameOK, clean>>
    /\ UNCHANGED <<input, file, session, decoderVars>>

\* Only the last item can be without its data.
Size == IF mmap[Len(mmap)].whole THEN 2 * Len(mmap) ELSE 2 * Len(mmap) - 1

Header == [kind |-> "chunk", key |-> session, size |-> Size]

Cells == [k \in 1..Size |-> [kind |-> IF k % 2 = 1 THEN "head" ELSE "data",
                             item |-> mmap[(k + 1) \div 2]]]

Chunks == Cardinality({p \in 1..Len(file) : file[p].kind = "chunk"})

\* The items whose frame does not begin in the mapping.
Carried == {mmap[k].block.msg : k \in {n \in 1..Len(mmap) :
                \A j \in 1..n : ~IsCompressed(mmap[j].block)}}

\* CacheToFile_ finds another name in GetFilePath_, by the size of the file or
\* because the run has none yet, and opens that file before it writes the chunk.
OpenFile ==
    /\ status = "log"
    /\ mmap # <<>> /\ file # <<>>
    /\ file' = <<>>
    /\ clean' = clean \ Carried
    /\ frameOK' = (frameOK /\ cctx \notin Carried)
    /\ UNCHANGED <<input, mmap, cctx, session, next, decoderVars>>

\* The chunk goes behind what the file has, and the mapping is cleared.
CacheToFile ==
    /\ status = "log"
    /\ mmap # <<>> /\ Chunks < MaxChunks
    /\ file' = file \o <<Header>> \o Cells
    /\ mmap' = <<>>
    /\ UNCHANGED <<input, cctx, session, next, frameOK, clean, decoderVars>>

\* A run ends: between two calls; between the two Pushes of the last item; after
\* the header of a chunk; or after its data, with the mapping not yet cleared.
EndOfRun ==
    /\ status = "log"
    /\ session < MaxSessions
    /\ session' = session + 1
    /\ \/ UNCHANGED <<file, mmap>>
       \/ /\ mmap # <<>> /\ OwnItems /\ mmap' = [mmap EXCEPT ![Len(mmap)].whole = FALSE]
          /\ UNCHANGED file
       \/ /\ mmap # <<>> /\ Chunks < MaxChunks
          /\ file' \in {Append(file, Header), file \o <<Header>> \o Cells}
          /\ UNCHANGED mmap
    /\ cctx' = NewStream(input.codec)
    /\ frameOK' = TRUE
    /\ UNCHANGED <<input, next, clean, decoderVars>>

-----------------------------------------------------------------------------
(* The decoder                                                                *)

Throw ==
    /\ status' = "throw"
    /\ UNCHANGED <<dctx, offset, pos, output_buf, output>>

\* main sets the pattern; DecodeFile refuses a file without a header.
Start ==
    /\ status = "log"
    /\ formatters' = ParsePattern(input.pattern)
    /\ status' = IF file = <<>> THEN "throw" ELSE "file"
    /\ UNCHANGED <<input, sinkVars, dctx, offset, pos, output_buf, output>>

Cell(n) == file[n + 1]
InFile(n) == n < Len(file)

\* DecodeChunkData reads the header; each chunk has a buffer of its own.
Kept == output_buf
Cleared == <<>>

NextChunk ==
    /\ status = "file"
    /\ InFile(offset)
    /\ IF Cell(offset).kind = "chunk"
       THEN /\ status' = "chunk"
            /\ output_buf' = Cleared
            /\ pos' = 0
            /\ UNCHANGED <<dctx, offset, output>>
       ELSE Throw
    /\ UNCHANGED <<input, sinkVars, formatters>>

\* The data behind the ItemHeader at n, with the key that the chunk names.
Readable(n) ==
    /\ InFile(n + 1) /\ Cell(n + 1).kind = "data"
    /\ Cell(n).item.key = Cell(offset).key

\* DecodeItemData: the magic number of the item; then, if Decrypt does not
\* throw, a line.  With another key, or what is not the data of an item, the
\* padding is wrong in most cases.
DecodeItem ==
    /\ status = "chunk"
    /\ pos < Cell(offset).size
    /\ LET n == offset + 1 + pos
       IN IF InFile(n) /\ Cell(n).kind = "head"
          THEN \/ \E r \in IF Readable(n)
                           THEN Decompressed(input.codec, dctx, Cell(n).item.block)
                           ELSE DecompressedNoise(dctx) :
                     /\ output_buf' = Append(output_buf,
                            [item |-> Cell(n).item, key |-> Cell(offset).key,
                             text |-> Format(formatters, r.text)])
                     /\ dctx' = r.dctx
                     /\ pos' = pos + 2
                     /\ UNCHANGED <<status, offset, output>>
               \/ ~Readable(n) /\ Throw
          ELSE Throw
    /\ UNCHANGED <<input, sinkVars, formatters>>

\* The chunk is done, and its lines are written to the output file.
WriteToFile ==
    /\ status = "chunk"
    /\ pos >= Cell(offset).size
    /\ output' = output \o output_buf
    /\ offset' = offset + 1 + Cell(offset).size
    /\ status' = "file"
    /\ UNCHANGED <<input, sinkVars, formatters, dctx, pos, output_buf>>

End ==
    /\ status = "file"
    /\ ~InFile(offset)
    /\ status' = "end"
    /\ UNCHANGED <<input, sinkVars, formatters, dctx, offset, pos, output_buf, output>>

DNext == Log \/ OpenFile \/ CacheToFile \/ EndOfRun \/ Start \/ NextChunk \/ DecodeItem \/ WriteToFile \/ End

DSpec == DInit /\ [][DNext]_dvars

-----------------------------------------------------------------------------
(* Properties                                                                 *)

\* The decoder's lines: those written, and those of the chunk it is at.
Lines == output \o output_buf

\* A message is read as it was logged if its own run has written it, its frame
\* begins in the same file, and nothing before it in the frame was long or lost:
\* across chunks, which may divide a frame, behind chunks of other runs, and
\* whatever else could not be read.
CleanRead ==
    \A i \in 1..Len(Lines) :
        LET line == Lines[i]
            m == line.item.block.msg
        IN (m \in clean /\ line.item.whole /\ line.item.key = line.key)
           => line.text = Meaning(input.pattern, m)

\* A chunk that can be decrypted to its end.
Intact(n) ==
    \A k \in 1..Cell(n).size :
        /\ InFile(n + k)
        /\ Cell(n + k).kind = IF k % 2 = 1 THEN "head" ELSE "data"
        /\ Cell(n + k).item.key = Cell(n).key
        /\ Cell(n + k).item.whole

\* The items of a sequence of lines, and those with a header in the file.
Items(lines) == [i \in 1..Len(lines) |-> lines[i].item]
HeadItems == Joined([p \in 1..Len(file) |-> IF file[p].kind = "head" THEN <<file[p].item>> ELSE <<>>])

\* A damaged chunk takes no other one with it but those behind it: the output
\* has one line for each item before it, in their order, and the decoder stops
\* early only at a damaged chunk.
DamageContained ==
    /\ Items(output) = HeadItems[offset]
    /\ status = "throw" /\ file # <<>> => Cell(offset).kind = "chunk" /\ ~Intact(offset)
    /\ status = "end" => offset = Len(file)

\* The lines are what the pattern means, in every order of flags, literal
\* characters, doubled and dangling '%'.
PatternMeaning ==
    status # "log" => Format(formatters, 1) = Meaning(input.pattern, 1)
=============================================================================
