------------------------------ MODULE LogStore ------------------------------
(* What a sink promises of the messages it has accepted: they are buffered in *)
(* order and move to the file in order, once each.  Only the end of the       *)
(* process takes anything away: an end of the file that the kernel did not    *)
(* have yet and, unless the buffer outlives the process, the buffer.  Only it *)
(* repeats anything: what was on its way from one to the other.  SyncSink,    *)
(* AsyncSink and EffectiveSink are shown to implement this module.            *)
EXTENDS Naturals, Sequences

CONSTANT Msgs

VARIABLES
    outlives,  \* the buffer survives the end of the process
    buffered,  \* the messages in the buffer
    written,   \* the messages in the file
    durable    \* how many of them the kernel has for certain

svars == <<outlives, buffered, written, durable>>

SInit ==
    /\ outlives \in BOOLEAN
    /\ buffered = <<>> /\ written = <<>> /\ durable = 0

\* The kernel never gives back what it has.
Synced == durable' \in durable .. Len(written')

SAccept ==
    /\ \E m \in Msgs : buffered' = Append(buffered, m)
    /\ UNCHANGED <<outlives, written, durable>>

\* A sink with two buffers writes the older one, which holds the first messages.
SWrite ==
    /\ \E k \in 0 .. Len(buffered) :
          /\ written' = written \o SubSeq(buffered, 1, k)
          /\ buffered' = SubSeq(buffered, k + 1, Len(buffered))
    /\ Synced
    /\ UNCHANGED outlives

SSync == Synced /\ UNCHANGED <<outlives, buffered, written>>

SDie ==
    /\ \/ \E k \in durable .. Len(written) : written' = SubSeq(written, 1, k)
       \/ written' = written \o buffered
    /\ buffered' = IF outlives THEN buffered ELSE <<>>
    /\ durable' = Len(written')
    /\ UNCHANGED outlives

SNext == SAccept \/ SWrite \/ SSync \/ SDie
=============================================================================
