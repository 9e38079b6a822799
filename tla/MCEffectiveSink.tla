-------------------------- MODULE MCEffectiveSink ---------------------------
(* EffectiveSink for TLC, with what the documentation says of the sink and    *)
(* the code does not provide.  (Nor does it keep what a Flush has handed to   *)
(* ofs_ when the process dies, which the variable lost counts, and recovered  *)
(* items are written under the key of another run, which Decode shows.)       *)
EXTENDS EffectiveSink

\* README.md 13: no log is lost.  Two loggers, or one logger and a stale task
\* of the strand, can swap a slave that is being written.
NoLoss == \A i \in 1 .. Len(accepted) : InMem(accepted[i]) \/ InStream(accepted[i])
=============================================================================
