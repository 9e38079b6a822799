---------------------------- MODULE MCAsyncSink -----------------------------
(* AsyncSink for TLC: nothing tells the threads apart.                        *)
EXTENDS AsyncSink, TLC

Symmetric == Permutations(Threads)
=============================================================================
