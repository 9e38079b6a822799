---------------------------- MODULE MCLogHandle -----------------------------
(* LogHandle for TLC: one handle with two sinks, and one made from a range    *)
(* that shares a sink with it.                                                *)
EXTENDS LogHandle, TLC

CONSTANTS h1, h2, s1, s2

MCSinks == (h1 :> <<s1, s2>>) @@ (h2 :> <<s2>>)

Symmetric == Permutations(Threads)
=============================================================================
