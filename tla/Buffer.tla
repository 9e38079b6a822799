------------------------------- MODULE Buffer -------------------------------
(* What the sinks expect of a mapping: a sequence of bytes that is changed by *)
(* calls of Push, Resize and Clear only.  The process may exit in a call,     *)
(* which then has had its whole effect or none.  MMapAux is shown to          *)
(* implement this module.                                                     *)
EXTENDS Naturals, Sequences

CONSTANTS Cells, Blocks

VARIABLES contents,
          call       \* the call under way; its op is "none" if there is none

bvars == <<contents, call>>

NoCall == [op |-> "none", arg |-> <<>>, len |-> 0]

BInit == contents = <<>> /\ call = NoCall

BPush(d) ==
    /\ call = NoCall
    /\ call' = [op |-> "push", arg |-> d, len |-> Len(contents) + Len(d)]
    /\ UNCHANGED contents

BResize ==
    /\ call = NoCall
    /\ call'.len \in Nat
    /\ call' = [op |-> "resize", arg |-> <<>>, len |-> call'.len]
    /\ UNCHANGED contents

\* What Resize adds behind the old contents is not defined.
BReturn ==
    /\ call # NoCall
    /\ call' = NoCall
    /\ contents' \in Seq(Cells)
    /\ Len(contents') = call.len
    /\ \A i \in DOMAIN contents \cap DOMAIN contents' : contents'[i] = contents[i]
    /\ call.op = "push" => contents' = contents \o call.arg

BExit == call' = NoCall /\ UNCHANGED contents

BClear == call = NoCall /\ contents' = <<>> /\ UNCHANGED call

BNext == (\E d \in Blocks : BPush(d)) \/ BResize \/ BReturn \/ BExit \/ BClear
=============================================================================
