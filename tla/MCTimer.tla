------------------------------ MODULE MCTimer -------------------------------
(* Timer for TLC: a delayed task, and a repeated one of two runs.             *)
EXTENDS Timer

MCJobs == {[number |-> 1, kind |-> "delayed", delta |-> 2, total |-> 1, tag |-> 1],
           [number |-> 2, kind |-> "repeated", delta |-> 1, total |-> 2, tag |-> 1]}
=============================================================================
