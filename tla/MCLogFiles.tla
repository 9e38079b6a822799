----------------------------- MODULE MCLogFiles -----------------------------
(* An instance of LogFiles for TLC.  A megabyte is four bytes; in the last    *)
(* configuration the limit of the directory is as many bytes as do not fit    *)
(* into a word.                                                               *)
EXTENDS LogFiles

MCConfs == {[single_size |-> 0, total_size |-> 1],
            [single_size |-> 1, total_size |-> 2],
            [single_size |-> 1, total_size |-> 4]}
=============================================================================
