------------------------------ MODULE Elements ------------------------------
(* The elements of a sequence, for the histories and queues of the models.    *)
EXTENDS Naturals, Sequences

Elems(s) == {s[i] : i \in 1 .. Len(s)}
=============================================================================
