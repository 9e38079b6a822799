----------------------------- MODULE MCMMapAux ------------------------------
(* MMapAux for TLC: blocks of one to three cells.                             *)
EXTENDS MMapAux

MCBlocks == {<<1>>, <<2>>, <<1, 2>>, <<2, 1, 1>>}
=============================================================================
